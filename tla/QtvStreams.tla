----------------------------- MODULE QtvStreams -----------------------------
(***************************************************************************)
(* QTV proxies (sv_demo_qtv.c): the listening socket, connections whose    *)
(* handshake is under way, and those that have become a stream of the      *)
(* recorder or, on the same port, a client behind a qizmo proxy.  Errors   *)
(* only mark a connection; others sweep up what is marked.                 *)
(*                                                                         *)
(* What a stream is sent is in MvdRecorder.                                *)
(***************************************************************************)
EXTENDS Integers, Sequences, FiniteSets

CONSTANTS
    Sock,               \* connections that proxies may make
    Name,               \* names of proxies, NoName for none
    NoName,
    Request,            \* headers that proxies send
    UserId,             \* users that watch through a proxy
    MaxStreams,         \* qtv_maxstreams; 0: no limit
    Extra,              \* 3: connections beyond it that may be a qizmo
    MaxUsers,           \* 2048
    Password,           \* whether qtv_password is set
    PendingTimeout,     \* qtv_pendingtimeout, in frames
    MaxSent             \* bound: times that a pending proxy sends something

VARIABLES
    listening,  \* the listening socket is open
    pending,    \* demo.pendingdest
    dest,       \* the streams in demo.dest
    tcpstreams, \* sockets in svs.tcpstreams
    open,       \* sockets that are open
    seen        \* sockets accepted so far

qtv == <<listening, pending, dest, tcpstreams, open, seen>>

Closed == "-1"      \* p->socket of what has handed its socket on

ASSUME SockAssumption == Closed \notin Sock
ASSUME QtvLimitsAssumption == PendingTimeout \in Nat

(* The request of a proxy: the lines of its header that matter. *)
Header == [auth : {"NONE", "PLAIN", "MD4"}, password : {"none", "right", "wrong"},
           version : BOOLEAN, name : Name]

ASSUME RequestAssumption == Request \subseteq Header

QtvInit ==
    /\ listening = TRUE
    /\ pending = <<>> /\ dest = <<>>
    /\ tcpstreams = {} /\ open = {} /\ seen = {}

-----------------------------------------------------------------------------
(* SV_MVDCloseStreams: everything is marked, to be closed later. *)
AllMarked(list) == [i \in DOMAIN list |-> [list[i] EXCEPT !.error = TRUE]]

(* SV_CheckQTVPort: qtv_streamport has been changed, or the socket could   *)
(* not be opened and now can.                                              *)
PortChanges ==
    /\ listening' \in BOOLEAN
    /\ pending' = AllMarked(pending)
    /\ dest' = AllMarked(dest)
    /\ UNCHANGED <<tcpstreams, open, seen>>

PollClosed ==
    /\ ~listening
    /\ pending' = AllMarked(pending)
    /\ dest' = AllMarked(dest)
    /\ UNCHANGED <<listening, tcpstreams, open, seen>>

Full(n) == MaxStreams > 0 /\ Len(dest) >= MaxStreams + n

(* SV_MVDStream_Poll, SV_MVD_InitPendingStream: a connection is accepted.  *)
(* It is closed at once if it cannot be set up or there are too many.      *)
Poll ==
    /\ listening
    /\ \E s \in Sock \ seen :
          /\ seen' = seen \union {s}
          /\ \/ UNCHANGED <<pending, open>>
             \/ /\ ~Full(Extra)
                /\ open' = open \union {s}
                /\ pending' = <<[sock |-> s, error |-> FALSE, hasauthed |-> FALSE,
                                 must_be_qizmo |-> Full(0), io_time |-> 0,
                                 sent |-> 0]>> \o pending
    /\ UNCHANGED <<listening, dest, tcpstreams>>

-----------------------------------------------------------------------------
(* What recv brings in, if anything: part of a header, one that is not     *)
(* QTV's, the greeting of qizmo, a whole header, or the end.               *)
Input == [kind : {"part", "other", "qizmo", "end"}] \union
         [kind : {"header"}, header : Request]

(* Mutant: a connection that is silent stays. *)
TimedOutNever(list) == list

TimedOut(list) ==
    [i \in DOMAIN list |-> [list[i] EXCEPT !.error = @ \/ list[i].io_time >= PendingTimeout]]

(* The sweep takes every marked entry at the head, and of the others every *)
(* one that does not follow one just taken: those at an odd distance from  *)
(* the last that is not marked.                                            *)
Swept(list) ==
    {i \in DOMAIN list :
        /\ list[i].error
        /\ \A j \in 1..i - 1 :
              ~list[j].error /\ (\A k \in j + 1..i : list[k].error) => (i - j) % 2 = 1}

(* A list without the entries at the places gone. *)
Without(list, gone) ==
    LET kept[i \in 0..Len(list)] ==
            IF i = 0 THEN <<>>
            ELSE IF i \in gone THEN kept[i - 1] ELSE Append(kept[i - 1], list[i])
    IN kept[Len(list)]

SocketsOf(list) == {list[i].sock : i \in DOMAIN list} \ {Closed}

(* SV_InitStream, of a proxy that may be let in. *)
MayStream(streams, name) ==
    /\ \A i \in DOMAIN streams : name # NoName => streams[i].name # name
    /\ MaxStreams > 0 => Len(streams) < MaxStreams

NewStream(p, name) == [sock |-> p.sock, name |-> name, error |-> FALSE, users |-> <<>>]

(* Whether a header authorises, is answered by a challenge, or neither.    *)
(* AUTH: NONE is taken for PLAIN, which needs a PASSWORD that is right.    *)
Authorises(p, h) == p.hasauthed \/ ~Password \/ (h.auth # "NONE" /\ h.password = "right")
IsChallenged(p, h) == ~Authorises(p, h) /\ h.password = "none" /\ h.auth = "MD4"

(* Mutant: the entry keeps the socket it has handed on. *)
HandedOnKept(p) == [p EXCEPT !.error = TRUE]

(* The socket is another's now. *)
HandedOn(p) == [p EXCEPT !.sock = Closed, !.error = TRUE]

(* One connection in SV_MVD_RunPendingConnections: what it is to be, by    *)
(* what it has sent.                                                       *)
Answer(p, streams, in) ==
    IF p.error THEN "the same"
    ELSE IF in.kind = "qizmo" THEN "a qizmo"
    ELSE IF in.kind = "part" THEN "pending"
    ELSE IF in.kind \in {"end", "other"} \/ p.must_be_qizmo THEN "an error"
    ELSE IF IsChallenged(p, in.header) THEN "pending"
    ELSE IF /\ Authorises(p, in.header)
            /\ in.header.version
            /\ MayStream(streams, in.header.name)
    THEN "a stream"
    ELSE "an error"

After(p, answer) ==
    CASE answer = "the same" -> p
      [] answer = "pending"  -> [p EXCEPT !.io_time = 0, !.sent = @ + 1]
      [] answer = "an error" -> [p EXCEPT !.error = TRUE]
      [] OTHER               -> HandedOn(p)

Later(list) ==
    [i \in DOMAIN list |->
        [list[i] EXCEPT !.io_time = IF @ < PendingTimeout THEN @ + 1 ELSE @]]

(* All of SV_MVD_RunPendingConnections; a frame passes, in which at most   *)
(* one of the connections that are left is heard.                          *)
PendingFrame(Heard(_)) ==
    /\ pending # <<>>
    /\ LET old  == TimedOut(pending)
           left == Without(old, Swept(old))
       IN /\ open' = open \ (SocketsOf(pending) \ SocketsOf(left))
          /\ Heard(Later(left))
    /\ UNCHANGED <<listening, seen>>

NoneHeard(left) == pending' = left /\ UNCHANGED <<dest, tcpstreams>>

OneHeard(left) ==
    \E i \in DOMAIN left, in \in Input :
        /\ left[i].sent < MaxSent \/ in.kind = "end"
        /\ LET p == left[i]
               answer == Answer(p, dest, in)
           IN /\ pending' = [left EXCEPT ![i] = After(p, answer)]
              /\ dest' = IF answer = "a stream"
                         THEN <<NewStream(p, in.header.name)>> \o dest ELSE dest
              /\ tcpstreams' = IF answer = "a qizmo"
                               THEN tcpstreams \union {p.sock} ELSE tcpstreams

SilentFrame == PendingFrame(NoneHeard)

RunPendingConnections == SilentFrame \/ PendingFrame(OneHeard)

-----------------------------------------------------------------------------
(* QTVcmd_QtvUserList_f: a user is added or changed, or has left.          *)
AddUser(d, u) ==
    IF \E i \in DOMAIN d.users : d.users[i] = u THEN d
    ELSE IF Len(d.users) > MaxUsers THEN [d EXCEPT !.error = TRUE]
    ELSE [d EXCEPT !.users = <<u>> \o @]

FreeUser(d, u) == [d EXCEPT !.users = Without(@, {i \in DOMAIN @ : @[i] = u})]

(* QTV_ReadInput of one stream that is not marked: a command of the user   *)
(* list, something it must not send, or the end of the connection.         *)
ReadInput ==
    /\ \E i \in DOMAIN dest :
          /\ ~dest[i].error
          /\ \/ \E u \in UserId : dest' = [dest EXCEPT ![i] = AddUser(@, u)]
             \/ \E u \in UserId : dest' = [dest EXCEPT ![i] = FreeUser(@, u)]
             \/ dest' = [dest EXCEPT ![i].error = TRUE]
    /\ UNCHANGED <<listening, pending, tcpstreams, open, seen>>

(* Qtv_Close_f: the operator drops one, or all. *)
Qtv_Close_f ==
    /\ \/ \E i \in DOMAIN dest : dest' = [dest EXCEPT ![i].error = TRUE]
       \/ dest' = AllMarked(dest)
    /\ UNCHANGED <<listening, pending, tcpstreams, open, seen>>

(* DestFlush closes the streams that are marked, SV_MVDStop after an error *)
(* all of them.                                                            *)
CloseDests(gone) ==
    /\ gone # {}
    /\ dest' = Without(dest, gone)
    /\ open' = open \ {dest[i].sock : i \in gone}
    /\ UNCHANGED <<listening, pending, tcpstreams, seen>>

FlushDests == CloseDests({i \in DOMAIN dest : dest[i].error})
StopAll == CloseDests(DOMAIN dest)

(* sv_tcp_connection_free *)
QizmoEnds ==
    /\ \E s \in tcpstreams : tcpstreams' = tcpstreams \ {s} /\ open' = open \ {s}
    /\ UNCHANGED <<listening, pending, dest, seen>>

QtvNext ==
    \/ PortChanges
    \/ PollClosed
    \/ Poll
    \/ RunPendingConnections
    \/ ReadInput
    \/ Qtv_Close_f
    \/ FlushDests
    \/ StopAll
    \/ QizmoEnds

QtvSpec == QtvInit /\ [][QtvNext]_qtv

(* Each frame polls, runs the pending connections and flushes; a proxy     *)
(* may be silent for as many frames as it likes, but does not send forever.*)
QtvFairness ==
    /\ WF_qtv(PollClosed)
    /\ WF_qtv(SilentFrame)
    /\ WF_qtv(FlushDests)

-----------------------------------------------------------------------------
(* A socket passes from the list of pending connections to a stream or to  *)
(* a client behind qizmo: at any time each open one has exactly one owner, *)
(* so that it is used and closed once, and none is forgotten.              *)
OneOwner ==
    LET count(s) == Cardinality({i \in DOMAIN pending : pending[i].sock = s})
                    + Cardinality({i \in DOMAIN dest : dest[i].sock = s})
                    + (IF s \in tcpstreams THEN 1 ELSE 0)
    IN \A s \in Sock : count(s) = IF s \in open THEN 1 ELSE 0

(* A handshake ends: in a stream, a qizmo connection, or nothing.  (Of two *)
(* marked neighbours a sweep may leave one; a proxy that stops sending     *)
(* times out.)                                                             *)
HandshakesEnd ==
    \A s \in Sock : s \in SocketsOf(pending) ~> s \notin SocketsOf(pending)

(* Once the port is closed for good, so is everything that came through.   *)
PortClosedEndsAll ==
    <>[](~listening) => <>[](pending = <<>> /\ dest = <<>>)
=============================================================================
