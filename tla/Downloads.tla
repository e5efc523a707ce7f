----------------------------- MODULE Downloads -----------------------------
(***************************************************************************)
(* Files that a client gets from the server (sv_user.c): one at a time, in *)
(* blocks, each asked for when the one before has arrived; a queue of      *)
(* demos; and the level that changes meanwhile, which a client that gets a *)
(* file ignores until it is told again.                                    *)
(*                                                                         *)
(* Both directions are the channel's reliable ones.  The client, which is  *)
(* not in this repository, is modelled from what the server expects of it: *)
(* it asks for nothing else while it gets a file, but to stop.             *)
(***************************************************************************)
EXTENDS Integers, SequencesExt, TLC

CONSTANTS
    File,               \* the files there are: how many blocks each has
    Absent,             \* what the number of no demo stands for
    Queue,              \* what "dl" may be given: names, not all of files there are
    MaxAsked,           \* bound: what the client asks for
    MaxLevels           \* bound: level changes

VARIABLES
    server,     \* what the client's slot keeps, see Init
    rate,       \* netchan.rate: which of the client's rates it follows
    client,     \* what it gets, how much of it, whether it is of this level
    toClient, toServer,
    cut,        \* history: the file that ended last was refused or stopped, none follows
    bad,        \* history: a file that was closed was not the whole of it
    asked, levels   \* bounds

vars == <<server, rate, client, toClient, toServer, cut, bad, asked, levels>>

None == "none"
Idle == [gets |-> None, has |-> 0]

Init ==
    /\ server = [download |-> None, count |-> 0, demonum |-> <<>>, current |-> TRUE]
    /\ rate = "rate"
    /\ client = [gets |-> None, has |-> 0, current |-> TRUE]
    /\ toClient = <<>> /\ toServer = <<>>
    /\ cut = FALSE /\ bad = FALSE
    /\ asked = 0 /\ levels = 0

Get(name) == [op |-> "get", name |-> name]
Data(name, from, n, all) == [op |-> "data", name |-> name, from |-> from, n |-> n, all |-> all]
Refused == [op |-> "refused"]
Stopped == [op |-> "stopped"]
Reconnect == [op |-> "reconnect"]

-----------------------------------------------------------------------------
(* SV_DownloadNextFile: the next demo that there is, which the client is   *)
(* made to ask for.                                                        *)
NextFile(demonum) ==
    LET i == SelectInSeq(demonum, LAMBDA name : name # Absent)
    IN IF i = 0 THEN [demonum |-> <<>>, sent |-> <<>>]
       ELSE [demonum |-> SubSeq(demonum, i + 1, Len(demonum)), sent |-> <<Get(demonum[i])>>]

(* Mutant: a queue that is done counts as one that is not. *)
CompletedBut(s) ==
    LET next == NextFile(s.demonum)
    IN [server |-> [s EXCEPT !.download = None, !.demonum = next.demonum],
        sent |-> IF s.demonum # <<>> \/ next.sent # <<>> \/ s.current THEN next.sent
                 ELSE <<Reconnect>>]

(* SV_CompleteDownoload *)
Completed(s) ==
    LET next == NextFile(s.demonum)
    IN [server |-> [s EXCEPT !.download = None, !.demonum = next.demonum],
        sent |-> IF next.sent # <<>> \/ s.current THEN next.sent ELSE <<Reconnect>>]

(* Mutant: all of it once the percentage is rounded to 100. *)
AllRounded(s, n) == 2 * (s.count + n) > File[s.download]

All(s, n) == s.count + n = File[s.download]

(* Cmd_NextDownload_f, with n blocks. *)
NextDownload(s, n) ==
    LET sent == [s EXCEPT !.count = @ + n]
        data == Data(s.download, s.count, n, All(s, n))
    IN IF s.count + n = File[s.download]
       THEN [Completed(sent) EXCEPT !.sent = <<data>> \o @]
       ELSE [server |-> sent, sent |-> <<data>>]

Blocks(s) == IF s.count = File[s.download] THEN {0} ELSE 1..(File[s.download] - s.count)
RateOf(s) == IF s.download = None THEN "rate" ELSE "drate"

Reply(s, sent) ==
    /\ server' = s
    /\ toClient' = toClient \o sent
    /\ toServer' = Tail(toServer)
    /\ UNCHANGED <<client, bad, asked, levels>>

Command(op) == toServer # <<>> /\ Head(toServer).op = op

(* The client's next command: Cmd_NextDownload_f ...                       *)
Cmd_NextDownload_f ==
    /\ Command("nextdl")
    /\ IF server.download = None
       THEN Reply(server, <<>>) /\ UNCHANGED <<rate, cut>>
       ELSE \E n \in Blocks(server) :
               \E r \in {NextDownload(server, n)} :
                  /\ Reply(r.server, r.sent)
                  /\ rate' = IF r.server.download = None THEN "rate" ELSE rate
                  /\ cut' = (cut /\ ~All(server, n))

(* ... Cmd_Download_f, where a name may be refused before or after the     *)
(* file that is open is closed, and the first block follows at once ...    *)
Cmd_Download_f ==
    /\ Command("download")
    /\ IF Head(toServer).name \notin DOMAIN File
       THEN /\ \E keep \in BOOLEAN, next \in {NextFile(server.demonum)} :
                  /\ Reply([server EXCEPT !.demonum = next.demonum,
                                          !.download = IF keep THEN @ ELSE None],
                           <<Refused>> \o next.sent)
                  /\ rate' = IF keep THEN rate ELSE "rate"
                  /\ cut' = (next.sent = <<>>)
       ELSE /\ \E s \in {[server EXCEPT !.download = Head(toServer).name, !.count = 0]} :
                  \E n \in Blocks(s) : \E r \in {NextDownload(s, n)} :
                     /\ Reply(r.server, r.sent)
                     /\ rate' = RateOf(r.server)
                     /\ cut' = (cut /\ ~All(s, n))

(* ... Cmd_DemoDownload_f, with names or with none, and ...                *)
Cmd_DemoDownload_f ==
    /\ Command("dl")
    /\ \E s \in {[server EXCEPT !.demonum =
                    IF Head(toServer).names = <<>> THEN <<>>
                    ELSE IF server.demonum = <<>> THEN Head(toServer).names ELSE @]} :
          \E next \in {NextFile(s.demonum)} :
             IF Head(toServer).names = <<>> \/ server.demonum # <<>>
             THEN Reply(s, <<>>)
             ELSE Reply([s EXCEPT !.demonum = next.demonum], next.sent)
    /\ UNCHANGED <<rate, cut>>

(* Mutant: the rate stays the one for downloads. *)
RateWhenStopped == rate

RateStopped == "rate"

(* ... Cmd_StopDownload_f. *)
Cmd_StopDownload_f ==
    /\ Command("stopdl")
    /\ IF server.download = None
       THEN Reply(server, <<>>) /\ UNCHANGED <<rate, cut>>
       ELSE /\ Reply([server EXCEPT !.download = None, !.demonum = <<>>], <<Stopped>>)
            /\ rate' = RateStopped
            /\ cut' = TRUE

(* SV_ExtractFromUserinfo, SV_CheckVars and Cmd_Rate_f set the rate again, *)
(* which changes nothing when it follows the right one already.            *)
SetRate ==
    /\ rate' = RateOf(server)
    /\ UNCHANGED <<server, client, toClient, toServer, cut, bad, asked, levels>>

(* SV_Map: everyone is told to reconnect to the new level. *)
SV_Map ==
    /\ levels < MaxLevels   \* bound
    /\ levels' = levels + 1
    /\ server' = [server EXCEPT !.current = FALSE]
    /\ client' = [client EXCEPT !.current = FALSE]
    /\ toClient' = Append(toClient, Reconnect)
    /\ cut' = FALSE
    /\ UNCHANGED <<rate, toServer, bad, asked>>

(* Cmd_New_f *)
Cmd_New_f ==
    /\ Command("new")
    /\ Reply([server EXCEPT !.current = TRUE], <<>>)
    /\ UNCHANGED <<rate, cut>>

-----------------------------------------------------------------------------
(* The client asks for a file or a queue, or has had enough of it.         *)
Ask ==
    /\ asked < MaxAsked     \* bound
    /\ asked' = asked + 1
    /\ \E c \in IF client.gets = None
                THEN {[op |-> "download", name |-> x] : x \in DOMAIN File}
                     \union {[op |-> "dl", names |-> q] : q \in Queue \union {<<>>}}
                ELSE {[op |-> "stopdl"]} :
          /\ c.op \in {"download", "dl"} => toServer = <<>> /\ toClient = <<>>
          /\ toServer' = Append(toServer, c)
          /\ client' = IF c.op = "download" THEN [client EXCEPT !.gets = c.name, !.has = 0]
                       ELSE client
    /\ UNCHANGED <<server, rate, toClient, cut, bad, levels>>

(* What the client does with what it is sent.                              *)
Receive ==
    /\ toClient # <<>>
    /\ toClient' = Tail(toClient)
    /\ \E m \in {Head(toClient)} :
          \/ /\ m.op = "data"
             /\ client' = IF m.all THEN Idle @@ client
                          ELSE [client EXCEPT !.has = @ + m.n]
             /\ bad' = (bad \/ m.name # client.gets \/ m.from # client.has
                            \/ (m.all /\ client.has + m.n # File[m.name]))
             /\ toServer' = IF m.all THEN toServer ELSE Append(toServer, [op |-> "nextdl"])
          \/ /\ m.op \in {"refused", "stopped"}
             /\ client' = Idle @@ client
             /\ UNCHANGED <<bad, toServer>>
          \/ /\ m.op = "get"
             /\ client' = [client EXCEPT !.gets = m.name, !.has = 0]
             /\ toServer' = Append(toServer, [op |-> "download", name |-> m.name])
             /\ UNCHANGED bad
          \/ /\ m.op = "reconnect"
             /\ client' = [client EXCEPT !.current = @ \/ client.gets = None]
             /\ toServer' = IF client.gets = None THEN Append(toServer, [op |-> "new"])
                            ELSE toServer
             /\ UNCHANGED bad
    /\ UNCHANGED <<server, rate, cut, asked, levels>>

Next ==
    \/ Cmd_NextDownload_f \/ Cmd_Download_f \/ Cmd_DemoDownload_f \/ Cmd_StopDownload_f
    \/ SetRate \/ SV_Map \/ Cmd_New_f
    \/ Ask \/ Receive

Spec == Init /\ [][Next]_vars

-----------------------------------------------------------------------------
(* What a client closes as whole is the file it asked for, from the first  *)
(* block to the last, whatever it got before and whether it stopped        *)
(* (sv_user.c 1137-1164).                                                  *)
FilesAreWhole == ~bad

(* The rate is the one for downloads exactly while a file is open, however *)
(* the file came to be closed: everything is slow, or too fast, otherwise. *)
RateFits == rate = RateOf(server)

(* A client that was getting files when the level changed, and ignored it, *)
(* is told again when it has them, also if some of them were refused: but  *)
(* not when the last was refused or the client stopped it, after which the *)
(* code tells it nothing (sv_user.c 1017-1028, 1536, 1639).                 *)
ToldToReconnect ==
    \/ client.current \/ cut
    \/ client.gets # None \/ toClient # <<>> \/ toServer # <<>>
=============================================================================
