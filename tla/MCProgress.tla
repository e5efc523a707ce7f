----------------------------- MODULE MCProgress -----------------------------
(***************************************************************************)
(* What the server's frames and the client's bring to an end, each on an   *)
(* instance of its own; part says which: the slots of clients that are     *)
(* gone and pauses nobody is left to end (Clients), what is written to a   *)
(* channel, and logins.  A part that is not run waits in a state with      *)
(* nothing to do.                                                          *)
(***************************************************************************)
EXTENDS Clients, Sequences

CONSTANT Msg

VARIABLES part,
          incoming_sequence, incoming_acknowledged, incoming_reliable_acknowledged,
          incoming_reliable_sequence, outgoing_sequence, reliable_sequence,
          last_reliable_sequence, message, overflowed, reliable_buf, send_message,
          net, written, delivered, losses,
          accounts, num_accounts, file, guests, svtime, login_paused, requests, missed

channel == <<incoming_sequence, incoming_acknowledged, incoming_reliable_acknowledged,
             incoming_reliable_sequence, outgoing_sequence, reliable_sequence,
             last_reliable_sequence, message, overflowed, reliable_buf, send_message,
             net, written, delivered, losses>>
logins == <<accounts, num_accounts, file, guests, svtime, login_paused, requests, missed>>

(* Two clients, one of which comes back through another port of its router. *)
Remapped == {[ip |-> 1, port |-> 1, qport |-> 1], [ip |-> 1, port |-> 2, qport |-> 1],
             [ip |-> 2, port |-> 1, qport |-> 1]}
NoVip == {}
Both(x) == [e \in {"client", "server"} |-> x]

Channel == INSTANCE NetchanProgress WITH
    MaxMessage <- 1, MaxWritten <- Both(3), MaxSequence <- 24, MaxLoss <- 4
Login == INSTANCE Logins WITH
    MaxSlot <- 1, Addr <- {"ip"}, Spectator <- BOOLEAN, Name <- {"bo"},
    MaxAccounts <- 1, MaxFailures <- 2, LoginTimeout <- 2, ZombieTime <- 0, Retry <- 2,
    SvLogin <- 1, Www <- FALSE, MayPause <- TRUE, MaxTime <- 1, MaxRequests <- 0,
    MaxLeak <- 1, clients <- guests, paused <- login_paused

(* All that is to be written has arrived. *)
Arrived ==
    /\ incoming_sequence = Both(0) /\ incoming_acknowledged = Both(0)
    /\ incoming_reliable_acknowledged = Both(0) /\ incoming_reliable_sequence = Both(0)
    /\ outgoing_sequence = Both(0) /\ reliable_sequence = Both(0)
    /\ last_reliable_sequence = Both(0) /\ message = Both(<<>>)
    /\ overflowed = Both(FALSE) /\ reliable_buf = Both(<<>>) /\ send_message = FALSE
    /\ net = Both({}) /\ losses = 0
    /\ \E m \in Msg : written = Both(<<m, m, m>>) /\ delivered = Both(<<m, m, m>>)

InitEach ==
    /\ Init
    /\ \/ part = "slots" /\ Arrived /\ Login!Init
       \/ part = "channel" /\ Channel!PInit /\ Login!Init
       \/ part = "login" /\ Login!Init /\ Arrived

NextEach ==
    /\ part' = part
    /\ \/ part = "slots" /\ Next /\ UNCHANGED <<channel, logins>>
       \/ part = "channel" /\ Channel!PNext /\ UNCHANGED <<vars, logins>>
       \/ part = "login" /\ Login!Next /\ UNCHANGED <<channel, vars>>

(* The frames of the slots and of the logins, and PFairness of             *)
(* NetchanProgress.                                                        *)
FairnessOfEach ==
    /\ WF_vars(part = "slots" /\ Frame(TRUE))
    /\ WF_channel(part = "channel" /\ Channel!WriteSome)
    /\ WF_channel(part = "channel" /\ Channel!ClientFrame)
    /\ WF_channel(part = "channel" /\ Channel!ServerFrame)
    /\ WF_channel(part = "channel" /\ Channel!ClientReceives)
    /\ WF_channel(part = "channel" /\ Channel!ServerReceives)
    /\ WF_channel(part = "channel" /\ Channel!DiscardStale)
    /\ WF_logins(part = "login" /\ Login!Frame)

SpecEach == InitEach /\ [][NextEach]_<<part, vars, channel, logins>> /\ FairnessOfEach

(* All that is written to a channel arrives while it is not closed         *)
(* (net_chan.c), and no login stays half done (sv_login.c, central.c).     *)
EverythingArrives == Channel!EverythingArrives
LoginsEnd == Login!LoginsEnd
=============================================================================
