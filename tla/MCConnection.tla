---------------------------- MODULE MCConnection ----------------------------
(***************************************************************************)
(* What runs on top of the channel of a client, each on an instance of its *)
(* own; part says which: the signon, the reliable stream with its back     *)
(* buffers, the serverinfo, and what all clients are told of a change.  A  *)
(* part that is not run waits in a state with nothing to do.               *)
(***************************************************************************)
EXTENDS Signon, ClientReliable

VARIABLES part,
          s1, s2, s3, s4, s5    \* the variables of the other two, in the order of
                                \* their INSTANCE
told == <<s1, s2, s3, s4, s5>>

(* Lists that may take two parts each. *)
TwoPartLevel == [soundlist |-> 2, modellist |-> 2, prespawn |-> 2, spawn |-> 2]

(* Cvars that the serverinfo shows, one of which only the game changes.   *)
Infos == INSTANCE Serverinfo WITH
    Mirrored <- {"airstep", "pground", "fraglimit"}, Rom <- {"pground"},
    Key <- {"airstep", "pground", "fraglimit", "pitch", "k"},
    Airstep <- "airstep", Pground <- "pground", Pitch <- "sv_pitch", PitchKey <- "pitch",
    Bounded <- [v \in {"", "0", "1", "2"} |-> IF v = "2" THEN "2" ELSE "80"],
    PitchDefault <- "80", Plain <- {}, Value <- {"", "0", "1", "2"}, Empty <- "",
    Zero <- "0", Client <- {1}, MaxChanges <- 4,
    cvars <- s1, info <- s2, reliable_datagram <- s3, clients <- s4, changes <- s5

(* Two slots, names and stats that change at any time.                     *)
Announce == INSTANCE Announcements WITH
    MaxClients <- 2, Names <- {"a", "b", "c"}, Stats <- {0, 1},
    Changing <- {"name", "stats", "frags", "lights", "pause"},
    MaxLevels <- 2, MaxChanges <- 2,
    level <- s1, clients <- s2, reliable_datagram <- s3, peer <- s4, changes <- s5

NothingTold == s1 = 0 /\ s2 = 0 /\ s3 = 0 /\ s4 = 0 /\ s5 = 0
Entered == /\ spawncount = 1 /\ state = "spawned" /\ message = <<>>
           /\ toClient = <<>> /\ toServer = <<>>
           /\ count = spawncount /\ got = Whole(spawncount)

InitEach ==
    /\ ReliableInit
    /\ \/ part = "signon" /\ Init /\ NothingTold
       \/ /\ Entered
          /\ \/ part = "stream" /\ NothingTold
             \/ part = "serverinfo" /\ Infos!Init
             \/ part = "announcements" /\ Announce!Init

NextEach ==
    /\ part' = part
    /\ \/ part = "signon" /\ Next /\ UNCHANGED <<reliable, told>>
       \/ part = "stream" /\ ReliableNext /\ UNCHANGED <<vars, told>>
       \/ /\ UNCHANGED <<vars, reliable>>
          /\ \/ part = "serverinfo" /\ Infos!Next
             \/ part = "announcements" /\ Announce!Next

(* Fairness and ReliableFairness, each in its part.                        *)
FairnessEach ==
    /\ WF_vars(part = "signon" /\ ExecuteRequest)
    /\ WF_vars(part = "signon" /\ Transmit)
    /\ WF_vars(part = "signon" /\ Receive)
    /\ WF_reliable(part = "stream" /\ Acked)
    /\ WF_reliable(part = "stream" /\ SendClientMessages(TRUE))

SpecEach ==
    /\ InitEach
    /\ [][NextEach]_<<part, vars, reliable, told>>
    /\ FairnessEach

(* A client knows the serverinfo, and one in the game the names, frags,    *)
(* light styles, the pause and the stats it is to show, as they are when   *)
(* all that was written to it has arrived, but for what its "spawn"        *)
(* cleared and two smaller cases (sv_ccmds.c, sv_user.c, sv_send.c).       *)
ChangesAreTold ==
    /\ part = "serverinfo" => Infos!ServerinfoIsKnown
    /\ part = "announcements" => Announce!AllKnown
=============================================================================
