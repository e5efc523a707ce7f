---------------------------- MODULE MCServices ----------------------------
(***************************************************************************)
(* What guards the server against those who want in or are in already: the *)
(* challenges of the handshake (Challenges), and, each on an instance of   *)
(* its own, the list of bans, penalties that outlast a connection, the     *)
(* protection from floods of chat, the names, the accounts of the login    *)
(* server, and what its operator works with.  part says which; its         *)
(* variables are the first of s1, s2, ..., in the order of its INSTANCE,   *)
(* and the others stay 0.                                                  *)
(***************************************************************************)
EXTENDS Challenges, Sequences

VARIABLES part, s1, s2, s3, s4, s5, s6, s7, s8, s9

others == <<s1, s2, s3, s4, s5, s6, s7, s8, s9>>

Nets == {{"a"}, {"a", "b"}, {"c"}}
Typed == {<<"", 0>>, <<"bo", 0>>, <<"bo", 1>>}

Ban == INSTANCE Bans WITH
    Host <- {"a"}, Net <- Nets, Duration <- {0, 2}, MaxFilters <- 2,
    RconLimit <- 2, MaxCommands <- 2, MaxTime <- 3,
    list <- s1, cbuf <- s2, clock <- s3, lpackets <- s4
Penalty == INSTANCE Penalties WITH
    MaxSlot <- 2, Ip <- {1, 2}, Length <- {0, 2}, Speaker <- {}, MaxKept <- 1, MaxFilters <- 2,
    MaxTime <- 4, Ring <- 3, fp_messages <- 2, fp_persecond <- 2, fp_secondsdead <- 1,
    penfilters <- s1, clients <- s2, realtime <- s3, paused <- s4, due <- s5, beyond <- s6, said <- s7
Flood == INSTANCE Penalties WITH
    MaxSlot <- 1, Ip <- {1}, Length <- {1}, Speaker <- {1}, MaxKept <- 1, MaxFilters <- 2,
    MaxTime <- 5, Ring <- 3, fp_messages <- 2, fp_persecond <- 2, fp_secondsdead <- 1,
    penfilters <- s1, clients <- s2, realtime <- s3, paused <- s4, due <- s5, beyond <- s6, said <- s7
Info == INSTANCE Userinfo WITH
    MaxSlot <- 3, Typed <- Typed, Changer <- {1}, Default <- "bo", NameTime <- 0,
    NameLimit <- 0, SpamTime <- 0, SpamLimit <- 0, MaxTime <- 2,
    clients <- s1, realtime <- s2, curtime <- s3, paused <- s4
Central == INSTANCE Logins WITH
    MaxSlot <- 1, Addr <- {"ip"}, Spectator <- {FALSE}, Name <- {"bo"},
    MaxAccounts <- 1, MaxFailures <- 0, LoginTimeout <- 0, ZombieTime <- 0, Retry <- 1,
    SvLogin <- 2, Www <- TRUE, MayPause <- FALSE, MaxTime <- 3, MaxRequests <- 2,
    MaxLeak <- 0,
    accounts <- s1, num_accounts <- s2, file <- s3, clients <- s4, svtime <- s5,
    paused <- s6, requests <- s7, missed <- s8

(* What the server's operator works with; hosts and nets of two numbers. *)
VipNets == {<<1, 0>>, <<1, 2>>, <<0, 2>>, <<255, 255>>}
OperatorSteps == [printing |-> 9, logs |-> 10, frags |-> 14, vips |-> 6, maps |-> 5,
                  uploads |-> 16, demos |-> 6]
Operate == INSTANCE Operator WITH
    Parts <- {"printing", "logs", "frags", "vips", "maps", "uploads", "demos"},
    OutputSize <- 3, MaxMessages <- 2, MaxLogs <- 3, MaxLogSize <- 1, LogSize <- 3,
    HighWater <- 1, Net <- VipNets, Host <- {<<1, 2>>, <<1, 3>>, <<2, 2>>}, MaxNets <- 3,
    Map <- {"dm2", "dm4"}, MaxMaps <- 4, Upload <- {1, 3}, Snap <- <<"00", "01">>,
    MaxUpload <- 2, Demo <- {1, 2, 3}, LastDemos <- 3, MaxSteps <- OperatorSteps,
    part <- s1, printing <- s2, logs <- s3, frags <- s4, vips <- s5, maps <- s6,
    uploads <- s7, demos <- s8, steps <- s9

After4 == <<s5, s6, s7, s8, s9>>
After7 == <<s8, s9>>
Unused7 == s8 = 0 /\ s9 = 0
Unused4 == s5 = 0 /\ s6 = 0 /\ s7 = 0 /\ Unused7
Unused == s1 = 0 /\ s2 = 0 /\ s3 = 0 /\ s4 = 0 /\ Unused4

InitEach ==
    /\ Init
    /\ \/ part = "challenge" /\ Unused
       \/ part = "ban" /\ Ban!Init /\ Unused4
       \/ part = "penalty" /\ Penalty!Init /\ Unused7
       \/ part = "flood" /\ Flood!Init /\ Unused7
       \/ part = "info" /\ Info!Init /\ Unused4
       \/ part = "central" /\ Central!Init /\ s9 = 0
       \/ part = "operator" /\ Operate!Init

NextEach ==
    /\ part' = part
    /\ \/ part = "challenge" /\ Next /\ UNCHANGED others
       \/ /\ UNCHANGED vars
          /\ \/ part = "ban" /\ Ban!Next /\ UNCHANGED After4
             \/ part = "penalty" /\ Penalty!Next /\ UNCHANGED After7
             \/ part = "flood" /\ Flood!Next /\ UNCHANGED After7
             \/ part = "info" /\ Info!Next /\ UNCHANGED After4
             \/ part = "central" /\ Central!Next /\ UNCHANGED s9
             \/ part = "operator" /\ Operate!Next

SpecEach == InitEach /\ [][NextEach]_<<part, vars, others>>

(* A ban keeps to its net and outlasts restarts, a penalty to its address; *)
(* nobody floods the others (sv_main.c, sv_user.c).                        *)
BansAndPenaltiesLast ==
    /\ part = "ban" => Ban!EachNetItsFilter /\ Ban!BansOutlastRestarts
    /\ part = "penalty" => Penalty!PenaltyFollowsAddress
    /\ part = "flood" => Flood!NoFlood
(* What is printed, logged, listed and kept for operators is all of it, in *)
(* order.                                                                  *)
KeptForOperators ==
    part = "operator" =>
        /\ Operate!PrintedForWhoAsked /\ Operate!LogsAreWhole /\ Operate!EachBlockOnce
        /\ Operate!VipsAreKept /\ Operate!EveryMapListed /\ Operate!UploadsAreWhole
        /\ Operate!TextsHaveDemos /\ Operate!DotsCountBack
(* No client takes the name of one in the game, nor what the login server  *)
(* answered another, unless the clock has gone back or stood (sv_main.c    *)
(* 3612, central.c 157, 201).                                              *)
NothingOfAnother ==
    [][/\ part = "info" => Info!NewNameIsUnused
       /\ part = "central" => Central!ChangesWhoAsked]_<<part, vars, others>>
=============================================================================
