------------------------------ MODULE MCClients ------------------------------
(***************************************************************************)
(* Small instances of Clients and, side by side with it, of the accounts   *)
(* they log in with (Logins); part says which goes on, and the other stays *)
(* as it began.                                                            *)
(***************************************************************************)
EXTENDS Clients

CONSTANT Parts      \* which of the two a run has: "slots", "login"

VARIABLES part, accounts, num_accounts, file, guests, svtime, login_paused, requests, missed

logins == <<accounts, num_accounts, file, guests, svtime, login_paused, requests, missed>>

TwoPeers == {[ip |-> 1, port |-> 1, qport |-> 1],
             [ip |-> 2, port |-> 1, qport |-> 1]}

(* Two clients behind one router, which then gives the port of the second  *)
(* to the first.                                                           *)
PassedOnPort == {[ip |-> 1, port |-> 1, qport |-> 1],
                 [ip |-> 1, port |-> 2, qport |-> 2],
                 [ip |-> 1, port |-> 2, qport |-> 1]}

NoVip == {}
OneVip == {[ip |-> 2, port |-> 1, qport |-> 1]}

(* Two slots and two accounts, one of them an address; the first wrong     *)
(* password blocks, and frames are long.                                   *)
Login == INSTANCE Logins WITH
    MaxSlot <- 2, Addr <- {"ip"}, Spectator <- {FALSE}, Name <- {"bo"},
    MaxAccounts <- 2, MaxFailures <- 0, LoginTimeout <- -1, ZombieTime <- -1, Retry <- 2,
    SvLogin <- 2, Www <- FALSE, MayPause <- FALSE, MaxTime <- 1, MaxRequests <- 0,
    MaxLeak <- 0, clients <- guests, paused <- login_paused

InitEach == Init /\ Login!Init /\ part \in Parts

NextEach ==
    /\ part' = part
    /\ \/ part = "slots" /\ Next /\ UNCHANGED logins
       \/ part = "login" /\ Login!Next /\ UNCHANGED vars

SpecEach == InitEach /\ [][NextEach]_<<part, vars, logins>>

(* The count of an account does not fall below its clients (sv_login.c).   *)
CountsItsClients == part = "login" => Login!CountsItsClients
=============================================================================
