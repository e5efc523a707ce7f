----------------------------- MODULE Challenges -----------------------------
(***************************************************************************)
(* The challenges a server hands out (sv_main.c): who wants to connect asks *)
(* for one first and has to know it.  There is one per address, in a table  *)
(* of MAX_CHALLENGES; a new address takes the place of the oldest, by a     *)
(* clock in whole seconds that stops while the game is paused.              *)
(***************************************************************************)
EXTENDS Integers, FiniteSets, FiniteSetsExt

CONSTANTS
    Addr,           \* base addresses
    MaxChallenges,  \* MAX_CHALLENGES
    MaxTime         \* bound on realtime, in seconds

VARIABLES
    challenges,     \* svs.challenges: an address and when its challenge was made
    realtime,       \* realtime, in whole seconds
    told,           \* history: when the challenge an address knows was made
    asked           \* history: when each address asked last

vars == <<challenges, realtime, told, asked>>

Place == 1..MaxChallenges
NoAddr == "none"

Init ==
    /\ challenges = [i \in Place |-> [adr |-> NoAddr, time |-> 0]]
    /\ realtime = 1
    /\ told = [a \in Addr |-> 0] /\ asked = [a \in Addr |-> 0]

Of(a) == {i \in Place : challenges[i].adr = a}

(* Mutant: the newest goes. *)
OldestIsNewest ==
    Min({i \in Place : \A j \in Place : challenges[i].time >= challenges[j].time})
(* The first of those that are oldest. *)
Oldest ==
    Min({i \in Place : \A j \in Place : challenges[i].time <= challenges[j].time})

(* SVC_GetChallenge: who has a challenge is told it again. *)
GetChallenge(a) ==
    /\ challenges' = IF Of(a) # {} THEN challenges
                     ELSE [challenges EXCEPT ![Oldest] = [adr |-> a, time |-> realtime]]
    /\ told' = [told EXCEPT ![a] = IF Of(a) = {} THEN realtime ELSE @]
    /\ asked' = [asked EXCEPT ![a] = realtime]
    /\ UNCHANGED realtime

(* CheckChallange, of who brings the challenge it was told last: each is   *)
(* different from those before it.                                         *)
CheckChallange(a) == told[a] # 0 /\ Of(a) # {}

(* SV_Frame *)
Frame ==
    /\ realtime < MaxTime                                        \* bound
    /\ realtime' = realtime + 1
    /\ UNCHANGED <<challenges, told, asked>>

Next == (\E a \in Addr : GetChallenge(a)) \/ Frame

Spec == Init /\ [][Next]_vars

-----------------------------------------------------------------------------
(* A challenge is good until MAX_CHALLENGES other addresses have asked for *)
(* one, in the same second or later: a crowd of fewer cannot keep a client *)
(* from connecting.                                                        *)
GoodUntilCrowdedOut ==
    \A a \in Addr : told[a] # 0 =>
       \/ CheckChallange(a)
       \/ Cardinality({b \in Addr \ {a} : asked[b] >= told[a]}) >= MaxChallenges
=============================================================================
