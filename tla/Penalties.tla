------------------------------ MODULE Penalties ------------------------------
(***************************************************************************)
(* Being muted (cl->lockedtill): by an operator, or by the protection from *)
(* floods of chat; cuffs work the same way.  A penalty goes with its       *)
(* client's real address: it is kept in penfilters when the client leaves   *)
(* and given back when it says "new" (sv_main.c, sv_ccmds.c, sv_user.c).    *)
(*                                                                         *)
(* The clients of this model come from different addresses.                *)
(***************************************************************************)
EXTENDS Integers, FiniteSets, FiniteSetsExt, SequencesExt

CONSTANTS
    MaxSlot,        \* MAX_CLIENTS
    Ip,             \* addresses; 0, that of a client who never told its own, is none
    Length,         \* for how long one is muted
    Speaker,        \* bound: slots whose clients speak
    MaxKept,        \* MAX_PENFILTERS, 512: how many penfilters holds
    MaxFilters,     \* MAX_IPFILTERS, 1024: how many are saved
    MaxTime,        \* bound on realtime
    Ring,           \* how many times whensaid holds: 10
    fp_messages,    \* after so many messages
    fp_persecond,   \* in less than this time
    fp_secondsdead  \* silence for this long

VARIABLES
    penfilters,     \* penfilters
    clients,        \* svs.clients
    realtime,       \* realtime
    paused,         \* sv.paused
    due,            \* history: until when each address is to be muted
    beyond,         \* history: whether one was written behind the array
    said            \* history: when each client spoke while unpaused

vars == <<penfilters, clients, realtime, paused, due, beyond, said>>

Slot == 1..MaxSlot
Free == [state |-> "free", ip |-> 0, realip |-> 0, lockedtill |-> 0,
         whensaid |-> [k \in 0..(Ring - 1) |-> 0], whensaidhead |-> 0]

Init ==
    /\ penfilters = <<>> /\ clients = [c \in Slot |-> Free]
    /\ realtime = 1 /\ paused = FALSE
    /\ due = [ip \in Ip |-> 0] /\ beyond = FALSE /\ said = [c \in Slot |-> <<>>]

Known(c) == clients[c].realip # 0
Here(c) == clients[c].state \in {"connected", "spawned"}
Filters(ip) == {i \in DOMAIN penfilters : penfilters[i].ip = ip}

(* SV_SavePenaltyFilter, which an earlier one of the address or a full     *)
(* list prevents.  Full is more than the array holds: what is written      *)
(* behind it is read as something else, or takes the length with it.       *)
MayBeSaved(c) ==
    /\ clients[c].lockedtill >= realtime
    /\ Filters(clients[c].realip) = {}
    /\ Len(penfilters) # MaxFilters
Saved(c) ==
    LET f == [ip |-> clients[c].realip, time |-> clients[c].lockedtill]
    IN IF ~MayBeSaved(c) THEN {penfilters}
       ELSE IF Len(penfilters) < MaxKept THEN {Append(penfilters, f)}
       ELSE {Append(penfilters, g) : g \in {f} \cup [ip : Ip, time : {0}]}
            \cup {SubSeq(penfilters, 1, n) : n \in 0..Len(penfilters)}

(* Mutant: the filter is left in the list. *)
RestoredKept(ip) ==
    IF Filters(ip) = {} THEN [time |-> 0, left |-> penfilters]
    ELSE [time |-> penfilters[Min(Filters(ip))].time, left |-> penfilters]
(* SV_RestorePenaltyFilter, with SV_RemoveIPFilter. *)
Restored(ip) ==
    IF Filters(ip) = {} THEN [time |-> 0, left |-> penfilters]
    ELSE LET i == Min(Filters(ip))
         IN [time |-> penfilters[i].time, left |-> RemoveAt(penfilters, i)]

(* SVC_DirectConnect *)
Connect(c, ip) ==
    /\ clients[c].state = "free"
    /\ \A d \in Slot : clients[d].state = "free" \/ clients[d].ip # ip
    /\ clients' = [clients EXCEPT ![c] = [Free EXCEPT !.state = "preconnected", !.ip = ip]]
    /\ said' = [said EXCEPT ![c] = <<>>]
    /\ UNCHANGED <<penfilters, realtime, paused, due, beyond>>

(* SVC_IP *)
TellIp(c) ==
    /\ clients[c].state = "preconnected" /\ ~Known(c)
    /\ clients' = [clients EXCEPT ![c].realip = clients[c].ip]
    /\ UNCHANGED <<penfilters, realtime, paused, due, beyond, said>>

(* Cmd_New_f, which a client without a real address gets through when it   *)
(* has waited long enough.  Each "new" gives back what was kept, and what  *)
(* the client was muted for ends, if it was in the game.                   *)
New(c) ==
    /\ clients[c].state \in {"preconnected", "connected"}
    /\ clients' = [clients EXCEPT ![c].state = "connected",
                                  ![c].lockedtill = Restored(clients[c].realip).time]
    /\ penfilters' = Restored(clients[c].realip).left
    /\ due' = IF clients[c].state = "connected" /\ Known(c)
              THEN [due EXCEPT ![clients[c].realip] = 0] ELSE due
    /\ UNCHANGED <<realtime, paused, beyond, said>>

Begin(c) ==
    /\ clients[c].state = "connected"
    /\ clients' = [clients EXCEPT ![c].state = "spawned"]
    /\ UNCHANGED <<penfilters, realtime, paused, due, beyond, said>>

(* SV_DropClient *)
Drop(c) ==
    /\ clients[c].state \in {"preconnected", "connected", "spawned"}
    /\ penfilters' \in Saved(c)
    /\ beyond' = (beyond \/ (MayBeSaved(c) /\ Len(penfilters) >= MaxKept))
    /\ clients' = [clients EXCEPT ![c].state = "zombie"]
    /\ due' = IF Known(c) /\ Len(penfilters) = MaxFilters /\ Filters(clients[c].realip) = {}
              THEN [due EXCEPT ![clients[c].realip] = 0] ELSE due
    /\ UNCHANGED <<realtime, paused, said>>

(* SV_Mute_f, for a client that has said "new"; 0 ends it. *)
Mute(c, t) ==
    /\ Here(c)
    /\ clients' = [clients EXCEPT ![c].lockedtill = realtime + t]
    /\ due' = IF Known(c) THEN [due EXCEPT ![clients[c].realip] = realtime + t] ELSE due
    /\ UNCHANGED <<penfilters, realtime, paused, beyond, said>>

(* SV_RemovePenalty_f *)
RemovePenalty(i) ==
    /\ penfilters' = RemoveAt(penfilters, i)
    /\ due' = [ip \in Ip |-> IF ip = penfilters[i].ip THEN 0 ELSE due[ip]]
    /\ UNCHANGED <<clients, realtime, paused, beyond, said>>

(* Mutant: the message before is compared with. *)
OldestSaidNext(cl) == cl.whensaid[(cl.whensaidhead + Ring - fp_messages) % Ring]
(* When the client said the message fp_messages back. *)
OldestSaid(cl) == cl.whensaid[(cl.whensaidhead + Ring - fp_messages + 1) % Ring]

(* SV_Say, which the mod does not handle. *)
Say(c) ==
    LET cl    == clients[c]
        flood == ~paused /\ OldestSaid(cl) # 0
                         /\ realtime - OldestSaid(cl) < fp_persecond
        head  == (cl.whensaidhead + 1) % Ring
    IN /\ Here(c)
       /\ paused \/ realtime >= cl.lockedtill
       /\ clients' = [clients EXCEPT ![c] =
             IF flood THEN [cl EXCEPT !.lockedtill = realtime + fp_secondsdead]
             ELSE [cl EXCEPT !.whensaidhead = head, !.whensaid[head] = realtime]]
       /\ due' = IF flood /\ Known(c)
                 THEN [due EXCEPT ![cl.realip] = realtime + fp_secondsdead] ELSE due
       /\ said' = IF flood \/ paused THEN said
                  ELSE [said EXCEPT ![c] =
                     Append(SelectSeq(@, LAMBDA t : realtime - t < fp_persecond), realtime)]
       /\ UNCHANGED <<penfilters, realtime, paused, beyond>>

TogglePause == paused' = ~paused /\ UNCHANGED <<penfilters, clients, realtime, due, beyond, said>>

(* A level changes. *)
SpawnServer ==
    /\ clients' = [c \in Slot |-> [clients[c] EXCEPT !.state =
                                     IF @ = "spawned" THEN "connected" ELSE @]]
    /\ paused' = FALSE
    /\ UNCHANGED <<penfilters, realtime, due, beyond, said>>

(* SV_Frame with SV_CleanIPList; zombies go. *)
Frame ==
    LET now == IF paused THEN realtime ELSE realtime + 1 IN
    /\ now <= MaxTime                                            \* bound
    /\ realtime' = now
    /\ penfilters' = SelectSeq(penfilters, LAMBDA f : f.time > now \/ f.time = 0)
    /\ clients' = [c \in Slot |-> IF clients[c].state = "zombie" THEN Free ELSE clients[c]]
    /\ UNCHANGED <<paused, due, beyond, said>>

Next ==
    /\ ~beyond                     \* bound: what comes of that is not followed
    /\ \/ \E c \in Slot :
             \/ \E ip \in Ip : Connect(c, ip)
             \/ \E t \in Length : Mute(c, t)
             \/ TellIp(c) \/ New(c) \/ Begin(c) \/ Drop(c)
             \/ c \in Speaker /\ Say(c)
       \/ \E i \in DOMAIN penfilters : RemovePenalty(i)
       \/ TogglePause \/ SpawnServer \/ Frame

Spec == Init /\ [][Next]_vars

-----------------------------------------------------------------------------
Later(t) == Max({t, realtime})

(* A penalty is neither lost nor passed on by leaving and coming back: a   *)
(* client in the game that told its address is muted for as long as that    *)
(* address is to be, as long as no more are kept than the array holds,     *)
(* which the code does not see to (sv_main.c:2841).                        *)
PenaltyFollowsAddress ==
    ~beyond => \A c \in Slot : Here(c) /\ Known(c) =>
        Later(clients[c].lockedtill) = Later(due[clients[c].realip])

(* However it times its messages, a client gets at most fp_messages of     *)
(* them through in any fp_persecond seconds.                               *)
NoFlood == \A c \in Slot : Len(said[c]) <= fp_messages
=============================================================================
