------------------------------ MODULE Antilag ------------------------------
(***************************************************************************)
(* Where a player shoots at others (sv_user.c, world.c): not where they    *)
(* are, but where he saw them.  The server keeps the last positions of     *)
(* every player, each with the time of the message that led to it, and     *)
(* goes back to those around the time the shooter saw.                     *)
(*                                                                         *)
(* One player who is shot at.  A position is told by the time and the level *)
(* it was kept in.                                                         *)
(***************************************************************************)
EXTENDS Integers, FiniteSets, FiniteSetsExt

CONSTANTS
    MaxPositions,       \* MAX_ANTILAG_POSITIONS
    MaxLag,             \* bound: how long ago a shooter may have seen the player
    MaxTime,            \* bound: sv.time
    MaxLevels           \* bound

VARIABLES
    time,       \* sv.time
    target,     \* the player: spawned, alive and localtime
    positions,  \* antilag_positions
    next,       \* antilag_position_next
    lagged,     \* where a shooter has just been told that the player is
    past,       \* history: the positions recorded since the last reset
    levels      \* bound

vars == <<time, target, positions, next, lagged, past, levels>>

Nowhere == [how |-> "absent"]
Unset == [localtime |-> 0, level |-> 0]

Init ==
    /\ time = 1
    /\ target = [spawned |-> FALSE, alive |-> TRUE, localtime |-> 0]
    /\ positions = [i \in 0..(MaxPositions - 1) |-> Unset]
    /\ next = 0
    /\ lagged = Nowhere
    /\ past = {}
    /\ levels = 1

-----------------------------------------------------------------------------
(* The end of clc_move, and of a bot's turn in SV_RunBots: the position is *)
(* kept, if time has passed since the last.  He has moved by one.          *)
ClientMove ==
    LET last == positions[(next - 1) % MaxPositions]
        now == [localtime |-> time, level |-> levels]
    IN
    /\ target.spawned
    /\ target' = [target EXCEPT !.localtime = time]
    /\ IF next = 0 \/ last.localtime < time
       THEN /\ positions' = [positions EXCEPT ![next % MaxPositions] = now]
            /\ next' = next + 1
            /\ past' = past \union {now}
       ELSE UNCHANGED <<positions, next, past>>
    /\ lagged' = Nowhere
    /\ UNCHANGED <<time, levels>>

(* A message with no move: only localtime is set. *)
ClientMessage ==
    /\ target' = [target EXCEPT !.localtime = time]
    /\ lagged' = Nowhere
    /\ UNCHANGED <<time, positions, next, past, levels>>

(* SV_AntilagReset, from setorigin: he is teleported or comes to life.     *)
Reset ==
    /\ target.spawned
    /\ target' = [target EXCEPT !.alive = TRUE]
    /\ next' = 0 /\ past' = {} /\ lagged' = Nowhere
    /\ UNCHANGED <<time, positions, levels>>

(* Cmd_Begin_f, where the progs put the player somewhere *)
Begin ==
    /\ ~target.spawned
    /\ target' = [target EXCEPT !.spawned = TRUE, !.alive = TRUE]
    /\ next' = 0 /\ past' = {} /\ lagged' = Nowhere
    /\ UNCHANGED <<time, positions, levels>>

Die ==
    /\ target.spawned /\ target.alive
    /\ target' = [target EXCEPT !.alive = FALSE]
    /\ lagged' = Nowhere
    /\ UNCHANGED <<time, positions, next, past, levels>>

(* SV_SpawnServer: the clock starts again, the positions are still those   *)
(* of the level before.                                                    *)
SpawnServer ==
    /\ levels < MaxLevels       \* bound
    /\ levels' = levels + 1
    /\ time' = 1
    /\ target' = [target EXCEPT !.spawned = FALSE]
    /\ lagged' = Nowhere
    /\ UNCHANGED <<positions, next, past>>

Tick ==
    /\ time < MaxTime           \* bound
    /\ time' = time + 1
    /\ lagged' = Nowhere
    /\ UNCHANGED <<target, positions, next, past, levels>>

-----------------------------------------------------------------------------
(* Mutant: from the last. *)
FromLast == next - 1

(* Where the search for the one before the time seen begins: at the last   *)
(* but one, since it is followed by another.                               *)
SearchFrom == next - 2

(* SV_ExecuteClientMessage of a shooter who saw what the player did at     *)
(* target_time: the search goes down from the last but one.                *)
Shoot(target_time) ==
    LET before(j) == positions[j % MaxPositions].localtime < target_time
        oldest == next - 1 - MaxPositions
        found == {j \in 0..SearchFrom : j > oldest /\ before(j)}
        j == IF found # {} THEN Max(found) ELSE Max({-1, oldest})
    IN
    /\ target_time \in (time - MaxLag)..time
    /\ lagged' =
          IF ~target.spawned \/ ~target.alive \/ next = 0 THEN Nowhere
          ELSE IF target_time > target.localtime THEN [how |-> "extrapolated"]
          ELSE IF next = 1
               THEN [how |-> "only", at |-> positions[0], seen |-> target_time]
          ELSE IF j < 0
               THEN [how |-> "unset", seen |-> target_time]
          ELSE [how |-> IF found # {} THEN "between" ELSE "beyond",
                base |-> positions[j % MaxPositions],
                interpolate |-> positions[(j + 1) % MaxPositions],
                seen |-> target_time]
    /\ UNCHANGED <<time, target, positions, next, past, levels>>

Next ==
    \/ ClientMove \/ ClientMessage \/ Reset \/ Begin \/ Die \/ SpawnServer \/ Tick
    \/ \E t \in 0..MaxTime : Shoot(t)

Spec == Init /\ [][Next]_vars

-----------------------------------------------------------------------------
(* Between two of the player's positions, they are the last before the     *)
(* time that was seen and the next after it, of all he has had since he    *)
(* was put somewhere; and if one of the last MaxPositions but one was      *)
(* before that time, the server goes back to it (sv_user.c 3806-3837).     *)
SeenAreNeighbours ==
    LET earlier == {p \in past : "seen" \in DOMAIN lagged /\ p.localtime < lagged.seen}
        newer(p) == {q \in past : q.localtime > p.localtime}
    IN
    /\ lagged.how = "between" =>
         /\ lagged.base \in earlier
         /\ lagged.interpolate \in newer(lagged.base)
         /\ newer(lagged.base) \intersect earlier \subseteq {lagged.interpolate}
         /\ newer(lagged.base) \ newer(lagged.interpolate) = {lagged.interpolate}
    /\ lagged.how \in {"beyond", "unset"} =>
         \A p \in earlier : Cardinality(newer(p)) >= MaxPositions

(* "find the position before target time (base) and the one after that     *)
(* (interpolate)": what is used as a position is one of the player's.      *)
BaseIsAPosition == lagged.how # "unset"
=============================================================================
