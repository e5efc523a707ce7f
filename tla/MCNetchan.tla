----------------------------- MODULE MCNetchan -----------------------------
(***************************************************************************)
(* Netchan on a small instance: every loss, repetition and reordering of   *)
(* the first packets of a connection; the commands, shots and voice of a   *)
(* player that such packets carry; where the commands take it; and the     *)
(* edicts around it; each on an instance of its own.  part says which; its *)
(* variables are the first of s1, s2, ..., in the order of its INSTANCE    *)
(* (for player s13), and the others stay 0.                                *)
(***************************************************************************)
EXTENDS Netchan

VARIABLES part, s1, s2, s3, s4, s5, s6, s7, s8, s9, s10, s11, s12, s13

others == <<s1, s2, s3, s4, s5, s6, s7, s8, s9, s10, s11, s12, s13>>

(* Both directions carry messages, the server's enough to come out of order. *)
BothWrite == [e \in Side |-> IF e = "server" THEN 2 ELSE 1]

(* Stairs up to an entity that can be touched, and a pit, where one starts *)
(* in the air; a pool with a ledge to get out at, where one starts in the  *)
(* floor; and a room for those who do not walk, or not always.             *)
Columns(floor, ceil, water, ent) == [floor |-> floor, ceil |-> ceil, water |-> water, ent |-> ent]
Movevars(on) == [pground |-> on, slidefix |-> on, airstep |-> on, ktjump |-> on]
Room == Columns(0, 13, 0, 0)
Stair == Columns(2, 13, 0, 0)
Pit == Columns(-3, 13, 0, 0)
Pool == Columns(0, 12, 5, 0)
Ledge == Columns(5, 10, 0, 0)
Lands ==
    [stairs |-> [map |-> <<Room, Room, Room, Stair, Stair, Columns(5, 13, 0, 1), Columns(5, 13, 0, 1),
                           Pit, Pit, Pit, Columns(1, 13, 0, 0), Columns(1, 13, 0, 0)>>,
                 starts |-> {<<2, 0>>, <<9, -1>>}, types |-> {"normal"}, cheats |-> FALSE,
                 vars |-> {Movevars(FALSE), Movevars(TRUE),
                           [Movevars(FALSE) EXCEPT !.slidefix = TRUE, !.airstep = TRUE]}],
     pool |-> [map |-> <<Pool, Pool, Pool, Pool, Pool, Columns(5, 12, 0, 0), Ledge, Ledge>>,
               starts |-> {<<2, -1>>, <<4, -4>>}, types |-> {"normal", "fly"}, cheats |-> FALSE,
               vars |-> {Movevars(FALSE), Movevars(TRUE)}],
     out |-> [map |-> <<Room, Room, Room, Room>>, starts |-> {<<2, 0>>},
              types |-> {"spectator", "oldspectator", "none"}, cheats |-> TRUE, vars |-> {Movevars(FALSE)}]]
Pressed(face, forward, up, jump) == [face |-> face, forward |-> forward, up |-> up, jump |-> jump]
Commands ==
    {Pressed(face, 1, 0, jump) : face \in {-1, 1}, jump \in BOOLEAN}
        \cup {Pressed(1, 0, up, FALSE) : up \in -1..1}

Move == INSTANCE Moves WITH
    Length <- {1, 5}, Impulse <- {1, 2}, TooLong <- 2, ManyLost <- 4, Cap <- 3,
    MaxSent <- 5, MaxTime <- 4,
    Land <- Lands, Tall <- 4, Step <- 2, Frame <- 12, Rising <- 2, Jump <- 3, WaterTime <- 3,
    MaxSpeed <- 2, AirSpeed <- 1, Accelerate <- 1, Command <- Commands, Heights <- -6..14,
    sent <- s1, incoming <- s2, spawned <- s3, paused <- s4, lastcmd <- s5, realtime <- s6,
    last_check <- s7, msecs <- s8, runs <- s9, counted <- s10, impulses <- s11, moved <- s12,
    player <- s13

Lag == INSTANCE Antilag WITH
    MaxPositions <- 3, MaxLag <- 4, MaxTime <- 5, MaxLevels <- 2,
    time <- s1, target <- s2, positions <- s3, next <- s4, lagged <- s5, past <- s6,
    levels <- s7

(* Two clients whose slots share a bit of who is to hear *)
Voices == INSTANCE Voice WITH
    Client <- {0, 4}, Team <- {"red"}, Spectator <- {FALSE}, Target <- {"all"},
    Mutable <- {0}, RingSize <- 2, MaxSaid <- 4, MaxChanges <- 4,
    voice <- s1, clients <- s2, heard <- s3, amiss <- s4, overheard <- s5, changes <- s6

(* A door under an item and two monsters, and under two monsters whose     *)
(* numbers come before its own                                             *)
Made(k, a) == [kind |-> k, at |-> a]
Edict == INSTANCE Entities WITH
    MaxEdicts <- 4, Top <- 2, AreaDepth <- 2, Young <- 2, MaxTime <- 2, MaxEvents <- 2,
    Level <- {<<Made("door", 0), Made("item", 1), Made("monster", 1), Made("monster", 2)>>,
              <<Made("monster", 2), Made("monster", 1), Made("door", 0)>>},
    edict <- s1, time <- s2, doing <- s3, mistaken <- s4, stepped <- s5, events <- s6

-----------------------------------------------------------------------------
After7 == <<s8, s9, s10, s11, s12, s13>>
After6 == <<s7, After7>>
Unused7 == s8 = 0 /\ s9 = 0 /\ s10 = 0 /\ s11 = 0 /\ s12 = 0 /\ s13 = 0
Unused6 == s7 = 0 /\ Unused7
First12 == <<s1, s2, s3, s4, s5, s6, s7, s8, s9, s10, s11, s12>>
UnusedFirst12 ==
    /\ s1 = 0 /\ s2 = 0 /\ s3 = 0 /\ s4 = 0 /\ s5 = 0 /\ s6 = 0
    /\ s7 = 0 /\ s8 = 0 /\ s9 = 0 /\ s10 = 0 /\ s11 = 0 /\ s12 = 0
Unused == UnusedFirst12 /\ s13 = 0

InitEach ==
    /\ Init
    /\ \/ part = "channel" /\ Unused
       \/ part = "moves" /\ Move!Init /\ s13 = 0
       \/ part = "player" /\ UnusedFirst12 /\ Move!InitPlayer
       \/ part = "antilag" /\ Lag!Init /\ Unused7
       \/ part = "voice" /\ Voices!Init /\ Unused6
       \/ part = "entities" /\ Edict!Init /\ Unused6

NextEach ==
    /\ part' = part
    /\ \/ part = "channel" /\ Next /\ UNCHANGED others
       \/ /\ UNCHANGED vars
          /\ \/ part = "moves" /\ Move!Next /\ UNCHANGED s13
             \/ part = "player" /\ UNCHANGED First12 /\ Move!NextPlayer
             \/ part = "antilag" /\ Lag!Next /\ UNCHANGED After7
             \/ part = "voice" /\ Voices!Next /\ UNCHANGED After6
             \/ part = "entities" /\ Edict!Next /\ UNCHANGED After6

SpecEach == InitEach /\ [][NextEach]_<<part, vars, others>>

(* A client's commands are run once, in order, and give it no more time    *)
(* than has passed, whatever packets are lost (sv_user.c 3802-3966); and   *)
(* they leave it where it can be (pmove.c 553-897).                        *)
RunOnceInOrder ==
    /\ part = "moves" => Move!RunOnceInOrder /\ Move!ImpulsePerRun /\ Move!NoTimeIsMade
    /\ part = "player" => Move!PlayerStands

(* A shot meets targets where they were between two positions they had     *)
(* (sv_user.c 3809-3860), and what a client says is heard in order by the  *)
(* others (sv_user.c 2774-2806, sv_send.c).                                *)
SeenAndHeard ==
    /\ part = "antilag" => Lag!SeenAreNeighbours
    /\ part = "voice" => Voices!HeardInOrder

(* Whoever asks for what is near an edict is given all of it (world.c),    *)
(* and no step takes an edict for another that has its number (pr_edict.c). *)
EntitiesAreFound == part = "entities" => Edict!AreasFindAll /\ Edict!NoneMistaken

(* SV_Push moves a door with all that is on it, or nothing at all          *)
(* (sv_phys.c 429-552), and a player steps no higher than a stair          *)
(* (pmove.c 207-226).                                                      *)
PushedAllOrNothing ==
    [][/\ part = "entities" => Edict!PushedAllOrNothing
       /\ part = "player" => Move!StairsAreLow]_<<part, vars, others>>
=============================================================================
