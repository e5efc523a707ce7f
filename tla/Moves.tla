------------------------------- MODULE Moves -------------------------------
(***************************************************************************)
(* The moves of a player (sv_user.c): every packet carries the last three  *)
(* commands of the client, so that those of lost packets can be run from   *)
(* the next that arrives.  A command takes time, which the client says     *)
(* itself and the server checks, and long ones are run in pieces.          *)
(*                                                                         *)
(* Command n is the one that packet n brings first; the channel drops what *)
(* has been overtaken.                                                     *)
(*                                                                         *)
(* Where a command takes the player (pmove.c) is below, a state of its own:*)
(* player, with InitPlayer and NextPlayer.                                 *)
(***************************************************************************)
EXTENDS Integers, SequencesExt

CONSTANTS
    Length,             \* how long a command may take, in ms
    Impulse,            \* commands with an impulse
    TooLong,            \* 50
    ManyLost,           \* 20
    Cap,                \* of the time a player saves, 500
    MaxSent,            \* bound: packets
    MaxTime,            \* bound: ms of realtime
    Land,               \* the maps, of columns; see below
    Tall, Step,         \* the height of a player, and of a stair
    Frame,              \* the parts of a frame
    Rising,             \* who is faster than this upwards is not on the ground
    Jump, WaterTime,    \* how fast a jump is; how long one out of water takes
    MaxSpeed, AirSpeed, Accelerate,
    Command,            \* the commands a player gives
    Heights             \* bound: where it is

VARIABLES
    sent,       \* the client's commands: how long each takes
    incoming,   \* netchan.incoming_sequence
    spawned, paused,
    lastcmd,    \* the command that fills in for lost ones, or 0: none, of no length
    realtime, last_check, msecs,
    runs,       \* history: commands run, in order; -n where n fills in for a lost one
    counted,    \* history: how many should have run
    impulses,   \* history: the commands whose impulses the progs were given
    moved,      \* history: ms of the commands whose time was checked
    player      \* the player as pmove_t and its edict have it

timing == <<realtime, last_check, msecs>>
history == <<runs, counted, impulses, moved>>
vars == <<sent, incoming, spawned, paused, lastcmd, timing, history>>

Least(a, b) == IF a < b THEN a ELSE b

Init ==
    /\ sent = <<>> /\ incoming = 0
    /\ spawned = FALSE /\ paused = FALSE
    /\ lastcmd = 0
    /\ realtime = 0 /\ last_check = 0 /\ msecs = 0
    /\ runs = <<>> /\ counted = 0 /\ impulses = <<>> /\ moved = 0

-----------------------------------------------------------------------------
(* Mutant: what is left of the time saved is kept. *)
CheckedBut(s, msec) ==
    LET passed == s.realtime - s.last_check
        over == passed > 0 /\ msec > passed + s.msecs
        run == IF over THEN passed + s.msecs ELSE msec
    IN [s EXCEPT !.last_check = s.realtime, !.run = run,
                 !.msecs = IF passed = 0 \/ over THEN @ ELSE Least(@ + passed - run, Cap)]

(* SV_RunCmd: a command may take the time that has passed since the last,  *)
(* and what is saved of earlier ones; it is not checked when none has.     *)
Checked(s, msec) ==
    LET passed == s.realtime - s.last_check
        run == IF passed > 0 THEN Least(msec, passed + s.msecs) ELSE msec
    IN [s EXCEPT !.last_check = s.realtime, !.run = run,
                 !.msecs = IF passed = 0 THEN @ ELSE Least(@ + passed - run, Cap)]

(* Mutant: the second half too. *)
PieceBoth(i) == TRUE

(* Which of the two halves of a long command has its impulse. *)
PieceWithImpulse(i) == i = 1

(* The pieces a command is run in: whether each has the impulse. *)
Pieces[msec \in Nat] ==
    IF msec <= TooLong THEN <<TRUE>>
    ELSE LET half == Pieces[msec \div 2]
         IN FlattenSeq([i \in 1..2 |-> [j \in DOMAIN half |->
                                           half[j] /\ PieceWithImpulse(i)]])

LengthOf(n) == IF n = 0 THEN 0 ELSE sent[n]

(* SV_RunCmd of command n, or of lastcmd, which is cut for good if it is   *)
(* too long, and keeps its impulse: only its buttons are cleared.          *)
Run(s, n, msec, fills) ==
    LET c == Checked(s, msec)
        given == SelectSeq(Pieces[c.run], LAMBDA p : p)
    IN [c EXCEPT !.runs = Append(@, IF fills THEN -n ELSE n),
                 !.moved = @ + (IF s.realtime > s.last_check THEN c.run ELSE 0),
                 !.impulses = IF n \in Impulse THEN @ \o [i \in DOMAIN given |-> n] ELSE @]

(* Mutant: one too many. *)
FillersAll(dropped) == IF dropped < ManyLost /\ dropped > 1 THEN dropped - 1 ELSE 0

(* How many of the lost commands are made up for by the last one. *)
Fillers(dropped) == IF dropped < ManyLost /\ dropped > 2 THEN dropped - 2 ELSE 0

(* SV_ExecuteClientMove *)
ExecuteClientMove(s, n, dropped) ==
    LET fill == [i \in 1..Fillers(dropped) |-> lastcmd]
        filled == FoldLeft(LAMBDA t, l : Run(t, l, t.run, TRUE), s, fill)
        own == SelectSeq([i \in 1..3 |-> n - 3 + i], LAMBDA c : n - c <= dropped)
    IN FoldLeft(LAMBDA t, c : Run(t, c, sent[c], FALSE), filled, own)

(* SV_ExecuteClientMessage of packet n, that of a move.                    *)
Receive(n) ==
    LET dropped == n - incoming - 1
        before == [realtime |-> realtime, last_check |-> last_check, msecs |-> msecs,
                   run |-> LengthOf(lastcmd), runs |-> runs, moved |-> moved, impulses |-> impulses]
    IN
    /\ n > incoming
    /\ incoming' = n
    /\ IF spawned /\ ~paused
       THEN \E s \in {ExecuteClientMove(before, n, dropped)} :
               /\ last_check' = s.last_check /\ msecs' = s.msecs
               /\ runs' = s.runs /\ moved' = s.moved /\ impulses' = s.impulses
               /\ counted' = counted + 1 + Least(dropped, IF dropped < ManyLost THEN dropped ELSE 2)
       ELSE UNCHANGED <<last_check, msecs, history>>
    /\ lastcmd' = IF spawned THEN n ELSE lastcmd
    /\ UNCHANGED <<sent, spawned, paused, realtime>>

(* The client sends a packet. *)
Send ==
    /\ Len(sent) < MaxSent      \* bound
    /\ \E msec \in Length : sent' = Append(sent, msec)
    /\ UNCHANGED <<incoming, spawned, paused, lastcmd, timing, history>>

(* Cmd_Begin_f; a level change *)
Spawn ==
    /\ spawned' = ~spawned
    /\ UNCHANGED <<sent, incoming, paused, lastcmd, timing, history>>

(* SV_TogglePause *)
Pause ==
    /\ paused' = ~paused
    /\ UNCHANGED <<sent, incoming, spawned, lastcmd, timing, history>>

Tick ==
    /\ realtime < MaxTime       \* bound
    /\ \E ms \in Length : realtime' = realtime + ms
    /\ UNCHANGED <<sent, incoming, spawned, paused, lastcmd, last_check, msecs, history>>

Next ==
    \/ \E n \in DOMAIN sent : Receive(n)
    \/ Send \/ Spawn \/ Pause \/ Tick

Spec == Init /\ [][Next]_vars

-----------------------------------------------------------------------------
(* However packets are lost and overtaken, every command is run at most    *)
(* once as itself, in the order they were given; what fills in for lost    *)
(* ones comes behind all that was run before and repeats none older than   *)
(* the last; and a player who loses some is moved as often as if none had  *)
(* been lost, unless too many were (sv_user.c 3703-3728).                  *)
Abs(n) == IF n < 0 THEN -n ELSE n
RunOnceInOrder ==
    /\ \A j \in DOMAIN runs : \A i \in 1..j - 1 :
          IF runs[j] > 0 THEN Abs(runs[i]) < runs[j] ELSE Abs(runs[i]) <= Abs(runs[j])
    /\ Len(runs) = counted

(* The progs are given an impulse once each time its command is run, in    *)
(* however many pieces; so again for each lost command that it fills in    *)
(* for, unlike a shot (sv_user.c 3441-3453, 3715-3719, 3968).              *)
ImpulsePerRun ==
    impulses = SelectSeq([i \in DOMAIN runs |-> Abs(runs[i])], LAMBDA n : n \in Impulse)

(* The commands that are checked take no more time, all together, than has *)
(* passed, however they are spread (sv_user.c 3400-3438).                  *)
NoTimeIsMade == moved + msecs <= realtime

-----------------------------------------------------------------------------
(* Where a command moves the player (pmove.c): in an upright plane of      *)
(* columns, each with a floor, a ceiling, water up to some height and the  *)
(* number of the entity it is of, 0 for the world.  A player reaches one   *)
(* column to each side.  Distances and speeds are whole numbers, a speed   *)
(* is the way of a frame, and planes are upright or level.                 *)
Sign(n) == IF n < 0 THEN -1 ELSE IF n > 0 THEN 1 ELSE 0
Whole(n, share, of) == Sign(n) * ((Abs(n) * share) \div of)
Dot(v, w) == v[1] * w[1] + v[2] * w[2]
Plus(v, w) == <<v[1] + w[1], v[2] + w[2]>>
Up == <<0, 1>>
Still == <<0, 0>>

Column(p, x) ==
    IF x \in DOMAIN p.physents THEN p.physents[x]
    ELSE [floor |-> 99, ceil |-> 99, water |-> 0, ent |-> 0]
PM_PointContents(p, x, z) ==
    LET c == Column(p, x) IN
    IF z < c.floor \/ z >= c.ceil THEN "solid" ELSE IF z < c.water THEN "water" ELSE "empty"
InTheWay(p, at) ==
    {x \in at[1] - 1..at[1] + 1 : at[2] < Column(p, x).floor \/ at[2] + Tall > Column(p, x).ceil}
PM_TestPlayerPosition(p, at) == InTheWay(p, at) = {}

(* A move goes a unit at a time, taken of them before one is in the way.   *)
OnTheWay(at, d, k) ==
    LET x == (k * Abs(d[1])) \div (Abs(d[1]) + Abs(d[2])) IN
    <<at[1] + Sign(d[1]) * x, at[2] + Sign(d[2]) * (k - x)>>
Against(from, to) == IF from[1] = to[1] THEN <<0, from[2] - to[2]>> ELSE <<from[1] - to[1], 0>>
Entity(p, at) == {Min({Column(p, x).ent : x \in InTheWay(p, at)})}
Hit(p, at, next) == [at |-> at, normal |-> Against(at, next),
                     ents |-> Entity(p, next)]
Traced(p, at, d, n, hits) ==
    IF hits = {} THEN [at |-> Plus(at, d), normal |-> Still, ents |-> {}, taken |-> n, of |-> n, startsolid |-> FALSE]
    ELSE [taken |-> Min(hits) - 1, of |-> n, startsolid |-> 0 \in hits]
         @@ IF 0 \in hits THEN [at |-> at, normal |-> Still, ents |-> Entity(p, at)]
            ELSE Hit(p, OnTheWay(at, d, Min(hits) - 1), OnTheWay(at, d, Min(hits)))
PM_PlayerTrace(p, at, d) ==
    Traced(p, at, d, Abs(d[1]) + Abs(d[2]),
           {k \in 0..Abs(d[1]) + Abs(d[2]) :
               ~PM_TestPlayerPosition(p, IF k = 0 THEN at ELSE OnTheWay(at, d, k))})
Whither(t) == t.taken = t.of /\ ~t.startsolid

PM_ClipVelocity(v, normal) == [i \in 1..2 |-> IF normal[i] = 0 THEN v[i] ELSE 0]
(* Along the first of the planes that leads into no other one, if any.     *)
Agree(planes, v, i) == \A j \in DOMAIN planes \ {i} : Dot(PM_ClipVelocity(v, planes[i]), planes[j]) >= 0
AlongPlanes(planes, v) ==
    LET good == {i \in DOMAIN planes : Agree(planes, v, i)} IN
    IF good = {} THEN Still ELSE PM_ClipVelocity(v, planes[Min(good)])
Slid(s, v) ==
    IF Dot(v, s.primal) <= 0 THEN [s EXCEPT !.p.vel = Still, !.done = TRUE]
    ELSE [s EXCEPT !.p.vel = v]
Clipped(s) == Slid(s, AlongPlanes(s.planes, s.primal))
Blocking(normal) == IF normal = Up THEN "floor" ELSE IF normal[2] = 0 THEN "step" ELSE "other"
Bumped(s, t) ==
    IF t.startsolid
    THEN [s EXCEPT !.p.vel = Still, !.primal = Still, !.blocked = {"floor", "step"}, !.done = TRUE]
    ELSE IF Whither(t) THEN [s EXCEPT !.p.at = t.at, !.done = TRUE]
    ELSE Clipped([s EXCEPT !.p.at = t.at, !.p.touch = @ \cup t.ents,
                           !.blocked = @ \cup {Blocking(t.normal)},
                           !.time = @ - (@ * t.taken) \div t.of,
                           !.planes = Append(IF t.taken > 0 THEN <<>> ELSE @, t.normal)])
Bump(s) ==
    IF s.done THEN s
    ELSE Bumped(s, PM_PlayerTrace(s.p, s.p.at, [i \in 1..2 |-> Whole(s.p.vel[i], s.time, Frame)]))
PM_SlideMove(p) ==
    FoldLeft(LAMBDA s, i : Bump(s),
             [p |-> p, primal |-> p.vel, planes |-> <<>>, time |-> Frame, blocked |-> {}, done |-> FALSE],
             <<1, 2, 3, 4>>)
(* Out of water a player keeps on. *)
Moved(s) ==
    [p |-> IF s.p.waterjump > 0 THEN [s.p EXCEPT !.vel = s.primal] ELSE s.p, blocked |-> s.blocked]

(* Up what is in the way, there, and down again, if that is farther.       *)
Farther(p, low, high) ==
    /\ high.at[2] >= p.at[2]
    /\ Abs(high.at[1] - p.at[1]) > Abs(low.p.at[1] - p.at[1])
Stepped(p, low, high, t) ==
    IF (Whither(t) \/ t.normal = Up) /\ Farther(p, low, [high EXCEPT !.at = t.at])
    THEN [low EXCEPT !.p = [high EXCEPT !.at = t.at, !.vel[2] = low.p.vel[2]]]
    ELSE [low EXCEPT !.p.touch = high.touch]
StepsDown(p, low, step, high) == Stepped(p, low, high, PM_PlayerTrace(high, high.at, <<0, -step>>))
StepsUp(p, low, step, in_air) ==
    StepsDown(p, low, step,
        Moved(PM_SlideMove([p EXCEPT !.at = PM_PlayerTrace(p, @, <<0, step>>).at, !.touch = low.p.touch,
                                     !.vel[2] = IF in_air THEN Max({@, 0}) ELSE @])).p)
(* Mutant: by a whole stair. *)
StepOverAll(taken) == Step

(* In the air only if there is ground below, and by so much less.          *)
StepOver(taken) == Step - taken
StepsOver(p, low, t) ==
    IF t.normal = Up /\ ~Whither(t) THEN StepsUp(p, low, StepOver(t.taken), TRUE) ELSE low
StepSlid(p, low, in_air) ==
    IF low.blocked = {} THEN low
    ELSE IF ~in_air THEN StepsUp(p, low, Step, FALSE)
    ELSE IF "step" \notin low.blocked THEN low
    ELSE StepsOver(p, low, PM_PlayerTrace(p, IF p.vel[2] < 0 THEN low.p.at ELSE p.at, <<0, -Step>>))
PM_StepSlideMove(p, in_air) == StepSlid(p, Moved(PM_SlideMove(p)), in_air)

Speed(p) == Max({Abs(p.vel[1]), Abs(p.vel[2])})
Slowed(p, drop) ==
    IF Speed(p) = 0 THEN p
    ELSE [p EXCEPT !.vel = [i \in 1..2 |-> Whole(@[i], Max({Speed(p) - drop, 0}), Speed(p))]]
OverDropoff(p) ==
    Whither(PM_PlayerTrace(p, Plus(p.at, <<Sign(p.vel[1]), -Step>>), <<0, -2 * Step>>))
PM_Friction(p) ==
    IF p.waterjump > 0 THEN p
    ELSE IF p.waterlevel >= 2 \/ p.type = "fly" THEN Slowed(p, 1)
    ELSE IF p.onground THEN Slowed(p, IF OverDropoff(p) THEN 2 ELSE 1)
    ELSE p
Faster(p, dir, wish) ==
    IF p.type = "dead" \/ p.waterjump > 0 THEN p
    ELSE [p EXCEPT !.vel = Plus(@, [i \in 1..2 |-> dir[i] * Max({0, Min({Accelerate, wish - Dot(@, dir)})})])]
PM_Accelerate(p, dir) == Faster(p, dir, MaxSpeed)
PM_AirAccelerate(p, dir) == Faster(p, dir, Min({MaxSpeed, AirSpeed}))

(* c is a command: the way a player faces, and if it goes there; up, or    *)
(* down; and the jump button.                                              *)
Wish(c) == c.forward * c.face
PM_WaterMove(p, c) ==
    PM_StepSlideMove(PM_Accelerate(p, IF p.type # "fly" /\ c.forward = 0 /\ c.up = 0 THEN <<0, -1>>
                                      ELSE <<Wish(c), c.up>>), FALSE)
PM_FlyMove(p, c) == PM_StepSlideMove(PM_Accelerate(p, <<Wish(c), c.up>>), FALSE)
GroundMove(p) ==
    IF p.vel[1] = 0 THEN [p |-> [p EXCEPT !.vel = Still], blocked |-> {}]
    ELSE PM_StepSlideMove(p, FALSE)
Ground(r) ==
    IF r.p.vars.pground /\ "floor" \in r.blocked THEN [r EXCEPT !.p.onground = TRUE] ELSE r
Falls(p) == [p EXCEPT !.vel[2] = @ - 1]
PM_AirMove(p, c) ==
    IF p.onground
    THEN GroundMove(IF p.vars.slidefix THEN Falls(PM_Accelerate([p EXCEPT !.vel[2] = Min({@, 0})], <<Wish(c), 0>>))
                    ELSE PM_Accelerate([p EXCEPT !.vel[2] = 0], <<Wish(c), 0>>))
    ELSE IF p.vars.airstep
    THEN Ground(PM_StepSlideMove(Falls(PM_AirAccelerate(p, <<Wish(c), 0>>)), TRUE))
    ELSE Ground(Moved(PM_SlideMove(Falls(PM_AirAccelerate(p, <<Wish(c), 0>>)))))

(* Mutant: a jump out of water goes on on land. *)
StandingInJump(p, t) ==
    IF t.normal = Up THEN [p EXCEPT !.onground = TRUE, !.touch = @ \cup t.ents]
    ELSE [p EXCEPT !.onground = FALSE, !.touch = @ \cup t.ents]

(* Who has ground a unit below stands on it, and is out of the water.      *)
Standing(p, t) ==
    IF t.normal = Up THEN [p EXCEPT !.onground = TRUE, !.waterjump = 0, !.touch = @ \cup t.ents]
    ELSE [p EXCEPT !.onground = FALSE, !.touch = @ \cup t.ents]
Stood(p) ==
    IF p.vel[2] > Rising THEN [p EXCEPT !.onground = FALSE]
    ELSE IF p.vars.pground /\ ~p.onground THEN p
    ELSE Standing(p, PM_PlayerTrace(p, p.at, <<0, -1>>))
WaterLevel(p) ==
    LET wet(up) == PM_PointContents(p, p.at[1], p.at[2] + up) = "water"
    IN IF ~wet(0) THEN 0 ELSE IF ~wet(Tall \div 2) THEN 1 ELSE IF ~wet(Tall - 1) THEN 2 ELSE 3
PM_CategorizePosition(p) == [Stood(p) EXCEPT !.waterlevel = WaterLevel(p)]

Jumped(p) ==
    [p EXCEPT !.onground = FALSE, !.held = TRUE, !.jumps = @ + 1,
              !.vel[2] = Max({IF p.vars.ktjump THEN Jump ELSE -99,
                              Jump + IF p.vars.pground THEN @ ELSE Max({@, 0})})]
PM_CheckJump(p, c) ==
    IF p.type = "fly" THEN p
    ELSE IF p.type = "dead" THEN [p EXCEPT !.held = TRUE]
    ELSE IF ~c.jump THEN [p EXCEPT !.held = FALSE]
    ELSE IF p.waterjump > 0 THEN p
    ELSE IF p.waterlevel >= 2 THEN [p EXCEPT !.onground = FALSE, !.vel[2] = 1]
    ELSE IF p.onground /\ ~p.held THEN Jumped(p) ELSE p
PM_CheckWaterJump(p, c) ==
    IF /\ p.waterlevel = 2 /\ p.type # "fly" /\ p.waterjump = 0 /\ p.vel[2] >= -Rising
       /\ PM_PointContents(p, p.at[1] + 2 * c.face, p.at[2] + Tall \div 2) = "solid"
       /\ PM_PointContents(p, p.at[1] + 2 * c.face, p.at[2] + Tall) = "empty"
    THEN [p EXCEPT !.vel = <<c.face, Jump + 1>>, !.waterjump = WaterTime, !.held = TRUE] ELSE p
WaterJumps(p) ==
    [p EXCEPT !.waterjump = IF p.vel[2] < 0 \/ p.type = "dead" THEN 0 ELSE Max({@ - 1, 0})]
(* Out of the ground some maps have the player start in.                   *)
PM_NudgePosition(p) ==
    LET free == {up \in 0..Step : PM_TestPlayerPosition(p, Plus(p.at, <<0, up>>))} IN
    IF free = {} THEN p ELSE [p EXCEPT !.at[2] = @ + Min(free)]
PM_SpectatorMove(p, c) ==
    LET q == Slowed(p, 1)
        dir == <<Wish(c), c.up>>
    IN IF p.type = "oldspectator" /\ (dir = Still \/ MaxSpeed <= Dot(q.vel, dir)) THEN q
       ELSE LET r == PM_Accelerate(q, dir) IN [r EXCEPT !.at = Plus(@, r.vel)]

Goes(p, c) ==
    IF p.waterlevel >= 2 THEN PM_WaterMove(p, c)
    ELSE IF p.type = "fly" THEN PM_FlyMove(p, c) ELSE PM_AirMove(p, c)
Landed(p) ==
    IF ~p.vars.pground /\ p.onground /\ p.vel[2] < -Jump THEN [p EXCEPT !.vel[2] = 0] ELSE p
PM_PlayerMove(p, c) ==
    IF p.type = "none" THEN PM_CategorizePosition(p)
    ELSE IF p.type \in {"spectator", "oldspectator"} THEN [PM_SpectatorMove(p, c) EXCEPT !.onground = FALSE]
    ELSE Landed(PM_CategorizePosition(
            Goes(PM_Friction(PM_CheckJump(
                WaterJumps(PM_CheckWaterJump(PM_CategorizePosition(PM_NudgePosition(p)), c)), c)), c).p))

(* SV_RunCmd.  What it bumps into is told so once for all the commands of  *)
(* a packet; of that one there is entity 1.                                *)
Told(p) ==
    IF 1 \notin p.touch \/ p.playertouch \/ p.type = "dead" THEN {p}
    ELSE {[p EXCEPT !.playertouch = TRUE, !.told = @ + 1, !.type = type] : type \in {p.type, "dead"}}
AddLinksToPmove(p) == [p EXCEPT !.physents = Land[p.land].map]
SV_RunCmd(c) ==
    player' \in {[p EXCEPT !.touch = {}, !.physents = <<>>] :
        p \in Told(PM_PlayerMove(
                 AddLinksToPmove([player EXCEPT !.held = @ \/ (c.jump /\ player.vel[2] = -Jump),
                                                !.jumps = IF c.jump THEN @ ELSE 0]), c))}
SV_PreRunCmd == player' = [player EXCEPT !.playertouch = FALSE, !.told = 0]
Dies == player.type = "normal" /\ player' = [player EXCEPT !.type = "dead"]
Respawns ==
    /\ player.type = "dead"
    /\ \E at \in Land[player.land].starts :
          player' = [player EXCEPT !.type = "normal", !.at = at, !.vel = Still, !.onground = FALSE,
                                       !.astray = FALSE]
(* A cheat is of the living, and flying of what is solid.                  *)
SV_Fly_f ==
    /\ Land[player.land].cheats
    /\ player.type \in {"normal", "fly"} \/ (player.type = "oldspectator" /\ player.astray)
    /\ player' = [player EXCEPT !.type = IF @ = "fly" THEN "normal" ELSE "fly"]
SV_Noclip_f ==
    /\ Land[player.land].cheats /\ player.type # "dead"
    /\ player' = [player EXCEPT !.type = IF @ \in {"spectator", "oldspectator"} THEN "normal" ELSE "oldspectator",
                                 !.astray = TRUE]

InitPlayer ==
    player \in UNION {{[land |-> l, vars |-> v, type |-> type, at |-> at, vel |-> Still,
                       onground |-> FALSE, held |-> FALSE, waterjump |-> 0, waterlevel |-> 0,
                       touch |-> {}, physents |-> <<>>, playertouch |-> FALSE, told |-> 0, jumps |-> 0,
                       astray |-> FALSE] :
                          at \in Land[l].starts, type \in Land[l].types, v \in Land[l].vars} : l \in DOMAIN Land}
NextPlayer ==
    \/ \E c \in Command : SV_RunCmd(c) /\ player'.at \in (DOMAIN Land[player.land].map) \X Heights    \* bound
    \/ SV_PreRunCmd \/ Dies \/ Respawns \/ SV_Fly_f \/ SV_Noclip_f

-----------------------------------------------------------------------------
(* A player is never in a wall, save where it started in one too deep; one *)
(* that is on the ground has it below, and has come out of the water; none *)
(* gets faster than by one jump from what can still be standing; and while *)
(* the button is held none jumps twice, and an entity is told once of all  *)
(* the commands of a packet (pmove.c:553-897, sv_user.c:3526-3630).        *)
Ghost == player.type \in {"spectator", "oldspectator"}
PlayerStands ==
    /\ player.astray \/ Ghost \/ player.at \in Land[player.land].starts \/ PM_TestPlayerPosition(AddLinksToPmove(player), player.at)
    /\ player.onground =>
          /\ player.waterjump = 0 /\ player.vel[2] <= Rising
          /\ ~PM_TestPlayerPosition(AddLinksToPmove(player), Plus(player.at, <<0, -1>>))
    /\ player.vel[2] <= Rising + Jump
    /\ player.jumps <= 1 /\ player.told <= 1

(* Who does not rise or swim steps no higher than a stair: one in the air  *)
(* from the ground below, and as much as it has just fallen                *)
(* (pmove.c:207-226).                                                      *)
Below(p) ==
    {Column(p, x).floor : x \in {x \in p.at[1] - 1 - MaxSpeed..p.at[1] + 1 + MaxSpeed :
                                     Column(p, x).floor <= p.at[2]}}
StairsAreLow ==
    /\ player.type = "normal" /\ player.vel[2] <= 0 /\ player.waterlevel < 2
    /\ PM_TestPlayerPosition(AddLinksToPmove(player), player.at)
    /\ player'.type = "normal" /\ player'.jumps = player.jumps /\ player'.waterjump = 0
    =>  player'.at[2] <= Max({player.at[2] + IF player.onground THEN Step ELSE 0,
                              Max(Below(AddLinksToPmove(player))) + Step + 1 - player.vel[2]})
=============================================================================
