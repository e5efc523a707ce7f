------------------------------ MODULE Builtins ------------------------------
(***************************************************************************)
(* What the game's programs keep in the server by calling it (pr_cmds.c,   *)
(* pr2_cmds.c): strings of their own, open files, lists of models and      *)
(* sounds, places in a walk over the entities, and whose turn it is to be  *)
(* looked for; how it moves their monsters (sv_move.c), and when it lets   *)
(* their entities think (sv_phys.c).  part says which of them a behaviour  *)
(* is about.                                                               *)
(***************************************************************************)
EXTENDS Integers, FiniteSetsExt, SequencesExt

CONSTANTS
    Parts,              \* of "strings", "walk", "turns", "files", "lists",
                        \* "monster", "thinks"
    Text, Progs,        \* strings; files of programs (where their strings are)
    MaxZoned,           \* MAX_PRSTR
    MaxEdicts, Matching,\* the entities that find looks for
    MaxClients,
    File, Missing,      \* files, and those that cannot be opened
    MaxFiles,           \* MAX_PR2_FILES
    Model, MaxModels, MaxStatic,
    Land,               \* maps of a monster, see Ground
    Step, Tall,         \* STEPSIZE; the height of a monster and of its enemy
    YawSpeed,           \* what a monster turns at a time, in degrees
    MinTic, MaxTic,     \* sv_mintic and sv_maxtic, in ticks of 0.05 seconds
    Far, MaxTime,       \* where a door is open; bound: ticks
    MaxCalls            \* bound

VARIABLES part, strings, walk, turns, files, lists, monster, thinks, calls

vars == <<part, strings, walk, turns, files, lists, monster, thinks, calls>>

NoString == [is |-> "null", at |-> 0]
Block(b) == [is |-> "block", at |-> b]
(* What is in the table for a string that was given back: pr_strings. *)
Mark(progs) == [is |-> "mark", at |-> progs]
Slot == 1..MaxZoned
Players == 1..MaxClients

InitStrings == [progs |-> Min(Progs), pr_newstrtbl |-> [i \in Slot |-> NoString],
                heap |-> {}, held |-> {}, badfree |-> {}]
(* The world is 0; clients have the first numbers, and always an edict. *)
InitWalk == [free |-> {}, num |-> MaxClients + 1, spawned |-> Players,
             at |-> 0, over |-> "none", stayed |-> {}, seen |-> {}]
InitTurns == [valid |-> {}, lastcheck |-> 0, waited |-> [c \in Players |-> 0]]
InitFiles == [open |-> [i \in 1..MaxFiles |-> 0], num |-> 0, held |-> {}, error |-> FALSE]
InitLists == [state |-> "loading", models |-> <<>>, entity |-> [e \in {1, 2} |-> [model |-> 0, index |-> 0]],
              statics |-> <<>>, pending |-> 0, spawncount |-> 1, last |-> 0, error |-> FALSE]

-----------------------------------------------------------------------------
(* Strings that last: the first place that is free is taken, the memory    *)
(* may be any that is.                                                     *)
FreePlaces(s) ==
    {i \in Slot : s.pr_newstrtbl[i] \in {NoString, Mark(s.progs)}}
Blocks(s) == {b.at : b \in s.heap}
PF_strzone ==
    /\ FreePlaces(strings) # {}
    /\ \E t \in Text :
       LET i == Min(FreePlaces(strings))
           b == Min(Slot \ Blocks(strings)) IN
       strings' = [strings EXCEPT !.pr_newstrtbl[i] = Block(b),
                                  !.heap = @ \cup {[at |-> b, text |-> t]},
                                  !.held = @ \cup {[at |-> i, text |-> t]}]

(* Q_free of what the table has: nothing, memory of Q_malloc, or not,      *)
(* after which anything may happen.  History: what it was, and the programs. *)
Q_free(s, entry) ==
    CASE entry = NoString -> s
      [] entry.is = "block" /\ entry.at \in Blocks(s) ->
            [s EXCEPT !.heap = {b \in @ : b.at # entry.at}]
      [] OTHER -> [s EXCEPT !.badfree = @ \cup {<<entry, s.progs>>}]

(* A program may give a string back more than once. *)
(* Mutant: not told from those that were. *)
UnzonedAgain(s, i) == [Q_free(s, s.pr_newstrtbl[i]) EXCEPT !.held = {h \in @ : h.at # i}]
Unzoned(s, i) ==
    IF s.pr_newstrtbl[i] = Mark(s.progs) THEN s
    ELSE [Q_free(s, s.pr_newstrtbl[i]) EXCEPT !.pr_newstrtbl[i] = Mark(s.progs),
                                              !.held = {h \in @ : h.at # i}]
PF_strunzone == \E i \in Slot : strings' = Unzoned(strings, i)

(* PR1_LoadProgs at the next level, with programs that hold no string yet: *)
(* the marks of those before are left in the table.                        *)
Cleared(s, i) ==
    IF s.pr_newstrtbl[i] \in {NoString, Mark(s.progs)} THEN s
    ELSE [Q_free(s, s.pr_newstrtbl[i]) EXCEPT !.pr_newstrtbl[i] = NoString]
PF_clear_strtbl(s) == FoldLeft(LAMBDA r, i : Cleared(r, i), s, [i \in Slot |-> i])
LoadProgs ==
    \E p \in Progs : strings' = [PF_clear_strtbl(strings) EXCEPT !.progs = p, !.held = {}]

PR1_GetString(s, i) ==
    {b.text : b \in {x \in s.heap : s.pr_newstrtbl[i] = Block(x.at)}}

Strings == PF_strzone \/ PF_strunzone \/ LoadProgs

-----------------------------------------------------------------------------
(* A walk over the entities, from the one returned last to the next there  *)
(* is, while the program makes and removes others in between.              *)
NextThere(w, e, Wanted) ==
    LET after == {i \in (e + 1)..(w.num - 1) : i \notin w.free /\ i \in Wanted} IN
    IF after = {} THEN 0 ELSE Min(after)
(* Mutant: the last entity left out. *)
PF_nextentBut(w, e) == NextThere([w EXCEPT !.num = @ - 1], e, 1..MaxEdicts)
PF_nextent(w, e) == NextThere(w, e, 1..MaxEdicts)
PF_Find(w, e) == NextThere(w, e, Matching)
PF2_nextclient(w, e) == NextThere(w, e, w.spawned)

Wanted(w, over) ==
    CASE over = "find" -> Matching [] over = "client" -> w.spawned [] OTHER -> 1..MaxEdicts
There(w, over) == {i \in 1..(w.num - 1) : i \notin w.free /\ i \in Wanted(w, over)}
StartWalk ==
    /\ walk.over = "none"
    /\ \E over \in {"nextent", "find", "client"} :
          walk' = [walk EXCEPT !.over = over, !.at = 0, !.stayed = There(walk, over), !.seen = {}]
Walk ==
    /\ walk.over # "none" /\ (walk.at # 0 \/ walk.seen = {})
    /\ LET n == CASE walk.over = "nextent" -> PF_nextent(walk, walk.at)
                  [] walk.over = "find" -> PF_Find(walk, walk.at)
                  [] OTHER -> PF2_nextclient(walk, walk.at) IN
       IF n = 0 THEN walk' = [walk EXCEPT !.over = "ended"]
       ELSE walk' = [walk EXCEPT !.at = n, !.seen = @ \cup {n}]
EndWalk == walk.over = "ended" /\ walk' = [walk EXCEPT !.over = "none", !.at = 0, !.seen = {}]

PF_Spawn ==
    \/ \E e \in walk.free : walk' = [walk EXCEPT !.free = @ \ {e}]
    \/ walk.num < MaxEdicts /\ walk' = [walk EXCEPT !.num = @ + 1]
PF_Remove ==
    \E e \in (MaxClients + 1)..(walk.num - 1) :
       e \notin walk.free /\ walk' = [walk EXCEPT !.free = @ \cup {e}, !.stayed = @ \ {e}]
ClientChanges ==
    \E c \in Players :
       walk' = [walk EXCEPT !.spawned = SymDiff(@, {c}),
                            !.stayed = IF walk.over = "client" THEN @ \ {c} ELSE @]

Walks == StartWalk \/ Walk \/ EndWalk \/ PF_Spawn \/ PF_Remove \/ ClientChanges

-----------------------------------------------------------------------------
(* Whom monsters look for: the next client, in turn, that is alive and may *)
(* be a target; every tenth of a second another.                           *)
(* Mutant: the turn always starts with the first. *)
PF_newcheckclientFirst(valid, check) == IF valid = {} THEN Max({check, 1}) ELSE Min(valid)
PF_newcheckclient(valid, check) ==
    LET from == IF check < 1 THEN 1 ELSE check
        after == {c \in valid : c > from}
        before == {c \in valid : c < from} IN
    IF after # {} THEN Min(after) ELSE IF before # {} THEN Min(before) ELSE from

PF2_newcheckclient(valid, check) == PF_newcheckclient(valid, check)

LookedFor(c) ==
    turns' = [turns EXCEPT !.lastcheck = c,
                           !.waited = [d \in Players |->
                               IF d = c \/ d \notin turns.valid THEN 0 ELSE turns.waited[d] + 1]]
PF_checkclient == LookedFor(PF_newcheckclient(turns.valid, turns.lastcheck))
PF2_checkclient == LookedFor(PF2_newcheckclient(turns.valid, turns.lastcheck))
TargetChanges ==
    \E c \in Players :
       turns' = [turns EXCEPT !.valid = SymDiff(@, {c}), !.waited[c] = 0]

Turns == PF_checkclient \/ PF2_checkclient \/ TargetChanges

-----------------------------------------------------------------------------
(* Files: a handle is a place in the table.                                *)
PF2_FS_OpenFile ==
    /\ files.num < MaxFiles
    /\ \E f \in File \cup Missing :
       LET i == Min({j \in 1..MaxFiles : files.open[j] = 0}) IN
       IF f \in Missing THEN UNCHANGED files
       ELSE files' = [files EXCEPT !.open[i] = f, !.num = @ + 1, !.held = @ \cup {<<i, f>>}]
(* Mutant: a handle that is closed is closed again. *)
ClosedAgain(fs, i) ==
    IF fs.num = 0 THEN fs
    ELSE [fs EXCEPT !.open[i] = 0, !.num = @ - 1, !.held = {h \in @ : h[1] # i}]
Closed(fs, i) ==
    IF fs.num = 0 \/ fs.open[i] = 0 THEN fs
    ELSE [fs EXCEPT !.open[i] = 0, !.num = @ - 1, !.held = {h \in @ : h[1] # i}]
PF2_FS_CloseFile == \E i \in 1..MaxFiles : files' = Closed(files, i)
(* The next level's programs start with none open. *)
PR2_FS_Restart ==
    LET left == IF files.num = 0 THEN files
                ELSE FoldLeft(LAMBDA fs, i : Closed(fs, i), files, [i \in 1..MaxFiles |-> i]) IN
    files' = [left EXCEPT !.error = left.num # 0, !.num = 0, !.held = {},
                          !.open = [i \in 1..MaxFiles |-> 0]]
(* Reading, writing, seeking: of the file whose handle it is. *)
PF2_FS_ReadFile(fs, i) == IF fs.num = 0 \/ fs.open[i] = 0 THEN {} ELSE {fs.open[i]}

Files == PF2_FS_OpenFile \/ PF2_FS_CloseFile \/ PR2_FS_Restart

-----------------------------------------------------------------------------
(* Models get their numbers while the level is loaded; a name that is      *)
(* there keeps the one it has.                                             *)
(* Mutant: only the last name is looked at. *)
PrecachedAnew(l, m) ==
    IF l # <<>> /\ Last(l) = m THEN l ELSE Append(l, m)
Precached(l, m) == IF Contains(l, m) THEN l ELSE Append(l, m)
PF_precache_model ==
    \E m \in Model :
       LET l == Precached(lists.models, m) IN
       lists' = IF lists.state # "loading" \/ Len(l) > MaxModels
                THEN [lists EXCEPT !.error = TRUE] ELSE [lists EXCEPT !.models = l]
PF2_precache_model == PF_precache_model

PF_setmodel ==
    \E e \in {1, 2}, m \in Model :
       LET i == SelectInSeq(lists.models, LAMBDA x : x = m) IN
       lists' = IF i = 0 THEN [lists EXCEPT !.error = TRUE]
                ELSE [lists EXCEPT !.entity[e] = [model |-> m, index |-> i]]
PF2_setmodel == PF_setmodel

(* An entity that never changes: a copy is listed, itself is freed.        *)
PF_makestatic ==
    \E e \in {1, 2} :
       /\ lists.entity[e].index # 0
       /\ lists' = [lists EXCEPT
              !.statics = IF Len(@) < MaxStatic THEN Append(@, lists.entity[e]) ELSE @,
              !.entity[e] = [model |-> 0, index |-> 0]]
PF2_makestatic == PF_makestatic

Activated == lists.state = "loading" /\ lists' = [lists EXCEPT !.state = "active"]

(* The programs ask for another level once; the command may fail, and then *)
(* they cannot ask again until an operator has changed it.                 *)
PF_changelevel ==
    /\ lists.spawncount # lists.last
    /\ lists' = [lists EXCEPT !.last = lists.spawncount, !.pending = @ + 1]
(* A level that has no map is not asked for. *)
PF2_changelevel == PF_changelevel
SV_Map ==
    /\ lists.state = "active" /\ lists.spawncount < 2
    /\ \/ lists.pending > 0 /\ lists' = [lists EXCEPT !.pending = @ - 1]
       \/ lists' = [InitLists EXCEPT !.spawncount = lists.spawncount + 1, !.last = lists.last,
                                     !.pending = IF lists.pending > 0 THEN lists.pending - 1 ELSE 0]

Lists ==
    /\ ~lists.error
    /\ \/ PF_precache_model \/ PF2_precache_model \/ PF_setmodel \/ PF2_setmodel
       \/ PF_makestatic \/ PF2_makestatic \/ Activated \/ PF2_changelevel \/ SV_Map

-----------------------------------------------------------------------------
(* A monster on a map of points, each with a floor and a ceiling: outside  *)
(* of it is a wall, and the floor of a bridge may be pulled out.  The box  *)
(* of a monster and of the enemy that stands at its goal reaches a point   *)
(* to each side.  Heights are in half steps.                               *)
Abs(n) == IF n < 0 THEN -n ELSE n
Wall == [floor |-> 99, ceil |-> 99]
Pit == -9
NoMonster == [land |-> "", moves |-> "no", at |-> <<0, 0, 0>>, linked |-> <<0, 0, 0>>,
              ideal |-> 0, yaw |-> 0, onground |-> FALSE, partial |-> FALSE,
              goal |-> <<0, 0, 0>>, hunts |-> FALSE, pulled |-> FALSE]
InitMonsters ==
    UNION {{[NoMonster EXCEPT !.land = l, !.moves = s.moves, !.at = s.at, !.linked = s.at,
                              !.goal = Land[l].goal, !.hunts = h] :
              s \in Land[l].spawns, h \in BOOLEAN} : l \in DOMAIN Land}

Point(c, dx, dy) == <<c[1] + dx, c[2] + dy>>
Under(c) == {Point(c, dx, dy) : dx, dy \in {-1, 0, 1}}
Corners(c) == {Point(c, dx, dy) : dx, dy \in {-1, 1}}
Ground(m, p) ==
    LET l == Land[m.land] IN
    IF p \notin DOMAIN l.map THEN Wall
    ELSE IF m.pulled /\ p \in l.bridge THEN [l.map[p] EXCEPT !.floor = Pit]
    ELSE l.map[p]
(* The heights that are free in a range of them.                           *)
Apart(c, z, g) == Abs(c[1] - g[1]) >= 2 \/ Abs(c[2] - g[2]) >= 2 \/ Abs(z - g[3]) >= Tall
FreeOf(m, c, heights, ground) ==
    {z \in heights : /\ \A g \in ground : g.floor <= z /\ z + Tall < g.ceil
                     /\ m.hunts => Apart(c, z, m.goal)}
Free(m, c, heights) == FreeOf(m, c, heights, {Ground(m, p) : p \in Under(c)})
Fits(m, c, z) == Free(m, c, {z}) # {}
(* A box that goes down from one height to another, and where it stops.    *)
Traced(from, to, taken) ==
    [allsolid |-> taken = to..from, startsolid |-> from \in taken,
     end |-> IF taken = {} THEN to ELSE Max(taken) + 1]
SV_Trace(m, c, from, to) == Traced(from, to, (to..from) \ Free(m, c, to..from))

Floor(m, p) == Ground(m, p).floor
(* Mutant: one corner on the ground will do. *)
SV_CheckBottomOne(m, c, z) == \E p \in Corners(c) : Floor(m, p) >= z
SV_CheckBottom(m, c, z) ==
    \/ \A p \in Corners(c) : Floor(m, p) >= z
    \/ \A p \in Corners(c) \cup {Point(c, 0, 0)} :
          Floor(m, p) > z - 2 * Step /\ Floor(m, Point(c, 0, 0)) - Floor(m, p) <= Step

Linked(m) == [m EXCEPT !.linked = m.at]
LinkedIf(m, relink) == IF relink THEN Linked(m) ELSE m
Stays(m) == [ok |-> FALSE, m |-> m]
Goes(m, relink) == [ok |-> TRUE, m |-> LinkedIf(m, relink)]

(* With an enemy one move up or down with it, then one without. *)
Beside(above) == IF above > 4 THEN -1 ELSE IF above < 4 THEN 1 ELSE 0
Swept(m, d) == {Point(m.at, x, y) : x \in {0, d[1]}, y \in {0, d[2]}}
FlownTo(m, d, relink, heights) ==
    IF heights = <<>> \/ (m.moves = "swims" /\ heights[1] >= Land[m.land].water) THEN Stays(m)
    ELSE Goes([m EXCEPT !.at = Append(Point(m.at, d[1], d[2]), heights[1])], relink)
Flown(m, d, relink) ==
    FlownTo(m, d, relink,
            SelectSeq([k \in 1..(IF m.hunts THEN 2 ELSE 1) |->
                          m.at[3] + (IF m.hunts /\ k = 1 THEN Beside(m.at[3] - m.goal[3]) ELSE 0)],
                      LAMBDA h : \A c \in Swept(m, d) : Free(m, c, {m.at[3], h}) = {m.at[3], h}))

(* Down from a step higher, or if it does not fit there, from where it is. *)
WalkedTo(m, c, relink, end) ==
    IF end = m.at[3] - Step
    THEN IF m.partial THEN Goes([m EXCEPT !.at = Append(c, m.at[3]), !.onground = FALSE], relink)
         ELSE Stays(m)
    ELSE IF SV_CheckBottom(m, c, end)
         THEN Goes([m EXCEPT !.at = Append(c, end), !.partial = FALSE], relink)
    ELSE IF m.partial THEN Goes([m EXCEPT !.at = Append(c, end)], relink) ELSE Stays(m)
WalkedDown(m, c, relink, t) ==
    IF t.startsolid THEN Stays(m) ELSE WalkedTo(m, c, relink, t.end)
WalkedBy(m, c, relink, high) ==
    WalkedDown(m, c, relink,
               IF high.startsolid /\ ~high.allsolid THEN SV_Trace(m, c, m.at[3], m.at[3] - Step) ELSE high)
Walked(m, c, relink) ==
    WalkedBy(m, c, relink, SV_Trace(m, c, m.at[3] + Step, m.at[3] - Step))
SV_movestep(m, d, relink) ==
    IF m.moves = "walks" THEN Walked(m, Point(m.at, d[1], d[2]), relink) ELSE Flown(m, d, relink)

Turn(d) == IF d >= 180 THEN d - 360 ELSE IF d <= -180 THEN d + 360 ELSE d
PF_changeyaw(m) ==
    [m EXCEPT !.yaw = (@ + Max({-YawSpeed, Min({YawSpeed, Turn(m.ideal - m.yaw)})})) % 360]

(* 215 is what SV_NewChaseDir has for 225. *)
Yaws == {45 * k : k \in 0..7}
Toward(yaw) ==
    <<CASE yaw \in {0, 45, 315} -> 1 [] yaw \in {90, 270} -> 0 [] OTHER -> -1,
      CASE yaw \in {45, 90, 135} -> 1 [] yaw \in {0, 180} -> 0 [] OTHER -> -1>>
(* A step that is taken before it has turned far enough is taken back. *)
Turning(delta) == delta > 45 /\ delta < 315
Turned(s, from) == [s EXCEPT !.m = Linked([@ EXCEPT !.at = IF Turning(s.m.yaw - s.m.ideal) THEN from ELSE @])]
SV_StepDirection(m, yaw) ==
    Turned(SV_movestep(PF_changeyaw([m EXCEPT !.ideal = yaw]), Toward(yaw), FALSE), m.at)

(* The directions that are tried, one after the other. *)
Along(d, ahead, back) == IF d > 0 THEN <<ahead>> ELSE IF d < 0 THEN <<back>> ELSE <<>>
Direct(dx, dy) ==
    IF dx = 0 \/ dy = 0 THEN <<>>
    ELSE IF dx > 0 THEN <<IF dy > 0 THEN 45 ELSE 315>> ELSE <<IF dy > 0 THEN 135 ELSE 215>>
Tries(dx, dy, olddir, turnaround, swap, upwards) ==
    SelectSeq(Direct(dx, dy) \o (IF swap \/ Abs(dy) > Abs(dx)
                                 THEN Along(dy, 90, 270) \o Along(dx, 0, 180)
                                 ELSE Along(dx, 0, 180) \o Along(dy, 90, 270)),
              LAMBDA d : d # turnaround)
        \o <<olddir>>
        \o SelectSeq([k \in 1..8 |-> IF upwards THEN 45 * (k - 1) ELSE 45 * (8 - k)],
                     LAMBDA d : d # turnaround)
        \o <<turnaround>>
Chased(r, olddir) ==
    IF r.ok THEN r.m
    ELSE [r.m EXCEPT !.ideal = olddir, !.partial = @ \/ ~SV_CheckBottom(r.m, r.m.at, r.m.at[3])]
SV_NewChaseDir(m, olddir, swap, upwards) ==
    Chased(FoldLeft(LAMBDA s, d : IF s.ok THEN s ELSE SV_StepDirection(s.m, d), Stays(m),
                    Tries(m.goal[1] - m.at[1], m.goal[2] - m.at[2], olddir, (olddir + 180) % 360,
                          swap, upwards)),
           olddir)
SV_CloseEnough(m) ==
    /\ Abs(m.goal[1] - m.at[1]) <= 3 /\ Abs(m.goal[2] - m.at[2]) <= 3
    /\ Abs(m.goal[3] - m.at[3]) <= Tall + 1

(* A monster stands when all of its corners do. *)
Stands(m) ==
    /\ m.onground /\ ~m.partial
    /\ \A p \in Corners(m.at) : m.at[3] - Floor(m, p) < 2 * Step
MayMove(m) == m.onground \/ m.moves # "walks"
PF_walkmove ==
    /\ MayMove(monster)
    /\ \E d \in {Toward(y) : y \in Yaws} \cup {<<0, 0>>} : monster' = SV_movestep(monster, d, TRUE).m
PF2_walkmove == PF_walkmove
Bumps(m, s) == \* it bumps around though it could go on
    {SV_NewChaseDir(n, 45 * (n.ideal \div 45), swap, upwards) :
        n \in {m} \cup (IF s.ok THEN {} ELSE {s.m}), swap, upwards \in BOOLEAN}
        \cup (IF s.ok THEN {s.m} ELSE {})
SV_MoveToGoal ==
    /\ MayMove(monster) /\ ~(monster.hunts /\ SV_CloseEnough(monster))
    /\ monster' \in Bumps(monster, SV_StepDirection(monster, monster.ideal))
PF2_MoveToGoal == SV_MoveToGoal
PF_droptofloor ==
    /\ monster.moves = "walks"
    /\ \E t \in {SV_Trace(monster, monster.at, monster.at[3], monster.at[3] - 28)} :
          /\ t.end > monster.at[3] - 28 /\ ~t.allsolid
          /\ monster' = Linked([monster EXCEPT !.at[3] = t.end, !.onground = TRUE])
PF2_droptofloor == PF_droptofloor
(* In the air it falls until it is on the ground, not on its enemy.        *)
SV_Physics_Step ==
    /\ ~MayMove(monster)
    /\ \E z \in {monster.at[3] - 1} :
          monster' = IF Fits(monster, monster.at, z) THEN Linked([monster EXCEPT !.at[3] = z])
                     ELSE Linked([monster EXCEPT !.onground =
                                     \E p \in Under(monster.at) : Floor(monster, p) > z])
BridgePulled == ~monster.pulled /\ monster' = [monster EXCEPT !.pulled = TRUE]
GoalMoves ==
    \E g \in Land[monster.land].goals :
       /\ monster.hunts => Apart(monster.at, monster.at[3], g)
       /\ monster' = [monster EXCEPT !.goal = g]
Monsters ==
    \/ PF2_walkmove \/ PF2_MoveToGoal \/ PF2_droptofloor
    \/ SV_Physics_Step \/ BridgePulled \/ GoalMoves

-----------------------------------------------------------------------------
(* Edicts 1, a monster, 2, a door, and 3, for missiles.  doing are those   *)
(* SV_Physics has yet to run, the first of them in a short frame if it is  *)
(* a new missile.  thinking is the one that thinks until it has nothing to *)
(* do in this frame.  A door thinks by a clock of its own, ltime, which    *)
(* stands still while it is blocked; to is where it is to be by its next   *)
(* think.  own are edicts that asked themselves for their next think.      *)
Edict == 1..3
InitThinks(nq) ==
    [nq |-> nq, time |-> MinTic, physicstime |-> MinTic, frametime |-> MaxTic, short |-> FALSE,
     free |-> {3}, nextthink |-> [e \in Edict |-> IF e = 1 THEN MinTic + 1 ELSE 0],
     lastruntime |-> [e \in Edict |-> 0], owned |-> FALSE, newmis |-> 0,
     doing |-> <<>>, thinking |-> 0, own |-> {}, seen |-> [e \in Edict |-> 0], back |-> FALSE,
     ltime |-> 0, at |-> 0, to |-> 0, speed |-> 0, wrong |-> FALSE]

(* What the programs do: a door goes to its other end, a missile is made,  *)
(* an edict is removed or given a time to think.                           *)
DoorGoes(t, to) ==
    IF t.at = to THEN [t EXCEPT !.to = to, !.speed = 0, !.nextthink[2] = t.ltime + 1]
    ELSE [t EXCEPT !.to = to, !.speed = IF to > t.at THEN 1 ELSE -1,
                   !.nextthink[2] = t.ltime + Abs(to - t.at)]
Launched(t, byPlayer, at) ==
    [t EXCEPT !.free = @ \ {3}, !.lastruntime[3] = 0, !.owned = byPlayer, !.newmis = 3,
              !.nextthink[3] = at + 1, !.seen[3] = 0]
ED_Free(t, e) == [t EXCEPT !.free = @ \cup {e}, !.nextthink[e] = -1]
ProgsDo(t, e, now) ==
    {t, DoorGoes(t, Far - t.to)}
        \cup (IF 3 \in t.free THEN {Launched(t, FALSE, now)} ELSE {ED_Free(t, 3)})
        \cup (IF e = 1 /\ 3 \notin t.free THEN {[t EXCEPT !.nextthink[3] = now + 1]} ELSE {})
Asks(t, e, now) ==
    {t} \cup {[t EXCEPT !.nextthink[e] = now + d, !.own = IF t.short THEN @ ELSE @ \cup {e}] : d \in {1, 3}}

(* An edict has been run: the missile it made is run next. *)
SV_RunNewmis(t) ==
    IF t.nq \/ t.newmis = 0 THEN t
    ELSE [t EXCEPT !.doing = <<3>> \o @, !.short = TRUE, !.newmis = 0]
RunEnds(t) ==
    LET left == [t EXCEPT !.doing = Tail(@), !.thinking = 0, !.short = FALSE] IN
    IF t.short THEN left ELSE SV_RunNewmis(left)
(* One of the player's that has never been run. *)
SV_RunNQNewmis(t) ==
    IF 3 \notin t.free /\ t.lastruntime[3] = 0 /\ t.owned
    THEN [t EXCEPT !.doing = <<3>>, !.short = TRUE] ELSE t
SV_PostRunCmd ==
    /\ thinks.doing = <<>> /\ 3 \in thinks.free
    /\ LET t == Launched(thinks, TRUE, thinks.time) IN
       thinks' = IF t.nq THEN SV_RunNQNewmis(t) ELSE SV_RunNewmis(t)

FrameOf(t) == IF t.short THEN 1 ELSE t.frametime
(* Mutant: one think a frame. *)
DueOnce(t, e) ==
    e \notin t.free \cup t.own /\ t.nextthink[e] > 0 /\ t.nextthink[e] <= t.time + FrameOf(t)
Due(t, e) ==
    e \notin t.free /\ t.nextthink[e] > 0 /\ t.nextthink[e] <= t.time + FrameOf(t)
(* What is past is not seen as such. *)
SV_RunThink(t, e, now) ==
    LET r == [t EXCEPT !.nextthink[e] = 0, !.own = @ \ {e}, !.back = @ \/ now < t.seen[e],
                       !.seen[e] = now] IN
    UNION {IF e \in u.free THEN {u} ELSE Asks(u, e, now) : u \in ProgsDo(r, e, now)}
Think ==
    \E e \in {thinks.thinking} :
       thinks' \in IF ~Due(thinks, e) THEN {RunEnds(thinks)}
                   ELSE SV_RunThink(thinks, e, Max({thinks.nextthink[e], thinks.time}))

(* SV_PushMove: as far as until it thinks, or for the frame. *)
MoveTime(t) == Max({0, Min({t.nextthink[2] - t.ltime, t.frametime})})
Moved(t, n) == [t EXCEPT !.ltime = @ + n, !.at = @ + t.speed * n]
Blocked(t) == {t, DoorGoes(t, Far - t.to)}
Pushes(t) ==
    LET n == MoveTime(t) IN
    IF n = 0 THEN {t} ELSE {Moved(t, n)} \cup (IF t.speed = 0 THEN {} ELSE Blocked(t))
DoorThinks(t) ==
    LET r == [t EXCEPT !.nextthink[2] = 0, !.speed = 0, !.wrong = @ \/ t.at # t.to] IN
    {r, [r EXCEPT !.nextthink[2] = r.ltime + 1], DoorGoes(r, Far - r.to)}
(* Mutant: the time of the frame has passed for a door that was blocked. *)
PusherUnblocked(t) ==
    LET due == t.nextthink[2] IN
    UNION {IF due > t.ltime /\ due <= t.ltime + MoveTime(t) THEN DoorThinks(p) ELSE {p} : p \in Pushes(t)}
SV_Physics_Pusher(t) ==
    LET due == t.nextthink[2] IN
    UNION {IF due > t.ltime /\ due <= p.ltime THEN DoorThinks(p) ELSE {p} : p \in Pushes(t)}

SV_RunEntity ==
    LET e == Head(thinks.doing)
        t == [thinks EXCEPT !.lastruntime[e] = thinks.time] IN
    IF e \in thinks.free \/ thinks.lastruntime[e] = thinks.time THEN thinks' = RunEnds(thinks)
    ELSE IF e = 2 THEN thinks' \in {RunEnds(p) : p \in SV_Physics_Pusher(t)}
    ELSE thinks' = [t EXCEPT !.thinking = e]

DueFor(t) == t.time - t.physicstime >= MinTic
SV_Physics ==
    /\ thinks.doing = <<>> /\ DueFor(thinks)
    /\ thinks' = [thinks EXCEPT !.physicstime = thinks.time, !.doing = <<1, 2, 3>>, !.own = {},
                     !.frametime = Min({thinks.time - thinks.physicstime, MaxTic})]
SV_Frame ==
    /\ thinks.doing = <<>> /\ ~DueFor(thinks)
    /\ \E n \in 1..3 :
          thinks.time + n <= MaxTime /\ thinks' = [thinks EXCEPT !.time = @ + n]     \* bound
Thinks ==
    \/ SV_Frame \/ SV_PostRunCmd \/ SV_Physics
    \/ thinks.doing # <<>> /\ thinks.thinking = 0 /\ SV_RunEntity
    \/ thinks.thinking # 0 /\ Think

-----------------------------------------------------------------------------
Init ==
    /\ part \in Parts /\ calls = 0
    /\ strings = InitStrings /\ walk = InitWalk /\ turns = InitTurns
    /\ files = InitFiles /\ lists = InitLists
    /\ monster \in (IF part = "monster" THEN InitMonsters ELSE {NoMonster})
    /\ thinks \in {InitThinks(nq) : nq \in IF part = "thinks" THEN BOOLEAN ELSE {FALSE}}

Next ==
    /\ part' = part
    /\ \/ /\ calls < MaxCalls /\ calls' = calls + 1           \* bound
          /\ UNCHANGED <<monster, thinks>>
          /\ \/ /\ part = "strings" /\ strings.badfree = {} /\ Strings
                /\ UNCHANGED <<walk, turns, files, lists>>
             \/ part = "walk" /\ Walks /\ UNCHANGED <<strings, turns, files, lists>>
             \/ part = "turns" /\ Turns /\ UNCHANGED <<strings, walk, files, lists>>
             \/ part = "files" /\ Files /\ UNCHANGED <<strings, walk, turns, lists>>
             \/ part = "lists" /\ Lists /\ UNCHANGED <<strings, walk, turns, files>>
       \/ /\ UNCHANGED <<strings, walk, turns, files, lists, calls>>
          /\ \/ part = "monster" /\ Monsters /\ UNCHANGED thinks
             \/ part = "thinks" /\ Thinks /\ UNCHANGED monster

Spec == Init /\ [][Next]_vars

-----------------------------------------------------------------------------
(* A string a program holds reads as it was given, however others were     *)
(* given back, once or twice, and the server frees what it allocated, all  *)
(* of it and once: no string that was given back is freed again by the     *)
(* programs it was given back to.  When others follow them, whose strings   *)
(* are elsewhere, its mark is one no more, and may be freed as memory, by   *)
(* a program or at the next level (pr_cmds.c:1043-1110).                   *)
StringsAreOwn ==
    /\ \A bad \in strings.badfree : bad[1].is = "mark" /\ bad[1].at # bad[2]
    /\ strings.badfree = {} =>
         /\ \A h \in strings.held : PR1_GetString(strings, h.at) = {h.text}
         /\ Cardinality(strings.heap) = Cardinality(strings.held)

(* A walk finds every entity it is after that was there from its start to  *)
(* its end, whatever the program made or removed on the way                *)
(* (pr_cmds.c:1298-1327, 1608-1629).                                       *)
AllAreFound == walk.over = "ended" => walk.stayed \subseteq walk.seen

(* A client that may be a target is looked for at the latest when all the  *)
(* others have been, whoever comes, dies or hides meanwhile                *)
(* (pr_cmds.c:700-742).                                                    *)
EachInTurn == \A c \in Players : turns.waited[c] < MaxClients

(* A handle is of the file it was opened for until it is closed, and the   *)
(* count of open files is what it says at the next level                   *)
(* (pr2_cmds.c:1998-2230).                                                 *)
HandlesAreRight ==
    /\ ~files.error
    /\ files.num = Cardinality({i \in 1..MaxFiles : files.open[i] # 0})
    /\ \A h \in files.held : PF2_FS_ReadFile(files, h[1]) = {h[2]}

(* The number of a model an entity has stays the model's for the level,    *)
(* and a model has one number (pr_cmds.c:165-211, 1365-1388).              *)
NumbersNameModels ==
    /\ IsInjective(lists.models)
    /\ \A e \in DOMAIN lists.entity : lists.entity[e].index # 0 =>
          lists.models[lists.entity[e].index] = lists.entity[e].model

(* A monster is never in a wall or in its enemy, and the areas find it     *)
(* where it is, though a step is undone when it has not turned far enough. *)
(* One that stands with all its corners stands so, whatever its programs   *)
(* tell it to do, until the ground is pulled out under it, and one that    *)
(* swims stays in the water (sv_move.c:36-415).                            *)
MonstersKeepFooting ==
    part = "monster" =>
        /\ Fits(monster, monster.at, monster.at[3])
        /\ monster.linked = monster.at
        /\ monster.onground /\ ~monster.pulled => Stands(monster)
        /\ monster.moves = "swims" => monster.at[3] < Land[monster.land].water

(* When a frame is over no edict waits for a think it asked for by then,   *)
(* none sees the time go back, and a door that thinks is where it was told *)
(* to be by then, however often it was blocked or told to go elsewhere     *)
(* (sv_phys.c:132-159, 586-632).                                           *)
ThinksInTime ==
    part = "thinks" =>
        /\ ~thinks.back /\ ~thinks.wrong
        /\ thinks.doing = <<>> => \A e \in thinks.own \ thinks.free :
              thinks.nextthink[e] > thinks.physicstime + thinks.frametime
=============================================================================
