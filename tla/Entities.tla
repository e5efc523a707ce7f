------------------------------ MODULE Entities ------------------------------
(***************************************************************************)
(* Entities of the world: which edicts are in use (pr_edict.c), where the  *)
(* areas find them (world.c), and how they fall, are touched and are       *)
(* pushed (sv_phys.c).                                                     *)
(*                                                                         *)
(* The progs run in the middle of this: touch, blocked and think functions *)
(* may free, make and move edicts, and numbers of edicts are kept across   *)
(* their calls.  The world has one dimension, up and down, and its boxes   *)
(* are one cell high.  Clients' edicts are left out.                       *)
(***************************************************************************)
EXTENDS Integers, SequencesExt, FiniteSetsExt, TLC

CONSTANTS
    MaxEdicts,          \* sv.max_edicts
    Top,                \* the highest cell
    AreaDepth,          \* AREA_DEPTH
    Young,              \* 2 seconds; a frame takes one
    Level,              \* what a level starts with: kinds of edicts and their places
    MaxTime,            \* bound: frames
    MaxEvents           \* bound: things the progs do

(* What the progs make of an edict: a door (SOLID_BSP, MOVETYPE_PUSH), a   *)
(* monster (SOLID_BBOX), an item (SOLID_TRIGGER) or a corpse (SOLID_NOT),  *)
(* which all fall (MOVETYPE_TOSS).                                         *)
Kind == {"door", "monster", "item", "corpse"}

VARIABLES
    edict,      \* the edicts below sv.num_edicts
    time,       \* sv.time
    doing,      \* what is under way while the progs run
    mistaken,   \* history: when an edict was taken for the one it replaced, or 0
    stepped,    \* history: there was no edict left
    events      \* bound

vars == <<edict, time, doing, mistaken, stepped, events>>

None == -1
Worldspawn == 0
Nothing == [op |-> "none"]
NotLinked == [at |-> None, list |-> "none"]
Used == {e \in DOMAIN edict : ~edict[e].free}

-----------------------------------------------------------------------------
(* Areas: a node is the path to it, child 0 being the upper half; a box    *)
(* is what an entity of one cell, four units, occupies with one to spare.  *)
Box(o) == [min |-> 4 * o - 1, max |-> 4 * o + 5]
Apart(b, c) == b.min > c.max \/ b.max < c.min

(* SV_CreateAreaNode: the height at which a node is divided.               *)
Dist(path) ==
    LET bounds[level \in 0..Len(path)] ==
            IF level = 0 THEN <<0, 4 * (Top + 1)>>
            ELSE LET b == bounds[level - 1]  mid == (b[1] + b[2]) \div 2
                 IN IF path[level] = 0 THEN <<mid, b[2]>> ELSE <<b[1], mid>>
    IN (bounds[Len(path)][1] + bounds[Len(path)][2]) \div 2

(* Mutant: never both of them. *)
ChildCrossed(path, box) ==
    (IF box.max > Dist(path) THEN {0} ELSE {}) \union
    (IF box.min <= Dist(path) /\ box.max <= Dist(path) THEN {1} ELSE {})

(* The children a box reaches into: one of them, unless it crosses.        *)
ChildrenCrossed(path, box) ==
    (IF box.max > Dist(path) THEN {0} ELSE {}) \union
    (IF box.min < Dist(path) THEN {1} ELSE {})

(* The loop in SV_LinkEdict: down to the first node the box crosses, which *)
(* it does when it only touches it.                                        *)
NodeOf(box) ==
    LET from[level \in 0..AreaDepth] ==
            LET path == from[level - 1] IN
            IF level = 0 THEN <<>>
            ELSE IF Len(path) < level - 1 THEN path
            ELSE IF box.min > Dist(path) THEN Append(path, 0)
            ELSE IF box.max < Dist(path) THEN Append(path, 1)
            ELSE path
    IN from[AreaDepth]

(* The nodes that SV_AreaEdicts looks at. *)
NodesFor(box) ==
    LET reached[level \in 0..AreaDepth] ==
            IF level = 0 THEN {<<>>}
            ELSE UNION {{Append(p, side) : side \in ChildrenCrossed(p, box)} :
                            p \in reached[level - 1]}
    IN UNION {reached[level] : level \in 0..AreaDepth}

(* The edicts of a list that the box of one cell at o reaches. *)
AreaEdicts(ed, o, list) ==
    LET near == {e \in DOMAIN ed : /\ ed[e].link.list = list
                                   /\ ed[e].kind # "corpse"
                                   /\ ~Apart(Box(o), Box(ed[e].link.at))}
    IN IF near = {} THEN {}
       ELSE LET nodes == NodesFor(Box(o))
            IN {e \in near : NodeOf(Box(ed[e].link.at)) \in nodes}

(* SV_LinkEdict, without the touching. *)
Linked(d) ==
    [d EXCEPT !.link = IF d.free \/ d.kind = "corpse" THEN NotLinked
                       ELSE [at |-> d.origin,
                             list |-> IF d.kind = "item" THEN "trigger" ELSE "solid"]]

(* SV_TestEntityPosition, of e at o: what it would be in, or None.         *)
Obstacle(ed, e, o, ignored) ==
    LET solids == {x \in AreaEdicts(ed, o, "solid") \ {e, ignored} :
                       /\ ed[x].origin = o
                       /\ ed[x].kind = "door" \/ ed[e].kind \in {"door", "monster"}}
    IN IF o \notin 0..Top THEN Worldspawn
       ELSE IF solids = {} THEN None ELSE Min(solids)

Stuck(ed, e) == Obstacle(ed, e, ed[e].origin, None) # None

Made(kind, o, serial) ==
    Linked([free |-> FALSE, freetime |-> 0, serial |-> serial, kind |-> kind,
            origin |-> o, ground |-> None, flat |-> FALSE, link |-> NotLinked])

Init ==
    /\ \E level \in Level :
          edict = [i \in DOMAIN level |-> Made(level[i].kind, level[i].at, i)]
    /\ time = 1
    /\ doing = Nothing
    /\ mistaken = 0 /\ stepped = FALSE
    /\ events = 0

-----------------------------------------------------------------------------
(* What has been noted of an edict, and whether it still is that one.      *)
This(e) == [e |-> e, serial |-> edict[e].serial]
Is(x) == edict[x.e].serial = x.serial
Mistaken(now) == mistaken' = IF mistaken = 0 /\ now THEN time ELSE mistaken

(* Mutant: at once. *)
ReusableAtOnce(d) == d.free

(* ED_Alloc: the first edict that has been free for half a second, or a    *)
(* new one, or the last one whatever it is.                                *)
Reusable(d) == d.free /\ (d.freetime < Young \/ time > d.freetime)

(* The progs spawn something, where there is room for it; what a blocked   *)
(* function makes is not solid.                                            *)
Spawn ==
    LET reusable == {e \in DOMAIN edict : Reusable(edict[e])}
        full == reusable = {} /\ Len(edict) = MaxEdicts
        e == IF reusable # {} THEN Min(reusable)
             ELSE IF full THEN MaxEdicts ELSE Len(edict) + 1
        serial == Max({edict[x].serial : x \in DOMAIN edict}) + 1
    IN
    /\ \E kind \in {"item", IF doing.op = "blocked" THEN "corpse" ELSE "monster"},
          o \in 0..Top :
          /\ edict' = IF e \in DOMAIN edict
                      THEN [edict EXCEPT ![e] = Made(kind, o, serial)]
                      ELSE Append(edict, Made(kind, o, serial))
          /\ ~Stuck(edict', e)
    /\ stepped' = (stepped \/ full)
    /\ UNCHANGED <<time, doing, mistaken>>

(* PF_Remove *)
ED_Free ==
    /\ \E e \in Used :
          edict' = [edict EXCEPT ![e].free = TRUE, ![e].freetime = time,
                                 ![e].kind = "corpse", ![e].origin = 0,
                                 ![e].link = NotLinked]
    /\ UNCHANGED <<time, doing, mistaken, stepped>>

(* A monster dies: its solid changes under its link. *)
Die ==
    /\ \E e \in Used : /\ edict[e].kind = "monster"
                       /\ edict' = [edict EXCEPT ![e].kind = "corpse"]
    /\ UNCHANGED <<time, doing, mistaken, stepped>>

(* PF_setorigin: what has touched something is teleported to where there   *)
(* is room.                                                                *)
SetOrigin ==
    /\ doing.op = "touch" /\ Is(doing.ent) /\ doing.ent.e \in Used
    /\ \E e \in {doing.ent.e}, o \in 0..Top :
          /\ Obstacle(edict, e, o, None) = None
          /\ edict' = [edict EXCEPT ![e] = Linked([@ EXCEPT !.origin = o])]
    /\ UNCHANGED <<time, doing, mistaken, stepped>>

-----------------------------------------------------------------------------
(* SV_Physics_Toss, SV_PushEntity: e falls by one cell and touches what is *)
(* there, or lands on something.                                           *)
Fall(e) ==
    LET o == edict[e].origin - 1
        floor == Obstacle(edict, e, o, None)
    IN
    /\ doing = Nothing
    /\ e \in Used /\ edict[e].kind # "door" /\ edict[e].ground = None
    /\ IF floor = None
       THEN /\ edict' = [edict EXCEPT ![e] = Linked([@ EXCEPT !.origin = o])]
            /\ doing' = [op |-> "touch", ent |-> This(e),
                         left |-> {This(x) : x \in
                                     AreaEdicts(edict', o, "trigger") \ {e}}]
       ELSE /\ doing' = [op |-> "land", ent |-> This(e), on |-> floor]
            /\ UNCHANGED edict
    /\ UNCHANGED <<time, mistaken, stepped>>

(* SV_TouchLinks: the next of the list, in whichever order, if it is still *)
(* a trigger.                                                              *)
TouchNext ==
    /\ doing.op = "touch"
    /\ \E x \in doing.left :
          /\ doing' = [doing EXCEPT !.left = @ \ {x}]
          /\ Mistaken(edict[x.e].kind = "item" /\ ~Is(x))
    /\ UNCHANGED <<edict, time, stepped>>

TouchEnds ==
    /\ doing.op = "touch" /\ doing.left = {}
    /\ doing' = Nothing
    /\ UNCHANGED <<edict, time, mistaken, stepped>>

(* After SV_Impact the one that fell, if it is still there, is at rest.    *)
Land ==
    /\ doing.op = "land"
    /\ doing' = Nothing
    /\ edict' = [edict EXCEPT ![doing.ent.e].ground = IF edict[doing.ent.e].free THEN @
                                                      ELSE doing.on]
    /\ Mistaken(~edict[doing.ent.e].free /\ ~Is(doing.ent))
    /\ UNCHANGED <<time, stepped>>

(* SV_Push, the loop: what p pushes or carries is moved with it, unless it *)
(* can stay; an entity that can do neither blocks it, when it is not flat. *)
PushNext(p, move, s, e) ==
    LET d == s.edict[e]
        to == d.origin + move
        moved == Append(s.moved, This(e) @@ [from |-> d.origin])
        off == [d EXCEPT !.ground = None]
        gone == [s EXCEPT !.edict[e] = Linked([off EXCEPT !.origin = to]), !.moved = moved]
        kept == [s EXCEPT !.edict[e] = off]
        free(ed, o) == Obstacle(ed, e, o, None) = None
    IN
    CASE \/ s.blocker # None \/ d.free \/ d.kind = "door"
         \/ Obstacle(s.edict, e, d.origin, p) # None
         \/ d.ground # p /\ (d.origin # s.edict[p].origin \/ free(s.edict, d.origin)) -> s
      [] free(s.edict, to)       -> gone
      [] free(s.edict, d.origin) -> kept
      [] d.flat                  -> [kept EXCEPT !.moved = moved]
      [] d.kind # "monster"      -> [kept EXCEPT !.moved = moved, !.edict[e].flat = TRUE]
      [] OTHER                   -> [kept EXCEPT !.moved = moved, !.blocker = e]

Pushed(p, move) ==
    FoldLeft(LAMBDA s, e : PushNext(p, move, s, e),
             [edict |-> [edict EXCEPT ![p] = Linked([@ EXCEPT !.origin = @ + move])],
              moved |-> <<>>, blocker |-> None],
             [e \in DOMAIN edict |-> e])

(* The end of SV_Push: a blocked pusher is put back before the progs are   *)
(* told, and what it has moved after that.                                 *)
Push(p, move) ==
    LET s == Pushed(p, move)
    IN
    /\ doing = Nothing
    /\ p \in Used /\ edict[p].kind = "door" /\ edict[p].origin + move \in 0..Top
    /\ IF s.blocker = None
       THEN edict' = s.edict /\ UNCHANGED doing
       ELSE /\ edict' = [s.edict EXCEPT ![p] = edict[p]]
            /\ doing' = [op |-> "blocked", moved |-> s.moved,
                         before |-> {This(e) @@ [origin |-> edict[e].origin] : e \in Used}]
    /\ UNCHANGED <<time, mistaken, stepped>>

(* Mutant: without the first. *)
MovedBackBut(moved) == Tail(moved)

(* The entities that are moved back. *)
MovedBack(moved) == moved

BlockedEnds ==
    /\ doing.op = "blocked"
    /\ LET back(ed, x) == [ed EXCEPT ![x.e] = Linked([@ EXCEPT !.origin = x.from])]
       IN edict' = FoldLeft(back, edict, MovedBack(doing.moved))
    /\ Mistaken(\E x \in ToSet(doing.moved) : ~edict[x.e].free /\ ~Is(x))
    /\ doing' = Nothing
    /\ UNCHANGED <<time, stepped>>

(* SV_Frame: the clock. *)
Frame ==
    /\ doing = Nothing
    /\ time < MaxTime       \* bound
    /\ time' = time + 1
    /\ UNCHANGED <<edict, doing, mistaken, stepped>>

-----------------------------------------------------------------------------
ProgsDo == Spawn \/ ED_Free \/ Die \/ SetOrigin

EngineDoes ==
    \/ \E e \in DOMAIN edict : Fall(e)
    \/ TouchNext \/ TouchEnds \/ Land
    \/ \E p \in DOMAIN edict, move \in {-1, 1} : Push(p, move)
    \/ BlockedEnds
    \/ Frame

(* What the progs do in a think function they do in one of the others too. *)
(* Nothing is claimed once an edict has been mistaken or stepped on.       *)
Next ==
    /\ mistaken = 0 /\ ~stepped     \* bound
    /\ \/ EngineDoes /\ UNCHANGED events
       \/ /\ doing # Nothing
          /\ ProgsDo
          /\ events < MaxEvents     \* bound
          /\ events' = events + 1

Spec == Init /\ [][Next]_vars

-----------------------------------------------------------------------------
(* The areas find every entity that a box reaches, wherever the box and    *)
(* the entity lie to the planes that divide them (world.c 222, 400).       *)
AreasFindAll ==
    \A o \in 0..Top, list \in {"solid", "trigger"} :
        AreaEdicts(edict, o, list) =
            {e \in Used : /\ edict[e].link.list = list /\ edict[e].kind # "corpse"
                          /\ edict[e].origin \in (o - 1)..(o + 1)}

(* Half a second is enough: what was noted of an edict before the progs    *)
(* ran is never used on another that has its number by then - but in the   *)
(* first two seconds of a level, and when all edicts are in use (pr_edict.c*)
(* 121, 127; world.c 306, sv_phys.c 473).                                  *)
NoneMistaken == stepped \/ mistaken < Young

(* A door that moves leaves nothing in a solid that was not in one; one    *)
(* that cannot leaves everything as it was, but for what its blocked       *)
(* function killed or removed (sv_phys.c 426-553).                         *)
Undone(before) ==
    \A x \in before : Is(x) /\ ~edict[x.e].free => edict'[x.e].origin = x.origin
PushedAllOrNothing ==
    doing' = Nothing /\ mistaken' = 0 =>
        /\ doing.op = "blocked" => Undone(doing.before)
        /\ \A e \in DOMAIN edict' : edict'[e].kind = "monster" => ~Stuck(edict', e)
=============================================================================
