------------------------------ MODULE Userinfo ------------------------------
(***************************************************************************)
(* What clients say of themselves: Cmd_SetInfo_f and ProcessUserInfoChange *)
(* of sv_user.c, SV_ExtractFromUserinfo of sv_main.c.  A client's name is  *)
(* in its userinfo, in cl->name and in the short userinfo that the others   *)
(* are sent; "(1)bo" is <<"bo", 1>>.  Who changes too often is kicked.      *)
(***************************************************************************)
EXTENDS Integers, FiniteSets, FiniteSetsExt, SequencesExt

CONSTANTS
    MaxSlot,        \* MAX_CLIENTS
    Typed,          \* names that are asked for: <<"", 0>> is none
    Changer,        \* bound: slots whose clients change their userinfo
    Default,        \* sv_default_name
    NameTime,       \* the 5 seconds of a series of name changes
    NameLimit,      \* how many of them are allowed, the first not counted
    SpamTime,       \* sv_kickuserinfospamtime
    SpamLimit,      \* sv_kickuserinfospamcount
    MaxTime         \* bound on the clocks

VARIABLES
    clients,        \* svs.clients
    realtime,       \* realtime; it stops while the game is paused
    curtime,        \* curtime
    paused          \* sv.paused

vars == <<clients, realtime, curtime, paused>>

Slot == 1..MaxSlot
Plain(b) == <<b, 0>>
Free == [state |-> "free", userinfo |-> Plain(""), name |-> Plain(""),
         short |-> Plain(""), muted |-> FALSE, drop |-> FALSE,
         lastname |-> [time |-> 0, count |-> 0],
         lastuserinfo |-> [time |-> 0, count |-> 0]]

Init ==
    /\ clients = [c \in Slot |-> Free]
    /\ realtime = 1 /\ curtime = 1 /\ paused = FALSE

Active(c) == clients[c].state \in {"connected", "spawned"}

(* Mutant: the number is put in front once. *)
UnusedOnce(c, name) ==
    LET used == {clients[d].name : d \in {e \in Slot \ {c} : clients[e].state = "spawned"}}
        wanted == IF name[1] = "" THEN Plain(Default) ELSE name
    IN IF wanted \in used THEN <<wanted[1], 1>> ELSE wanted
(* The name a client comes to have by one of its userinfo: the default for *)
(* none, and one that nobody in the game has, by numbers from 1 on.        *)
Unused(c, name) ==
    LET used == {clients[d].name : d \in {e \in Slot \ {c} : clients[e].state = "spawned"}}
        wanted == IF name[1] = "" THEN Plain(Default) ELSE name
        free == {k \in 1..(MaxSlot + 1) : <<wanted[1], k>> \notin used}
    IN IF wanted \notin used THEN wanted ELSE <<wanted[1], Min(free)>>

(* The series of changes, lastnametime and lastnamecount, and that of       *)
(* setinfo: a new series, or one more; counted before or after the test.    *)
Series(s, now, time) == s.time # 0 /\ now - s.time <= time
Counted(s, now, time) ==
    IF Series(s, now, time) THEN [s EXCEPT !.count = @ + 1] ELSE [time |-> now, count |-> 0]

(* SV_ExtractFromUserinfo, of the client as its userinfo is now. *)
Extracted(c, cl) ==
    LET name    == Unused(c, cl.userinfo)
        changes == name # cl.name /\ ~paused
        spam    == changes /\ Series(cl.lastname, realtime, NameTime)
                           /\ cl.lastname.count > NameLimit
    IN IF spam THEN [Free EXCEPT !.state = "zombie"]
       ELSE [cl EXCEPT !.userinfo = name, !.name = name,
                       !.lastname = IF changes THEN Counted(@, realtime, NameTime) ELSE @]

(* Who is muted keeps its name, though the userinfo has changed. *)
Refused(cl) == cl.muted

(* Mutant: the others are sent what was asked for. *)
ProcessedAsAsked(c, cl) == [Extracted(c, cl) EXCEPT !.short = cl.userinfo]
(* ProcessUserInfoChange, whose last part goes on with a client dropped. *)
Processed(c, cl) ==
    LET done == Extracted(c, cl) IN [done EXCEPT !.short = done.userinfo]

-----------------------------------------------------------------------------
(* SVC_DirectConnect *)
Connect(c, name) ==
    /\ clients[c].state = "free"
    /\ clients' = [clients EXCEPT ![c] = Processed(c,
          [Free EXCEPT !.state = "connected", !.userinfo = name])]
    /\ UNCHANGED <<realtime, curtime, paused>>

Begin(c) ==
    /\ clients[c].state = "connected"
    /\ clients' = [clients EXCEPT ![c].state = "spawned"]
    /\ UNCHANGED <<realtime, curtime, paused>>

(* Cmd_SetInfo_f of the name, or of another key. *)
SetInfo(c, key, name) ==
    LET cl   == clients[c]
        told == [cl EXCEPT !.lastuserinfo = Counted(@, curtime, SpamTime)]
        spam == Series(cl.lastuserinfo, curtime, SpamTime)
                /\ told.lastuserinfo.count > SpamLimit
        now  == [told EXCEPT !.userinfo = name]
    IN /\ Active(c)
       /\ cl.lastuserinfo.count <= SpamLimit + 1                 \* bound
       /\ clients' = [clients EXCEPT ![c] =
             IF spam THEN [told EXCEPT !.drop = TRUE]
             ELSE IF key # "name" \/ name = cl.userinfo THEN told
             ELSE IF Refused(cl) THEN now
             ELSE Processed(c, now)]
       /\ UNCHANGED <<realtime, curtime, paused>>

Mute(c) ==
    /\ Active(c)
    /\ clients' = [clients EXCEPT ![c].muted = ~@]
    /\ UNCHANGED <<realtime, curtime, paused>>

TogglePause == paused' = ~paused /\ UNCHANGED <<clients, realtime, curtime>>

(* A level changes: everybody connects to it. *)
SpawnServer ==
    /\ clients' = [c \in Slot |-> [clients[c] EXCEPT !.state =
                                     IF @ = "spawned" THEN "connected" ELSE @]]
    /\ paused' = FALSE
    /\ UNCHANGED <<realtime, curtime>>

(* SV_Frame, and SV_SendClientMessages that drops who is to be. *)
Frame ==
    /\ curtime < MaxTime                                         \* bound
    /\ curtime' = curtime + 1
    /\ realtime' = IF paused THEN realtime ELSE realtime + 1
    /\ clients' = [c \in Slot |->
          IF clients[c].state = "zombie" THEN Free
          ELSE IF clients[c].drop THEN [Free EXCEPT !.state = "zombie"]
          ELSE clients[c]]
    /\ UNCHANGED paused

Next ==
    \/ \E c \in Slot :
          \/ \E name \in Typed : Connect(c, name)
          \/ c \in Changer /\ \E name \in Typed : SetInfo(c, "name", name)
          \/ c \in Changer /\ SetInfo(c, "other", clients[c].userinfo)
          \/ c \in Changer /\ Mute(c)
          \/ Begin(c)
    \/ TogglePause \/ SpawnServer \/ Frame

Spec == Init /\ [][Next]_vars

-----------------------------------------------------------------------------
(* Nobody comes to have the name of a client that is in the game, whatever *)
(* numbers the names there have already.  No more is promised: two that    *)
(* connect at once may both begin with one name, since only names in the   *)
(* game are compared (sv_main.c:3612).                                     *)
NewNameIsUnused ==
    \A c \in Slot : clients'[c].name # clients[c].name /\ clients'[c].state # "zombie"
       => \A d \in Slot \ {c} : clients[d].state = "spawned"
                                => clients[d].name # clients'[c].name
NoNameOfAnother == [][NewNameIsUnused]_vars

(* The name the others see is the one the server acts by, also of a client *)
(* that tried to change it while it was muted.                             *)
SeenByItsName == \A c \in Slot : clients[c].short = clients[c].name
=============================================================================
