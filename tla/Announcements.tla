--------------------------- MODULE Announcements ---------------------------
(***************************************************************************)
(* What a client knows of the others and of the level: names, frags, light *)
(* styles, the pause and its own status bar.  It is told everything when   *)
(* it asks "spawn" (sv_user.c) and then every change, each kind in a way   *)
(* of its own: straight into the stream of those in the game or of all     *)
(* that are connected, at the end of the frame, through sv.reliable_       *)
(* datagram, or by comparing (sv_send.c, sv_main.c, pr_cmds.c).            *)
(*                                                                         *)
(* What is in flight arrives once and in order (module Netchan); what      *)
(* waits in netchan.message may be cleared.  There are no back buffers     *)
(* (module ClientReliable); the part of the signon that brings the lists   *)
(* is one request (module Signon).                                         *)
(***************************************************************************)
EXTENDS Integers, SequencesExt, TLC

CONSTANTS
    MaxClients,
    Names,
    Stats,              \* values of the status bar, 0 among them
    Changing,           \* what changes: "name", "frags", "lights", "pause", "stats"
    MaxLevels,          \* bound
    MaxChanges          \* bound: changes of the game, connections and drops

VARIABLES
    level,              \* svs.spawncount, sv.lightstyles, sv.paused
    clients,            \* client_t, with the fields of its edict
    reliable_datagram,  \* sv.reliable_datagram
    peer,               \* each client: what is in flight from and to it, its picture
    changes             \* bound

vars == <<level, clients, reliable_datagram, peer, changes>>

Slot == 0..(MaxClients - 1)
Blank == ""
NoPicture == [count |-> 0, name |-> [i \in Slot |-> Blank], frags |-> [i \in Slot |-> 0],
              light |-> 0, paused |-> FALSE, stat |-> 0]

(* missed (a history): the facts that a client was not told the last of.  *)
FreeClient == [state |-> "free", name |-> Blank, old_frags |-> 0, frags |-> 0,
               sendinfo |-> FALSE, health |-> 0, stats |-> 0, track |-> 0, message |-> <<>>,
               missed |-> {}]
NoPeer == [in |-> <<>>, out |-> <<>>, picture |-> NoPicture]

(* One client is in the game already, alone, and has been told all. *)
Init ==
    /\ level = [count |-> 1, light |-> 0, paused |-> FALSE]
    /\ LET name == CHOOSE n \in Names : TRUE IN
          /\ clients = [i \in Slot |-> IF i > 0 THEN FreeClient
                         ELSE [FreeClient EXCEPT !.state = "spawned", !.name = name]]
          /\ peer = [i \in Slot |-> IF i > 0 THEN NoPeer
                      ELSE [NoPeer EXCEPT !.picture.count = 1, !.picture.name[0] = name]]
    /\ reliable_datagram = <<>>
    /\ changes = 0

-----------------------------------------------------------------------------
Serverdata == [k |-> "serverdata", count |-> level.count]
Ask(cmd, count, n) == [k |-> "ask", cmd |-> cmd, count |-> count, n |-> n]
New == Ask("new", 0, 0)
Update(i, f, v) == [k |-> "update", fact |-> <<f, i, v>>]
Tell(f, v) == [k |-> "tell", fact |-> <<f, 0, v>>]

(* SV_FullClientUpdate *)
FullClientUpdate(i, c) == <<Update(i, "frags", c.old_frags), Update(i, "name", c.name)>>

(* What a client makes of a message that is not a request to ask.          *)
Shown(picture, m) ==
    CASE m.k = "serverdata" -> [NoPicture EXCEPT !.count = m.count]
      [] m.k = "update"     -> [picture EXCEPT ![m.fact[1]][m.fact[2]] = m.fact[3]]
      [] m.k = "tell"       -> [picture EXCEPT ![m.fact[1]] = m.fact[3]]
      [] OTHER              -> picture

(* What there is to know, and what a text tells of it. *)
Facts == ({"name", "frags"} \X Slot) \cup ({"light", "paused"} \X {0})
Known(picture, f) == IF f[1] \in {"name", "frags"} THEN picture[f[1]][f[2]] ELSE picture[f[1]]
ToldBy(text) ==
    {SubSeq(text[n].fact, 1, 2) : n \in {k \in DOMAIN text : text[k].k \in {"update", "tell"}}}
(* What i would know otherwise if what waits for it were not discarded.    *)
Discarded(i) ==
    LET p == FoldLeft(Shown, peer[i].picture, peer[i].out)
    IN {f \in Facts : Known(p, f) # Known(FoldLeft(Shown, p, clients[i].message), f)}

(* ClientReliableWrite to the clients that are at least in one of states.  *)
Written(cs, states, text) ==
    [i \in Slot |-> IF cs[i].state \in states
                    THEN [cs[i] EXCEPT !.message = @ \o text, !.missed = @ \ ToldBy(text)]
                    ELSE cs[i]]

Connected == {"preconnected", "connected", "spawned"}

-----------------------------------------------------------------------------
(* Cmd_New_f, with what waits in netchan.message. *)
Cmd_New_f(i, waiting) ==
    IF clients[i].state = "spawned" THEN [clients[i] EXCEPT !.message = waiting]
    ELSE [clients[i] EXCEPT !.message = Append(waiting, Serverdata), !.state = "connected",
                            !.missed = {}]

(* Cmd_Soundlist_f, Cmd_Modellist_f and Cmd_PreSpawn_f, in one. *)
Signon(i) ==
    [clients[i] EXCEPT !.message = Append(@, Ask("spawn", level.count, 0))]

(* Mutant: what was told of the status bar before the level changed. *)
SpawnedKeepsStats(c) == c

(* The end of Cmd_Spawn_f: SetUpClientEdict, and all stats to be told. *)
SpawnedAnew(c) == [c EXCEPT !.frags = 0, !.health = 0, !.stats = 0]

(* Mutant: only those in the game. *)
ShownAtSpawn(c) == c.state = "spawned"

(* Of whom a client is told at "spawn". *)
ListedAtSpawn(c) == TRUE

(* Cmd_Spawn_f, for the slots n..m-1: what waits is cleared. *)
Cmd_Spawn_f(i, n, m) ==
    LET listed == SelectSeq([s \in 1..(m - n) |-> n + s - 1],
                            LAMBDA s : ListedAtSpawn(clients[s]))
        players == FlattenSeq([s \in DOMAIN listed |->
                                  FullClientUpdate(listed[s], clients[listed[s]])])
        text == players \o (IF m < MaxClients THEN <<Ask("spawn", level.count, m)>>
                            ELSE <<Tell("light", level.light), Ask("begin", 0, 0)>>)
        c == [clients[i] EXCEPT !.message = text,
                                !.missed = (@ \cup Discarded(i)) \ ToldBy(text)]
    IN IF m < MaxClients THEN c ELSE SpawnedAnew(c)

(* Cmd_Begin_f: the progs put the player into the game. *)
Cmd_Begin_f(i, frags) ==
    LET c == [clients[i] EXCEPT !.state = "spawned", !.frags = frags]
    IN IF level.paused THEN [c EXCEPT !.message = Append(@, Tell("paused", TRUE)),
                                      !.missed = @ \ {<<"paused", 0>>}]
       ELSE c

(* SV_ExecuteUserCommand of the client's next request; those of another    *)
(* level are answered as "new" is.                                         *)
Execute(i) ==
    /\ peer[i].in # <<>>
    /\ peer' = [peer EXCEPT ![i].in = Tail(@)]
    /\ \E r \in {Head(peer[i].in)}, c \in {clients[i]} :
          \/ r.cmd = "new" /\ clients' = [clients EXCEPT ![i] = Cmd_New_f(i, c.message)]
                            /\ UNCHANGED changes
          \/ r.cmd # "new" /\ c.state # "connected" /\ UNCHANGED <<clients, changes>>
          \/ /\ r.cmd # "new" /\ c.state = "connected" /\ r.count # level.count
             /\ UNCHANGED changes
             /\ clients' = [clients EXCEPT ![i] = Cmd_New_f(i, <<>>)]
          \/ /\ c.state = "connected" /\ r.count = level.count
             /\ \/ /\ r.cmd = "signon" /\ UNCHANGED changes
                   /\ clients' = [clients EXCEPT ![i] = Signon(i)]
                \/ /\ r.cmd = "spawn" /\ UNCHANGED changes
                   /\ \E m \in (r.n + 1)..MaxClients :
                         clients' = [clients EXCEPT ![i] = Cmd_Spawn_f(i, r.n, m)]
                \/ /\ r.cmd = "begin"
                   /\ \E frags \in {0, 1} :
                         /\ changes + frags <= MaxChanges /\ changes' = changes + frags  \* bound
                         /\ clients' = [clients EXCEPT ![i] = Cmd_Begin_f(i, frags)]
    /\ UNCHANGED <<level, reliable_datagram>>

-----------------------------------------------------------------------------
Change == changes < MaxChanges /\ changes' = changes + 1     \* bound

(* SVC_DirectConnect, with some name nobody has; a zombie's slot is free   *)
(* when its time is over.                                                  *)
Connect(i) ==
    /\ Change
    /\ clients[i].state = "free"
    /\ LET name == CHOOSE n \in Names : n \notin {clients[j].name : j \in Slot} IN
          clients' = [clients EXCEPT ![i] = [FreeClient EXCEPT
                         !.state = "preconnected", !.name = name, !.sendinfo = TRUE]]
    /\ peer' = [peer EXCEPT ![i] = [NoPeer EXCEPT !.in = <<New>>]]
    /\ UNCHANGED <<level, reliable_datagram>>

(* SV_DropClient *)
Drop(i) ==
    /\ Change
    /\ clients[i].state \in Connected
    /\ clients' = [clients EXCEPT ![i] = FreeClient]
    /\ reliable_datagram' = reliable_datagram \o FullClientUpdate(i, FreeClient)
    /\ peer' = [peer EXCEPT ![i] = NoPeer]
    /\ UNCHANGED level

(* ProcessUserInfoChange *)
Rename(i) ==
    /\ "name" \in Changing /\ Change
    /\ clients[i].state \in Connected
    /\ \E name \in Names \ {clients[j].name : j \in Slot} :
          /\ clients' = [clients EXCEPT ![i].name = name]
          /\ reliable_datagram' = Append(reliable_datagram, Update(i, "name", name))
    /\ UNCHANGED <<level, peer>>

(* The progs: a frag, a light, the player's health; SV_TogglePause.        *)
Frag(i) ==
    /\ "frags" \in Changing /\ Change
    /\ clients[i].state = "spawned"
    /\ clients' = [clients EXCEPT ![i].frags = 1 - @]
    /\ UNCHANGED <<level, reliable_datagram, peer>>

PF_lightstyle ==
    /\ "lights" \in Changing /\ Change
    /\ level' = [level EXCEPT !.light = 1 - @]
    /\ LET told == Written(clients, {"spawned"}, <<Tell("light", level'.light)>>) IN
       clients' = [i \in Slot |-> IF told[i].state \in Connected \ {"spawned"}
                      THEN [told[i] EXCEPT !.missed = @ \cup {<<"light", 0>>}] ELSE told[i]]
    /\ UNCHANGED <<reliable_datagram, peer>>

Hurt(i) ==
    /\ "stats" \in Changing /\ Change
    /\ clients[i].state = "spawned"
    /\ \E v \in Stats : clients' = [clients EXCEPT ![i].health = v]
    /\ UNCHANGED <<level, reliable_datagram, peer>>

(* Cmd_PTrack_f: whose status bar a spectator sees. *)
Cmd_PTrack_f(i) ==
    /\ "stats" \in Changing /\ Change
    /\ clients[i].state = "spawned"
    /\ \E j \in Slot : clients[j].state = "spawned"
                       /\ clients' = [clients EXCEPT ![i].track = j - i]
    /\ UNCHANGED <<level, reliable_datagram, peer>>

SV_TogglePause ==
    /\ "pause" \in Changing /\ Change
    /\ level' = [level EXCEPT !.paused = ~@]
    /\ clients' = Written(clients, Connected, <<Tell("paused", level'.paused)>>)
    /\ UNCHANGED <<reliable_datagram, peer>>

(* SV_SpawnServer, and "reconnect" to all. *)
SpawnServer ==
    /\ level.count < MaxLevels      \* bound
    /\ level' = [count |-> level.count + 1, light |-> 0, paused |-> FALSE]
    /\ clients' = Written([i \in Slot |->
                              [clients[i] EXCEPT !.old_frags = 0, !.frags = 0, !.health = 0,
                                  !.state = IF @ = "spawned" THEN "connected" ELSE @]],
                          Connected, <<New>>)
    /\ reliable_datagram' = <<>>
    /\ UNCHANGED <<peer, changes>>

-----------------------------------------------------------------------------
(* SV_UpdateToReliableMessages: all frags come before what was collected   *)
(* in sv.reliable_datagram.                                                *)
FragsTold(cs) ==
    LET changed == {i \in Slot : cs[i].state = "spawned" /\ cs[i].old_frags # cs[i].frags}
        told == SelectSeq([s \in 1..MaxClients |-> Update(s - 1, "frags", cs[s - 1].frags)],
                          LAMBDA u : u.fact[2] \in changed)
        all == Written(cs, Connected, told)
    IN [i \in Slot |-> IF i \in changed THEN [all[i] EXCEPT !.old_frags = cs[i].frags] ELSE all[i]]

InfosToSend(cs) == {i \in Slot : cs[i].state = "spawned" /\ cs[i].sendinfo}

UpdateToReliableMessages(cs) ==
    LET infos == FlattenSeq([s \in 1..MaxClients |->
                                IF s - 1 \in InfosToSend(cs)
                                THEN FullClientUpdate(s - 1, cs[s - 1]) ELSE <<>>])
        sent == [i \in Slot |-> IF i \in InfosToSend(cs)
                                THEN [cs[i] EXCEPT !.sendinfo = FALSE] ELSE cs[i]]
        told == Written(FragsTold(sent), Connected, reliable_datagram \o infos)
        behind == {<<"frags", j>> : j \in {k \in InfosToSend(cs) : cs[k].old_frags # cs[k].frags}}
    IN [i \in Slot |-> IF told[i].state \in Connected
                       THEN [told[i] EXCEPT !.missed = @ \cup behind] ELSE told[i]]

(* SV_UpdateClientStats, when nothing reliable is under way. *)
Tracked(cs, i) == cs[IF cs[i].track # 0 /\ i + cs[i].track \in Slot
                     THEN i + cs[i].track ELSE i]
StatsTold(cs, i) ==
    LET now == Tracked(cs, i).health
    IN IF cs[i].state # "spawned" \/ peer[i].out # <<>> \/ now = cs[i].stats THEN cs[i]
       ELSE [cs[i] EXCEPT !.stats = now, !.message = Append(@, Tell("stat", now))]

(* SV_SendClientMessages: some of the clients have asked for a packet;     *)
(* netchan.message goes with it when the one before has arrived.           *)
SendClientMessages ==
    \E to \in SUBSET {i \in Slot : clients[i].state \in Connected} :
       \E cs \in {UpdateToReliableMessages(clients)} :
          \E told \in {[i \in Slot |-> IF i \in to THEN StatsTold(cs, i) ELSE cs[i]]} :
             LET sends(i) == i \in to /\ peer[i].out = <<>>
             IN /\ peer' = [i \in Slot |-> IF sends(i)
                               THEN [peer[i] EXCEPT !.out = told[i].message] ELSE peer[i]]
                /\ clients' = [i \in Slot |-> IF sends(i)
                                  THEN [told[i] EXCEPT !.message = <<>>] ELSE told[i]]
                /\ reliable_datagram' = <<>>
                /\ UNCHANGED <<level, changes>>

(* The client takes in a whole message: what it is told to ask for it asks;*)
(* of the serverdata it asks for the rest, and "begin" for the level it    *)
(* knows.                                                                  *)
Taken(p, m) ==
    [p EXCEPT !.picture = Shown(@, m),
              !.in = CASE m.k = "serverdata" -> Append(@, Ask("signon", m.count, 0))
                       [] m.k = "ask" /\ m.cmd = "begin" ->
                            Append(@, Ask("begin", p.picture.count, 0))
                       [] m.k = "ask" -> Append(@, m)
                       [] OTHER -> @]

Receive(i) ==
    /\ peer[i].out # <<>>
    /\ peer' = [peer EXCEPT ![i] = [FoldLeft(Taken, @, @.out) EXCEPT !.out = <<>>]]
    /\ UNCHANGED <<level, clients, reliable_datagram, changes>>

Next ==
    \/ \E i \in Slot :
          \/ Execute(i) \/ Receive(i)
          \/ Connect(i) \/ Drop(i) \/ Rename(i) \/ Frag(i) \/ Hurt(i) \/ Cmd_PTrack_f(i)
    \/ PF_lightstyle \/ SV_TogglePause \/ SpawnServer \/ SendClientMessages

Spec == Init /\ [][Next]_vars

-----------------------------------------------------------------------------
InGame(i) == clients[i].state = "spawned"

(* What a client will know once it has received all that is sent to it and *)
(* the frame that is to tell of the last changes, and what it will have    *)
(* missed then.                                                            *)
Future ==
    LET next == UpdateToReliableMessages(clients) IN
    [i \in {j \in Slot : InGame(j)} |->
       [picture |-> FoldLeft(Shown, peer[i].picture, peer[i].out \o next[i].message),
        missed |-> next[i].missed]]
Knows(of, f, value) == f \in of.missed \/ Known(of.picture, f) = value

(* Whoever is in the game comes to know the names and frags of all others, *)
(* and nothing of those that have left, the light styles and the pause,    *)
(* whenever the others connected, changed and left and all of this changed *)
(* while it was connecting (sv_user.c 747-754, 1944, sv_main.c 413,        *)
(* sv_send.c 961-993, pr_cmds.c 1532).  But a change is missed, until the  *)
(* next of its kind, if it waits in netchan.message as the client's        *)
(* "spawn" clears that (sv_user.c 748), if it is of a light style and the  *)
(* client is between "spawn" and "begin", or if it is of the frags of one  *)
(* who enters with some: the older number comes behind.                    *)
PlayersKnown(future) ==
    \A i \in DOMAIN future, j \in Slot :
        /\ clients[j].state = "free" \/ clients[j].state = "spawned" =>
             Knows(future[i], <<"name", j>>, clients[j].name)
        /\ Knows(future[i], <<"frags", j>>, clients[j].frags)
LevelKnown(future) ==
    \A i \in DOMAIN future :
        /\ Knows(future[i], <<"light", 0>>, level.light)
        /\ Knows(future[i], <<"paused", 0>>, level.paused)

(* The status bar of a player, and of a spectator that of the player he    *)
(* tracks, is what was told last, and is told again on every level.        *)
StatsKnown(future) == \A i \in DOMAIN future : future[i].picture.stat = clients[i].stats

AllKnown == \A future \in {Future} : PlayersKnown(future) /\ LevelKnown(future) /\ StatsKnown(future)
=============================================================================
