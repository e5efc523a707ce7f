-------------------------------- MODULE Signon --------------------------------
(***************************************************************************)
(* How a client is brought into the game, and into the next level.         *)
(*                                                                         *)
(* A client asks with "new", and is told the level (svs.spawncount).  It   *)
(* then asks, a part at a time and naming the level each time, for the     *)
(* sounds, the models, the entities the level starts with and the other    *)
(* clients, and with "begin" enters the game (sv_user.c 130-936).  The     *)
(* level may change at any point (sv_init.c, sv_ccmds.c): a request that   *)
(* names another level is answered as "new" is, and everybody is told to   *)
(* "reconnect", so that one client may be going through all this more than *)
(* once at a time.                                                         *)
(*                                                                         *)
(* Both directions are reliable streams (module Netchan): what is in       *)
(* flight arrives once and in order; what still waits in netchan.message   *)
(* may be cleared.  Left out: the login, the real address and the protocol *)
(* extensions, which hold back the answer to the first "new"; clients that *)
(* ask for what nobody offered them, or have another map file, and are     *)
(* dropped; back buffers (module ClientReliable).                          *)
(***************************************************************************)
EXTENDS Integers, Sequences

CONSTANTS
    Items,          \* how many sounds, models, entities, clients a level has
    MaxLevels,      \* bound: levels in a behaviour
    Crowded         \* whether other messages may fill half of netchan.message

Lists == {"soundlist", "modellist"}
Stage == Lists \union {"prespawn", "spawn"}

VARIABLES
    spawncount,     \* svs.spawncount
    state,          \* cl->state
    message,        \* cl->netchan.message
    toClient,       \* reliable messages in flight
    toServer,       \* requests in flight
    count,          \* the client: the level it was told last, 0 before
    got             \* the client: what it has of that level

server == <<spawncount, state, message>>
vars == <<server, toClient, toServer, count, got>>

Level == 1..MaxLevels
Request(cmd, level, n) == [cmd |-> cmd, level |-> level, n |-> n]
New == Request("new", 0, 0)
Serverdata(level) == [kind |-> "serverdata", level |-> level]
Reconnect == [kind |-> "reconnect"]

(* Items n .. m-1 of a list; next is what the client asks for, unless done. *)
Part(stage, n, m, done) ==
    [kind |-> stage, level |-> spawncount, items |-> n .. m - 1, next |-> m, done |-> done]

Init ==
    /\ spawncount = 1
    /\ state = "preconnected"
    /\ message = <<>>
    /\ toClient = <<>>
    /\ toServer = <<New>>
    /\ count = 0
    /\ got = {}

-----------------------------------------------------------------------------
(***************************************************************************)
(* The server's handlers of the client's requests.                         *)
(***************************************************************************)
(* Cmd_New_f; pending is what waits in netchan.message. *)
NewFrom(pending) ==
    IF state = "spawned"
    THEN /\ message' = pending
         /\ UNCHANGED <<spawncount, state>>
    ELSE /\ message' = Append(pending, Serverdata(spawncount))
         /\ state' = "connected"
         /\ UNCHANGED spawncount

(* Mutant: "begin" may name any level. *)
FromOtherLevelUnlessBegin(r) == r.cmd # "begin" /\ r.level # spawncount

(* Mutant: only the first part of a list is checked. *)
FromOtherLevelAtFirst(r) == r.n = 0 /\ r.level # spawncount

(* A level changed while the client was connecting. *)
FromOtherLevel(r) == r.level # spawncount

(* Mutant: one item too many in a part. *)
PartEndsBeyond(stage, n) == n + 1 .. Items[stage] + 1

(* Where a part that starts at n may end: at any item where the message    *)
(* gets half full.  If it was so before, the part is empty; Cmd_Modellist_f*)
(* always writes the first model, and Cmd_Spawn_f clears the message.      *)
PartEnds(stage, n) ==
    IF Crowded /\ stage # "spawn" /\ <<stage, n>> # <<"modellist", 0>>
    THEN n .. Items[stage]
    ELSE n + 1 .. Items[stage]

(* The client is told 0 when the list is done, otherwise where to go on;   *)
(* the commands of Cmd_PreSpawn_f and Cmd_Spawn_f spell it out.            *)
ReadsAsDone(stage, m) == m = Items[stage] \/ (stage \in Lists /\ m = 0)

(* Cmd_Soundlist_f, Cmd_Modellist_f, Cmd_PreSpawn_f and Cmd_Spawn_f. *)
SendPart(r) ==
    /\ r.cmd \in Stage
    /\ IF state # "connected" THEN UNCHANGED server
       ELSE IF FromOtherLevel(r) THEN NewFrom(<<>>)     \* SV_ClearReliable
       ELSE \E m \in PartEnds(r.cmd, r.n) :
              /\ message' = Append(IF r.cmd = "spawn" THEN <<>> ELSE message,
                                   Part(r.cmd, r.n, m, ReadsAsDone(r.cmd, m)))
              /\ UNCHANGED <<spawncount, state>>

(* Cmd_Begin_f. *)
Begin(r) ==
    /\ r.cmd = "begin"
    /\ IF state = "spawned" THEN UNCHANGED server
       ELSE IF FromOtherLevel(r) THEN NewFrom(<<>>)
       ELSE state' = "spawned" /\ UNCHANGED <<spawncount, message>>

AnswerNew(r) ==
    /\ r.cmd = "new"
    /\ NewFrom(message)

ExecuteRequest ==
    /\ toServer # <<>>
    /\ toServer' = Tail(toServer)
    /\ LET r == Head(toServer) IN AnswerNew(r) \/ SendPart(r) \/ Begin(r)
    /\ UNCHANGED <<toClient, count, got>>

(* Netchan_Transmit puts netchan.message in flight when nothing else is. *)
Transmit ==
    /\ toClient = <<>> /\ message # <<>>
    /\ toClient' = message
    /\ message' = <<>>
    /\ UNCHANGED <<spawncount, state, toServer, count, got>>

(* SV_SaveSpawnparms. *)
ConnectedAgain(st) == IF st = "spawned" THEN "connected" ELSE st

(* Mutant: only those who had got as far as the game are told. *)
ToldSpawned(st) == st = "spawned"

(* To whom SV_Map's broadcast goes. *)
Told(st) == st \in {"preconnected", "connected", "spawned"}

(* SV_Map(true): SV_SpawnServer, then "reconnect" to all, sent at once if  *)
(* nothing is in flight.                                                   *)
ChangeLevel ==
    /\ spawncount < MaxLevels
    /\ spawncount' = spawncount + 1
    /\ state' = ConnectedAgain(state)
    /\ LET pending == IF Told(state') THEN Append(message, Reconnect) ELSE message IN
       IF toClient = <<>> /\ state # "preconnected"
       THEN toClient' = pending /\ message' = <<>>
       ELSE message' = pending /\ UNCHANGED toClient
    /\ UNCHANGED <<toServer, count, got>>

-----------------------------------------------------------------------------
(***************************************************************************)
(* The client, which is not part of this repository, as the server expects *)
(* it: it asks for what it is told to ask for.                             *)
(***************************************************************************)
Following == [soundlist |-> "modellist", modellist |-> "prespawn",
              prespawn |-> "spawn", spawn |-> "begin"]

(* The lists carry no level, nor does the command "skins" that ends the    *)
(* last part: the client then names the one it knows.                      *)
NextRequest(m) ==
    IF m.done
    THEN Request(Following[m.kind], IF m.kind = "prespawn" THEN m.level ELSE count, 0)
    ELSE Request(m.kind, IF m.kind \in Lists THEN count ELSE m.level, m.next)

ReceiveServerdata(m) ==
    /\ m.kind = "serverdata"
    /\ count' = m.level
    /\ got' = {}
    /\ toServer' = Append(toServer, Request("soundlist", m.level, 0))

ReceiveReconnect(m) ==
    /\ m.kind = "reconnect"
    /\ toServer' = Append(toServer, New)
    /\ UNCHANGED <<count, got>>

ReceivePart(m) ==
    /\ m.kind \in Stage
    /\ got' = got \union ({<<m.level, m.kind>>} \X m.items)
    /\ toServer' = Append(toServer, NextRequest(m))
    /\ UNCHANGED count

Receive ==
    /\ toClient # <<>>
    /\ toClient' = Tail(toClient)
    /\ LET m == Head(toClient) IN
       ReceiveServerdata(m) \/ ReceiveReconnect(m) \/ ReceivePart(m)
    /\ UNCHANGED server

-----------------------------------------------------------------------------
Next == ExecuteRequest \/ Transmit \/ ChangeLevel \/ Receive

Spec == Init /\ [][Next]_vars

(* Packets are lost, but not forever: both streams move on as long as the  *)
(* server runs frames (module NetchanProgress).                            *)
Fairness == WF_vars(ExecuteRequest) /\ WF_vars(Transmit) /\ WF_vars(Receive)

FairSpec == Spec /\ Fairness

-----------------------------------------------------------------------------
(***************************************************************************)
(* Properties.                                                             *)
(***************************************************************************)
Message ==
    [kind : {"serverdata"}, level : Level] \union {Reconnect} \union
    UNION {[kind : {stage}, level : Level, items : SUBSET (0 .. Items[stage] - 1),
            next : 0 .. Items[stage], done : BOOLEAN] : stage \in Stage}

TypeOK ==
    /\ spawncount \in Level
    /\ state \in {"preconnected", "connected", "spawned"}
    /\ message \in Seq(Message) /\ toClient \in Seq(Message)
    /\ toServer \in Seq([cmd : Stage \union {"new", "begin"}, level : 0..MaxLevels,
                         n : Nat])
    /\ count \in 0..MaxLevels
    /\ got \subseteq {<<level, stage>> : level \in Level, stage \in Stage} \X Nat

(* All there is to have of a level. *)
Whole(level) == UNION {{<<level, stage>>} \X (0 .. Items[stage] - 1) : stage \in Stage}

(* A client in the game has all of the level the server is at and nothing  *)
(* of another one, however often the level changed while it was connecting *)
(* ("any partially connected client will be restarted", sv_init.c 256),    *)
(* and no answer on its way to it makes it start again.                    *)
InGameWithTheLevel ==
    state = "spawned" => /\ count = spawncount
                         /\ got = Whole(spawncount)

(* What the client collects is of the level it was told, though answers    *)
(* about the level before are still on their way when it changes           *)
(* (SV_ClearReliable in sv_user.c 402, 482, 579, 731, 863).                *)
NoMixedLevels == \A item \in got : item[1][1] = count

(* Once the level does not change any more, the client gets into the game  *)
(* and stays there.                                                        *)
EntersTheGame == <>[](state = "spawned")

=============================================================================
