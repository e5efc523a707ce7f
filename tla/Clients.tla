------------------------------- MODULE Clients -------------------------------
(***************************************************************************)
(* The client slots of the server, svs.clients: who gets one, who is told  *)
(* from whom, and when a slot may be used again (sv_main.c, with the       *)
(* commands of sv_user.c that change a client's state, the bots of         *)
(* pr2_cmds.c and the level change of sv_init.c).                          *)
(*                                                                         *)
(* A slot goes cs_free -> cs_preconnected -> cs_connected -> cs_spawned    *)
(* and, after SV_DropClient, through cs_zombie back to cs_free.  Two       *)
(* clocks run: curtime, by which silent clients time out, and realtime,    *)
(* which stops while the game is paused and by which zombies end.  A       *)
(* client's clocks are kept as ages, in frames.                            *)
(*                                                                         *)
(* Requests with a bad challenge, password or userinfo change nothing and  *)
(* are left out, and so is the login of sv_login.c.                        *)
(***************************************************************************)
EXTENDS Integers, FiniteSets, FiniteSetsExt

CONSTANTS
    MaxSlot,            \* MAX_CLIENTS
    Address,            \* remote ends: records [ip, port, qport]
    Vip,                \* those on the VIP list by their real address
    MaxPlayers,         \* maxclients
    MaxSpectators,      \* maxspectators
    MaxVips,            \* maxvip_spectators
    MaxUserId,          \* MAXUSERID
    ZombieTime,         \* zombietime, in frames
    Timeout,            \* timeout, in frames
    ReconnectLimit,     \* sv_reconnectlimit, in frames
    JoinWait            \* the 5 seconds of Cmd_Join_f and Cmd_Observe_f

Slot == 1..MaxSlot

ASSUME PeerAssumption == Address \subseteq [ip : Nat, port : Nat, qport : Nat]
ASSUME VipAssumption == Vip \subseteq Address
(* FixMaxClientsCvars. *)
ASSUME LimitsAssumption ==
    /\ MaxSlot \in Nat /\ MaxPlayers \in Nat /\ MaxSpectators \in Nat
    /\ MaxVips \in Nat
    /\ MaxPlayers + MaxSpectators + MaxVips <= MaxSlot
ASSUME MaxUserIdAssumption == MaxUserId \in Nat /\ MaxUserId > MaxSlot
ASSUME TimesAssumption ==
    /\ ZombieTime \in Nat /\ Timeout \in Nat /\ ReconnectLimit \in Nat
    /\ JoinWait \in Nat

VARIABLES
    clients,        \* svs.clients
    lastuserid,     \* svs.lastuserid
    paused,         \* sv.paused & 1
    game            \* what the progs take each edict of a client to be

vars == <<clients, lastuserid, paused, game>>

NoPeer == [ip |-> -1, port |-> -1, qport |-> -1]

(* Ages are not told apart beyond what any comparison asks for. *)
MaxAge == Max({ZombieTime, ReconnectLimit, JoinWait}) + 1
Older(age, max) == IF age < max THEN age + 1 ELSE max

Free == [state |-> "free", peer |-> NoPeer, userid |-> 0, spectator |-> FALSE,
         vip |-> FALSE, rip_vip |-> FALSE, bot |-> FALSE,
         started |-> 0, silence |-> 0]

Live(c) == c.state \in {"preconnected", "connected", "spawned"}

Init ==
    /\ clients = [s \in Slot |-> Free]
    /\ lastuserid = 0
    /\ paused = FALSE
    /\ game = [s \in Slot |-> "none"]

-----------------------------------------------------------------------------
Role(c) == IF c.spectator THEN "spectator" ELSE "player"

(* SV_DropClient: a bot goes at once (RemoveBot), anybody else lingers as  *)
(* a zombie.                                                               *)
Dropped(c) == IF c.bot THEN Free ELSE [c EXCEPT !.state = "zombie", !.started = 0]

(* PR_GameClientDisconnect, for a client that was in the game. *)
DroppedGame(s) == IF clients[s].state = "spawned" THEN "none" ELSE game[s]

(* Mutant: an id is taken only if a client in the game has it. *)
UserIdTakenInGame(cs, id) ==
    \E s \in Slot : cs[s].state = "spawned" /\ cs[s].userid = id

UserIdTaken(cs, id) == \E s \in Slot : cs[s].state # "free" /\ cs[s].userid = id

(* Mutant: the count does not go round. *)
GenerateUserIDUnbounded(cs) ==
    lastuserid + Min({n \in 1..MaxUserId : ~UserIdTaken(cs, lastuserid + n)})

(* SV_GenerateUserID: the next id from the last one on, round the end,     *)
(* that no slot in use has.                                                *)
GenerateUserID(cs) ==
    LET After(n) == ((lastuserid + n - 1) % MaxUserId) + 1
    IN After(Min({n \in 1..MaxUserId : ~UserIdTaken(cs, After(n))}))

(* CountPlayersSpecsVips. *)
Players(cs) == {s \in Slot : cs[s].state # "free" /\ ~cs[s].spectator}
Spectators(cs) ==
    {s \in Slot : cs[s].state # "free" /\ cs[s].spectator /\ ~cs[s].vip}
Vips(cs) == {s \in Slot : cs[s].state # "free" /\ cs[s].spectator /\ cs[s].vip}
FreeSlots(cs) == {s \in Slot : cs[s].state = "free"}

PlayerCanConnect(cs) == Cardinality(Players(cs)) < MaxPlayers

(* Mutant: the limit on spectators is not asked of a VIP, or of anyone     *)
(* while a VIP slot is free.                                               *)
SpectatorCanConnectOnVipSlot(cs, vip) ==
    \/ Cardinality(Spectators(cs)) < MaxSpectators
    \/ Cardinality(Vips(cs)) < MaxVips

SpectatorCanConnect(cs, vip) ==
    \/ Cardinality(Spectators(cs)) < MaxSpectators
    \/ vip /\ Cardinality(Vips(cs)) < MaxVips

-----------------------------------------------------------------------------
(* Mutant: only the address and port are compared. *)
SamePeerByPort(p, q) == p.ip = q.ip /\ p.port = q.port

(* Another request of a client that has a slot, as CheckReConnect sees it. *)
SamePeer(p, q) == p.ip = q.ip /\ (p.qport = q.qport \/ p.port = q.port)

(* The slot CheckReConnect looks at: the first that matches. *)
Matching(p) ==
    {s \in Slot : clients[s].state # "free" /\ SamePeer(p, clients[s].peer)}

(* Mutant: the slot of a client that reconnects is freed without dropping  *)
(* the client.                                                             *)
ReconnectUndropped(p) ==
    IF Matching(p) = {} THEN <<clients, game>>
    ELSE <<[clients EXCEPT ![Min(Matching(p))] = Free], game>>

(* CheckReConnect: drop whoever has the slot, and free it at once.         *)
Reconnect(p) ==
    LET from == Matching(p)
        s == Min(from)
    IN  IF from = {} THEN <<clients, game>>
        ELSE <<[clients EXCEPT ![s] = Free],
               [game EXCEPT ![s] = IF Live(clients[s]) THEN DroppedGame(s) ELSE @]>>

TooSoon(p) ==
    /\ Matching(p) # {}
    /\ clients[Min(Matching(p))].started < ReconnectLimit

(* What a request asks for: a player who goes to the spectators when the   *)
(* players are full asks "player or spectator", and "spectator2" is one    *)
(* who may be let in on its real address.  The answer is the role, or      *)
(* "rip_vip" for a spectator on the promise of that address, or "full".    *)
Asked == {"player", "player or spectator", "spectator", "spectator2"}

Admission(cs, asked, vip) ==
    LET asPlayer == asked \in {"player", "player or spectator"} IN
    IF FreeSlots(cs) = {} THEN "full"
    ELSE IF asPlayer /\ PlayerCanConnect(cs) THEN "player"
    ELSE IF ~asPlayer /\ SpectatorCanConnect(cs, vip) THEN "spectator"
    ELSE IF asked = "spectator2" /\ ~vip /\ Cardinality(Vips(cs)) < MaxVips
         THEN "rip_vip"
    ELSE IF /\ asked = "player or spectator"
            /\ Cardinality(Spectators(cs)) < MaxSpectators
         THEN "spectator" ELSE "full"

(* SVC_DirectConnect.  A refused request may already have cost its sender  *)
(* the slot it had.                                                        *)
DirectConnect(p, asked, vip) ==
    LET after == Reconnect(p)
        cs == after[1]
        admitted == Admission(cs, asked, vip)
        s == Min(FreeSlots(cs))
        id == GenerateUserID(cs)
    IN
    /\ ~TooSoon(p)
    /\ game' = after[2]
    /\ IF admitted = "full"
       THEN clients' = cs /\ UNCHANGED lastuserid
       ELSE /\ clients' =
                 [cs EXCEPT ![s] =
                    [state |-> "preconnected", peer |-> p, userid |-> id,
                     spectator |-> admitted # "player",
                     vip |-> vip \/ admitted = "rip_vip",
                     rip_vip |-> admitted = "rip_vip", bot |-> FALSE,
                     started |-> 0, silence |-> 0]]
            /\ lastuserid' = id
    /\ UNCHANGED paused

(* PF2_Add_Bot and PF2_Remove_Bot. *)
AddBot ==
    LET s == Min(FreeSlots(clients))
        id == GenerateUserID(clients)
    IN
    /\ PlayerCanConnect(clients)
    /\ FreeSlots(clients) # {}
    /\ clients' = [clients EXCEPT ![s] =
                     [Free EXCEPT !.state = "spawned", !.userid = id,
                                  !.bot = TRUE]]
    /\ lastuserid' = id
    /\ game' = [game EXCEPT ![s] = "player"]
    /\ UNCHANGED paused

-----------------------------------------------------------------------------
(* Commands.  A slot takes commands from its client in every state but     *)
(* free: SV_ExecuteClientMessage no longer turns zombies away              *)
(* (sv_user.c 3751).                                                       *)
Commands(s) == clients[s].state # "free" /\ ~clients[s].bot

(* SV_ReadPackets: a packet from p belongs to the first slot with its      *)
(* address and qport; the port follows the packet.                         *)
Heard(p) ==
    LET from == {s \in Slot : /\ Commands(s)
                              /\ clients[s].peer.ip = p.ip
                              /\ clients[s].peer.qport = p.qport}
    IN
    /\ from # {}
    /\ clients' = [clients EXCEPT ![Min(from)].silence = 0,
                                  ![Min(from)].peer = p]
    /\ UNCHANGED <<lastuserid, paused, game>>

(* Cmd_New_f, once the client's real address is settled: on the way to     *)
(* the game, or out again if it was let in on the promise of an address    *)
(* that is not on the list.                                                *)
New(s) ==
    LET c == [clients[s] EXCEPT
                !.silence = 0,
                !.started = IF clients[s].state = "connected" THEN 0 ELSE @]
        onlist == clients[s].peer \in Vip
    IN
    /\ Commands(s)
    /\ c.state # "spawned"
    /\ clients' =
          [clients EXCEPT ![s] =
             IF c.rip_vip /\ ~onlist THEN Dropped([c EXCEPT !.vip = FALSE])
             ELSE IF c.state = "preconnected"
             THEN [c EXCEPT !.state = "connected", !.rip_vip = FALSE,
                            !.vip = @ \/ onlist]
             ELSE c]
    /\ UNCHANGED <<lastuserid, paused, game>>

(* Cmd_Begin_f, for the level that is running. *)
Begin(s) ==
    /\ Commands(s)
    /\ clients[s].state # "spawned"
    /\ clients' = [clients EXCEPT ![s].state = "spawned", ![s].silence = 0]
    /\ game' = [game EXCEPT ![s] = Role(clients[s])]
    /\ UNCHANGED <<lastuserid, paused>>

(* Cmd_Join_f and Cmd_Observe_f: out of the game in one role and into it   *)
(* in the other.                                                           *)
ChangeRole(s, spectator) ==
    /\ clients' = [clients EXCEPT ![s].spectator = spectator,
                                  ![s].started = 0, ![s].silence = 0]
    /\ game' = [game EXCEPT ![s] = IF spectator THEN "spectator" ELSE "player"]
    /\ UNCHANGED <<lastuserid, paused>>

Join(s) ==
    /\ Commands(s)
    /\ clients[s].state = "spawned"
    /\ clients[s].spectator
    /\ clients[s].started >= JoinWait
    /\ PlayerCanConnect(clients)
    /\ ChangeRole(s, FALSE)

Observe(s) ==
    /\ Commands(s)
    /\ clients[s].state = "spawned"
    /\ ~clients[s].spectator
    /\ clients[s].started >= JoinWait
    /\ SpectatorCanConnect(clients, clients[s].vip)
    /\ ChangeRole(s, TRUE)

(* Cmd_Pause_f: any player, in any state. *)
Pause(s) ==
    /\ Commands(s)
    /\ ~clients[s].spectator
    /\ paused' = ~paused
    /\ clients' = [clients EXCEPT ![s].silence = 0]
    /\ UNCHANGED <<lastuserid, game>>

(* setpause() of the progs, with or without players. *)
PF_setpause ==
    /\ paused' = ~paused
    /\ UNCHANGED <<clients, lastuserid, game>>

(* Cmd_Drop_f, a kick, dropclient() of the progs: SV_DropClient. *)
Drop(s) ==
    /\ Live(clients[s])
    /\ clients' = [clients EXCEPT ![s] = Dropped(@)]
    /\ game' = [game EXCEPT ![s] = DroppedGame(s)]
    /\ UNCHANGED <<lastuserid, paused>>

-----------------------------------------------------------------------------
(* SV_SpawnServer: bots go, players start their signon again, and the      *)
(* progs start with nobody.                                                *)
SpawnServer ==
    /\ clients' = [s \in Slot |->
                     IF clients[s].bot THEN Free
                     ELSE IF clients[s].state = "spawned"
                     THEN [clients[s] EXCEPT !.state = "connected"]
                     ELSE clients[s]]
    /\ paused' = FALSE
    /\ game' = [s \in Slot |-> "none"]
    /\ UNCHANGED lastuserid

TimedOut(c) == Live(c) /\ ~c.bot /\ c.silence > Timeout

(* Mutant: a zombie is freed by the clock that runs on in a pause, and is  *)
(* counted as a player until then.                                         *)
CountedWithZombies(c) == c.state # "free" /\ ~c.bot /\ ~c.spectator

(* A player for whom the pause is kept. *)
Counted(c) == Live(c) /\ ~c.bot /\ ~c.spectator

(* Mutant: the time of the drop is not kept. *)
ExpiredNever(c) == c.state = "zombie" /\ c.started > ZombieTime + 1

Expired(c) == c.state = "zombie" /\ c.started > ZombieTime

(* The start of SV_Frame: time goes on, realtime only if not paused, then  *)
(* SV_CheckTimeouts.  To end a pause without players the progs are asked,  *)
(* if they have a GE_ShouldPause: they may refuse.                         *)
Frame(agrees) ==
    LET aged == [s \in Slot |->
                   IF clients[s].state = "free" \/ clients[s].bot
                   THEN clients[s]
                   ELSE [clients[s] EXCEPT
                           !.silence = IF Live(clients[s])
                                       THEN Older(@, Timeout + 1) ELSE 0,
                           !.started = IF paused THEN @ ELSE Older(@, MaxAge)]]
    IN
    /\ clients' = [s \in Slot |->
                     IF TimedOut(aged[s]) \/ Expired(aged[s]) THEN Free
                     ELSE aged[s]]
    /\ game' = [s \in Slot |->
                  IF TimedOut(aged[s]) THEN DroppedGame(s) ELSE game[s]]
    /\ paused' = (paused /\ ((\E s \in Slot : Counted(aged[s])) \/ ~agrees))
    /\ UNCHANGED lastuserid

-----------------------------------------------------------------------------
Next ==
    \/ \E p \in Address, asked \in Asked :
          \E vip \in (IF p \in Vip THEN BOOLEAN ELSE {FALSE}) :
             DirectConnect(p, asked, vip)
    \/ AddBot
    \/ \E p \in Address : Heard(p)
    \/ \E s \in Slot : \/ New(s) \/ Begin(s) \/ Join(s) \/ Observe(s)
                       \/ Pause(s) \/ Drop(s)
    \/ SpawnServer
    \/ PF_setpause
    \/ \E agrees \in BOOLEAN : Frame(agrees)

Spec == Init /\ [][Next]_vars

(* The main loop calls SV_Frame for ever; and progs that are asked whether *)
(* a pause may end do not refuse for ever.                                 *)
Fairness == WF_vars(Frame(TRUE))

-----------------------------------------------------------------------------
ClientType ==
    [state : {"free", "zombie", "preconnected", "connected", "spawned"},
     peer : Address \union {NoPeer}, userid : 0..MaxUserId, spectator : BOOLEAN,
     vip : BOOLEAN, rip_vip : BOOLEAN, bot : BOOLEAN,
     started : 0..MaxAge, silence : 0..(Timeout + 1)]

TypeOK ==
    /\ clients \in [Slot -> ClientType]
    /\ lastuserid \in 0..MaxUserId
    /\ paused \in BOOLEAN
    /\ game \in [Slot -> {"none", "player", "spectator"}]

(* No two slots in use have one userid, also after the numbers have gone   *)
(* round (sv_main.c 531): kick, ban and the score board go by it.          *)
UserIdsUnique ==
    \A s, t \in Slot :
        /\ clients[s].state # "free" /\ clients[t].state # "free"
        /\ clients[s].userid = clients[t].userid
        => s = t

(* Who has a spectator's seat, zombies among them: a client let in on the  *)
(* promise of a real address has none, also when it has been turned away   *)
(* and lingers.                                                            *)
Seated(cs) == {s \in Spectators(cs) : ~cs[s].rip_vip}

(* However clients connect, reconnect, join, observe and linger, there are *)
(* never more players than maxclients, nor more spectators on a seat that  *)
(* is not a VIP's than maxspectators, both with the zombies that keep      *)
(* theirs (sv_main.c 1084-1143; one who had the promise of a VIP's seat    *)
(* and comes back as a zombie is beyond it: see ZombieStaysDropped).       *)
WithinLimits ==
    /\ Cardinality(Players(clients)) <= MaxPlayers
    /\ Cardinality(Seated(clients)) <= MaxSpectators

(* The progs have an edict in the game exactly while its client is in the  *)
(* game, in the role the client has: every ClientConnect meets its         *)
(* ClientDisconnect before the slot, the role or the level changes.        *)
GameKnowsItsPlayers ==
    \A s \in Slot :
        game[s] = IF clients[s].state = "spawned" THEN Role(clients[s])
                  ELSE "none"

(* "we know who sent this packet" (sv_main.c 2948): no packet fits two     *)
(* slots, unless a router gives the port of one client to another that has *)
(* the same address: CheckReConnect then takes the second for the first    *)
(* (sv_main.c 1075) although its own slot is still there.                  *)
OneSlotPerClient ==
    \A s, t \in Slot :
        /\ clients[s].state # "free" /\ clients[t].state # "free"
        /\ ~clients[s].bot /\ ~clients[t].bot
        /\ clients[s].peer.ip = clients[t].peer.ip
        /\ clients[s].peer.qport = clients[t].peer.qport
        => s = t

(* A zombie's slot is free again in a while, unless the game is paused.    *)
ZombiesEnd ==
    \A s \in Slot : clients[s].state = "zombie" ~>
                        clients[s].state # "zombie" \/ paused

(* A pause that has no player left to end it ends by itself, although the  *)
(* last player may linger as a zombie whose own clock the pause has        *)
(* stopped, unless the progs refuse for ever (sv_main.c 3025-3036).        *)
PlayersLeft ==
    \E s \in Slot : /\ Live(clients[s])
                    /\ ~clients[s].bot
                    /\ ~clients[s].spectator
PauseEndsWithoutPlayers == paused /\ ~PlayersLeft ~> ~paused \/ PlayersLeft

(* "client has been disconnected, but don't reuse connection for a couple  *)
(* seconds" (server.h 146): a zombie does nothing but become free.         *)
ZombieStaysDropped ==
    [][\A s \in Slot :
          clients[s].state = "zombie" /\ clients'[s].userid = clients[s].userid
             => clients'[s].state \in {"zombie", "free"}]_vars
=============================================================================
