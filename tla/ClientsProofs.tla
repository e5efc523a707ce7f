---------------------------- MODULE ClientsProofs ----------------------------
(***************************************************************************)
(* Theorems about Clients: for any number of slots, remote ends and ids,   *)
(* whatever the limits and times are.                                      *)
(***************************************************************************)
EXTENDS Clients, FiniteSetTheorems, TLAPS

(* Among some numbers there is a first: the set of those up to it has no   *)
(* smaller one of its kind.                                                *)
LEMMA MinOfNaturals ==
    ASSUME NEW S \in SUBSET Nat, S # {}
    PROVE  Min(S) \in S /\ \A y \in S : Min(S) <= y
  <1> DEFINE upTo(k) == S \intersect (0..k)
             Starts == {upTo(k) : k \in S}
  <1>1. Starts \subseteq FiniteSubsetsOf(Nat) /\ Starts # {}
    <2>1. ASSUME NEW k \in S
          PROVE  IsFiniteSet(upTo(k)) /\ upTo(k) \subseteq Nat
      <3>1. IsFiniteSet(0..k)
        BY FS_Interval
      <3>2. upTo(k) \subseteq 0..k
        OBVIOUS
      <3> QED
        BY <3>1, <3>2, FS_Subset
    <2> QED
      BY <2>1 DEF FiniteSubsetsOf
  <1>2. \E A \in Starts : \A B \in Starts : ~(<<B, A>> \in StrictSubsetOrdering(Nat))
    BY <1>1, WFMin, FS_StrictSubsetOrderingWellFounded
  <1>3. PICK m \in S : \A k \in S : ~(<<upTo(k), upTo(m)>> \in StrictSubsetOrdering(Nat))
    BY <1>2
  <1>4. \A k \in S : m <= k
    <2> SUFFICES ASSUME NEW k \in S, k < m PROVE FALSE
      OBVIOUS
    <2>1. upTo(k) \subseteq upTo(m) /\ m \in upTo(m) /\ m \notin upTo(k)
      OBVIOUS
    <2>2. upTo(k) \in SUBSET Nat /\ upTo(m) \in SUBSET Nat
      OBVIOUS
    <2> QED
      BY <1>3, <2>1, <2>2 DEF StrictSubsetOrdering
  <1>5. \E x \in S : \A y \in S : x <= y
    BY <1>4
  <1> QED
    BY <1>5 DEF Min

(* % where the count goes round at most once. *)
LEMMA GoesRound ==
    ASSUME NEW m \in Nat \ {0}, NEW x \in 0..(2 * m - 1)
    PROVE  x % m = IF x < m THEN x ELSE x - m
  OBVIOUS

(* SV_GenerateUserID always finds an id, and one that no slot in use has.  *)
LEMMA UserIdFresh ==
    ASSUME NEW cs \in [Slot -> ClientType], lastuserid \in 0..MaxUserId
    PROVE  /\ GenerateUserID(cs) \in 1..MaxUserId
           /\ ~UserIdTaken(cs, GenerateUserID(cs))
  <1> DEFINE After(n) == ((lastuserid + n - 1) % MaxUserId) + 1
             Fresh == {n \in 1..MaxUserId : ~UserIdTaken(cs, After(n))}
  <1>1. MaxUserId \in Nat \ {0} /\ MaxSlot \in Nat /\ MaxSlot < MaxUserId
    BY LimitsAssumption, MaxUserIdAssumption
  <1>2. \E id \in 1..MaxUserId : ~UserIdTaken(cs, id)
    <2> SUFFICES ASSUME \A id \in 1..MaxUserId : UserIdTaken(cs, id)
                 PROVE  FALSE
      OBVIOUS
    <2> DEFINE holder == [id \in 1..MaxUserId |-> CHOOSE s \in Slot : cs[s].userid = id]
    <2>1. \A id \in 1..MaxUserId : \E s \in Slot : cs[s].userid = id
      BY DEF UserIdTaken
    <2>2. \A id \in 1..MaxUserId : holder[id] \in Slot /\ cs[holder[id]].userid = id
      BY <2>1
    <2>3. holder \in [1..MaxUserId -> Slot]
      BY <2>2
    <2>4. /\ IsFiniteSet(1..MaxUserId) /\ Cardinality(1..MaxUserId) = MaxUserId
          /\ IsFiniteSet(Slot) /\ Cardinality(Slot) = MaxSlot
      BY <1>1, FS_Interval DEF Slot
    <2> HIDE DEF holder
    <2>5. \E x, y \in 1..MaxUserId : x # y /\ holder[x] = holder[y]
      BY <1>1, <2>3, <2>4, FS_PigeonHole
    <2> QED
      BY <2>2, <2>5
  <1>3. \A id \in 1..MaxUserId : \E n \in 1..MaxUserId : After(n) = id
    <2> TAKE id \in 1..MaxUserId
    <2>1. CASE id > lastuserid
      <3>1. After(id - lastuserid) = ((id - 1) % MaxUserId) + 1
        OBVIOUS
      <3>2. id - 1 \in 0..(2 * MaxUserId - 1)
        BY <1>1
      <3>3. (id - 1) % MaxUserId =
               IF id - 1 < MaxUserId THEN id - 1 ELSE (id - 1) - MaxUserId
        BY <1>1, <3>2, GoesRound, Zenon
      <3>4. id - lastuserid \in 1..MaxUserId /\ After(id - lastuserid) = id
        BY <1>1, <2>1, <3>1, <3>3
      <3> QED
        BY <3>4
    <2>2. CASE id <= lastuserid
      <3>1. After(id - lastuserid + MaxUserId) = ((id - 1 + MaxUserId) % MaxUserId) + 1
        BY <1>1
      <3>2. id - 1 + MaxUserId \in 0..(2 * MaxUserId - 1)
        BY <1>1
      <3>3. (id - 1 + MaxUserId) % MaxUserId =
               IF id - 1 + MaxUserId < MaxUserId THEN id - 1 + MaxUserId
               ELSE (id - 1 + MaxUserId) - MaxUserId
        BY <1>1, <3>2, GoesRound, Zenon
      <3>4. /\ id - lastuserid + MaxUserId \in 1..MaxUserId
            /\ After(id - lastuserid + MaxUserId) = id
        BY <1>1, <2>2, <3>1, <3>3
      <3> QED
        BY <3>4
    <2> QED
      BY <1>1, <2>1, <2>2
  <1>4. \A n \in 1..MaxUserId : After(n) \in 1..MaxUserId
    BY <1>1
  <1>5. Fresh \in SUBSET Nat /\ Fresh # {}
    BY <1>2, <1>3
  <1>6. Min(Fresh) \in Fresh
    BY <1>5, MinOfNaturals
  <1>7. GenerateUserID(cs) = After(Min(Fresh))
    BY DEF GenerateUserID
  <1> QED
    BY <1>4, <1>6, <1>7

-----------------------------------------------------------------------------
(* Types. *)

Roles == {"none", "player", "spectator"}

LEMMA MaxAgeType == MaxAge \in Nat /\ JoinWait <= MaxAge
  <1> DEFINE S == {ZombieTime, ReconnectLimit, JoinWait}
  <1>1. ZombieTime \in Nat /\ ReconnectLimit \in Nat /\ JoinWait \in Nat
    BY TimesAssumption
  <1>2. \E x \in S : \A y \in S : x >= y
    BY <1>1
  <1>3. Max(S) \in S /\ \A y \in S : Max(S) >= y
    BY <1>2 DEF Max
  <1> QED
    BY <1>1, <1>3 DEF MaxAge

LEMMA OlderType ==
    ASSUME NEW max \in Nat, NEW age \in 0..max
    PROVE  Older(age, max) \in 0..max
  BY DEF Older

LEMMA FreeType == Free \in ClientType
  <1>1. MaxUserId \in Nat /\ Timeout \in Nat
    BY MaxUserIdAssumption, TimesAssumption
  <1> QED
    BY <1>1, MaxAgeType DEF Free, ClientType

LEMMA DroppedType ==
    ASSUME NEW c \in ClientType
    PROVE  /\ Dropped(c) \in ClientType
           /\ Dropped(c).state # "spawned"
           /\ Dropped(c).state # "free" => Dropped(c).userid = c.userid
  <1>1. CASE c.bot
    BY <1>1, FreeType DEF Dropped, Free
  <1>2. CASE ~c.bot
    <2>1. Dropped(c) = [c EXCEPT !.state = "zombie", !.started = 0]
      BY <1>2 DEF Dropped
    <2>2. Dropped(c) \in ClientType
      <3>1. 0 \in 0..MaxAge
        BY MaxAgeType
      <3> QED
        BY <2>1, <3>1 DEF ClientType
    <2>3. Dropped(c).state = "zombie" /\ Dropped(c).userid = c.userid
      BY <2>1 DEF ClientType
    <2> QED
      BY <2>2, <2>3
  <1> QED
    BY <1>1, <1>2

LEMMA RoleType == \A c \in ClientType : Role(c) \in Roles
  BY DEF Role, Roles

-----------------------------------------------------------------------------
(* The parts of the invariant, for clients cs and the progs' view g of     *)
(* them.                                                                   *)

Knows(cs, g) ==
    \A s \in Slot : g[s] = IF cs[s].state = "spawned" THEN Role(cs[s]) ELSE "none"

(* Whoever has an id in cs has had it before. *)
KeepsIds(cs) ==
    \A s \in Slot : cs[s].state # "free" =>
        clients[s].state # "free" /\ cs[s].userid = clients[s].userid

ClientsInv == TypeOK /\ UserIdsUnique /\ GameKnowsItsPlayers

LEMMA IdsKept ==
    ASSUME UserIdsUnique, KeepsIds(clients')
    PROVE  UserIdsUnique'
  BY DEF UserIdsUnique, KeepsIds

LEMMA IdGiven ==
    ASSUME UserIdsUnique, NEW cs, KeepsIds(cs), NEW t \in Slot,
           ~UserIdTaken(cs, clients'[t].userid),
           \A s \in Slot \ {t} : clients'[s] = cs[s]
    PROVE  UserIdsUnique'
  <1> SUFFICES ASSUME NEW r \in Slot, NEW s \in Slot,
                      clients'[r].state # "free", clients'[s].state # "free",
                      clients'[r].userid = clients'[s].userid
               PROVE  r = s
    BY DEF UserIdsUnique
  <1>1. CASE r # t /\ s # t
    BY <1>1 DEF UserIdsUnique, KeepsIds
  <1>2. CASE r = t \/ s = t
    BY <1>2 DEF UserIdTaken
  <1> QED
    BY <1>1, <1>2

(* CheckReConnect. *)
LEMMA ReconnectKeeps ==
    ASSUME ClientsInv, NEW p
    PROVE  /\ Reconnect(p)[1] \in [Slot -> ClientType]
           /\ Reconnect(p)[2] \in [Slot -> Roles]
           /\ KeepsIds(Reconnect(p)[1])
           /\ Knows(Reconnect(p)[1], Reconnect(p)[2])
  <1>1. /\ clients \in [Slot -> ClientType] /\ game \in [Slot -> Roles]
        /\ Knows(clients, game)
    BY DEF ClientsInv, TypeOK, Roles, GameKnowsItsPlayers, Knows
  <1>2. CASE Matching(p) = {}
    BY <1>1, <1>2 DEF Reconnect, KeepsIds
  <1>3. CASE Matching(p) # {}
    <2> DEFINE t == Min(Matching(p))
    <2>1. t \in Slot /\ clients[t].state # "free"
      <3>1. Matching(p) \in SUBSET Nat
        BY LimitsAssumption DEF Matching, Slot
      <3>2. t \in Matching(p)
        BY <1>3, <3>1, MinOfNaturals
      <3> QED
        BY <3>2 DEF Matching
    <2> HIDE DEF t
    <2>2. /\ Reconnect(p)[1] = [clients EXCEPT ![t] = Free]
          /\ Reconnect(p)[2] =
                [game EXCEPT ![t] = IF Live(clients[t]) THEN DroppedGame(t) ELSE game[t]]
      BY <1>3 DEF Reconnect, t
    <2>3. (IF Live(clients[t]) THEN DroppedGame(t) ELSE game[t]) = "none"
      BY <1>1, <2>1 DEF Live, DroppedGame, Knows, ClientType
    <2>4. Free.state = "free"
      BY DEF Free
    <2>5. Reconnect(p)[1] \in [Slot -> ClientType]
      BY <1>1, <2>2, FreeType
    <2>6. Reconnect(p)[2] \in [Slot -> Roles]
      BY <1>1, <2>2, <2>3 DEF Roles
    <2>7. KeepsIds(Reconnect(p)[1])
      BY <1>1, <2>2, <2>4 DEF KeepsIds
    <2>8. Knows(Reconnect(p)[1], Reconnect(p)[2])
      BY <1>1, <2>2, <2>3, <2>4 DEF Knows
    <2> QED
      BY <2>5, <2>6, <2>7, <2>8
  <1> QED
    BY <1>2, <1>3

(* SVC_DirectConnect. *)
LEMMA DirectConnectKeeps ==
    ASSUME ClientsInv, NEW p \in Address, NEW asked \in Asked, NEW vip \in BOOLEAN,
           DirectConnect(p, asked, vip)
    PROVE  ClientsInv'
  <1> DEFINE cs == Reconnect(p)[1]
             t == Min(FreeSlots(cs))
             id == GenerateUserID(cs)
             admitted == Admission(cs, asked, vip)
             new == [state |-> "preconnected", peer |-> p, userid |-> id,
                     spectator |-> admitted # "player",
                     vip |-> vip \/ admitted = "rip_vip",
                     rip_vip |-> admitted = "rip_vip", bot |-> FALSE,
                     started |-> 0, silence |-> 0]
  <1>0. IF admitted = "full"
        THEN clients' = cs /\ UNCHANGED lastuserid
        ELSE clients' = [cs EXCEPT ![t] = new] /\ lastuserid' = id
    BY Zenon DEF DirectConnect
  <1>1. /\ cs \in [Slot -> ClientType] /\ game' \in [Slot -> Roles]
        /\ KeepsIds(cs) /\ Knows(cs, game')
    BY ReconnectKeeps DEF DirectConnect
  <1>2. /\ lastuserid \in 0..MaxUserId /\ paused' \in BOOLEAN /\ UserIdsUnique
    BY DEF ClientsInv, TypeOK, DirectConnect
  <1>3. id \in 1..MaxUserId /\ ~UserIdTaken(cs, id)
    BY <1>1, <1>2, UserIdFresh
  <1> HIDE DEF cs, id
  <1>4. CASE admitted = "full"
    <2>1. clients' = cs /\ lastuserid' = lastuserid
      BY <1>0, <1>4
    <2> QED
      BY <1>1, <1>2, <2>1, IdsKept DEF ClientsInv, TypeOK, Roles, Knows, GameKnowsItsPlayers
  <1>5. CASE admitted # "full"
    <2>1. clients' = [cs EXCEPT ![t] = new] /\ lastuserid' = id
      BY <1>0, <1>5
    <2>2. t \in FreeSlots(cs)
      <3>1. FreeSlots(cs) # {}
        BY <1>5 DEF Admission
      <3>2. FreeSlots(cs) \in SUBSET Nat
        BY LimitsAssumption DEF FreeSlots, Slot
      <3> QED
        BY <3>1, <3>2, MinOfNaturals
    <2>3. t \in Slot /\ cs[t].state = "free"
      BY <2>2 DEF FreeSlots
    <2>4. new \in ClientType
      <3>1. id \in 0..MaxUserId /\ Timeout \in Nat
        BY <1>3, TimesAssumption
      <3> HIDE DEF admitted
      <3> QED
        BY <3>1, MaxAgeType DEF ClientType
    <2>5. new.userid = id /\ new.state = "preconnected"
      OBVIOUS
    <2> HIDE DEF new, t, admitted
    <2>6. clients'[t] = new /\ \A s \in Slot \ {t} : clients'[s] = cs[s]
      BY <1>1, <2>1, <2>3
    <2>7. UserIdsUnique'
      BY <1>1, <1>2, <1>3, <2>3, <2>5, <2>6, IdGiven
    <2>8. GameKnowsItsPlayers'
      BY <1>1, <2>3, <2>5, <2>6 DEF GameKnowsItsPlayers, Knows
    <2>9. TypeOK'
      <3>1. clients' \in [Slot -> ClientType]
        BY <1>1, <2>1, <2>4
      <3>2. lastuserid' \in 0..MaxUserId
        BY <1>3, <2>1, MaxUserIdAssumption
      <3> QED
        BY <1>1, <1>2, <3>1, <3>2 DEF TypeOK, Roles
    <2> QED
      BY <2>7, <2>8, <2>9 DEF ClientsInv
  <1> QED
    BY <1>4, <1>5

-----------------------------------------------------------------------------
(* A step of one client, which has a slot. *)
LEMMA OneClientKeeps ==
    ASSUME ClientsInv, NEW t \in Slot, NEW c \in ClientType,
           clients' = [clients EXCEPT ![t] = c],
           c.state # "free" => clients[t].state # "free" /\ c.userid = clients[t].userid,
           game' = [game EXCEPT ![t] =
                      IF c.state = "spawned" THEN Role(c) ELSE "none"],
           lastuserid' = lastuserid, paused' \in BOOLEAN
    PROVE  ClientsInv'
  <1>1. /\ clients \in [Slot -> ClientType] /\ game \in [Slot -> Roles]
        /\ UserIdsUnique /\ Knows(clients, game)
    BY DEF ClientsInv, TypeOK, Roles, GameKnowsItsPlayers, Knows
  <1>2. /\ clients'[t] = c
        /\ \A s \in Slot \ {t} : clients'[s] = clients[s]
    BY <1>1
  <1>3. UserIdsUnique'
    <2>1. KeepsIds(clients')
      BY <1>2 DEF KeepsIds
    <2> QED
      BY <1>1, <2>1, IdsKept
  <1>4. Knows(clients', game')
    BY <1>1, <1>2 DEF Knows
  <1>5. clients' \in [Slot -> ClientType]
    BY <1>1
  <1>6. game' \in [Slot -> Roles]
    <2>1. (IF c.state = "spawned" THEN Role(c) ELSE "none") \in Roles
      BY RoleType DEF Roles
    <2> QED
      BY <1>1, <2>1
  <1> QED
    BY <1>3, <1>4, <1>5, <1>6 DEF ClientsInv, TypeOK, Roles, GameKnowsItsPlayers, Knows

(* The same, with no change to what the progs know. *)
LEMMA OneClientUnknown ==
    ASSUME ClientsInv, NEW t \in Slot, NEW c \in ClientType,
           clients' = [clients EXCEPT ![t] = c],
           c.state # "free" => clients[t].state # "free" /\ c.userid = clients[t].userid,
           (IF c.state = "spawned" THEN Role(c) ELSE "none") =
               IF clients[t].state = "spawned" THEN Role(clients[t]) ELSE "none",
           game' = game, lastuserid' = lastuserid, paused' \in BOOLEAN
    PROVE  ClientsInv'
  <1>1. game \in [Slot -> Roles] /\ Knows(clients, game)
    BY DEF ClientsInv, TypeOK, Roles, GameKnowsItsPlayers, Knows
  <1>2. game[t] = IF c.state = "spawned" THEN Role(c) ELSE "none"
    BY <1>1 DEF Knows
  <1>3. [game EXCEPT ![t] = game[t]] = game
    BY <1>1
  <1>4. game' = [game EXCEPT ![t] = IF c.state = "spawned" THEN Role(c) ELSE "none"]
    BY <1>2, <1>3
  <1> QED
    BY <1>4, OneClientKeeps

(* PF2_Add_Bot. *)
LEMMA AddBotKeeps == ASSUME ClientsInv, AddBot PROVE ClientsInv'
  <1> DEFINE t == Min(FreeSlots(clients))
             id == GenerateUserID(clients)
             bot == [Free EXCEPT !.state = "spawned", !.userid = id, !.bot = TRUE]
  <1>1. /\ clients \in [Slot -> ClientType] /\ game \in [Slot -> Roles]
        /\ UserIdsUnique /\ Knows(clients, game)
        /\ lastuserid \in 0..MaxUserId /\ paused \in BOOLEAN
    BY DEF ClientsInv, TypeOK, Roles, GameKnowsItsPlayers, Knows
  <1>2. t \in Slot
    <2>1. FreeSlots(clients) \in SUBSET Nat /\ FreeSlots(clients) # {}
      BY LimitsAssumption DEF AddBot, FreeSlots, Slot
    <2>2. t \in FreeSlots(clients)
      BY <2>1, MinOfNaturals
    <2> QED
      BY <2>2 DEF FreeSlots
  <1>3. /\ clients' = [clients EXCEPT ![t] = bot] /\ lastuserid' = id
        /\ game' = [game EXCEPT ![t] = "player"] /\ paused' = paused
    BY DEF AddBot
  <1>4. id \in 1..MaxUserId /\ ~UserIdTaken(clients, id)
    BY <1>1, UserIdFresh
  <1> HIDE DEF t, id
  <1>5. /\ bot \in ClientType /\ bot.state = "spawned" /\ bot.userid = id
        /\ Role(bot) = "player"
    <2>1. id \in 0..MaxUserId
      BY <1>4
    <2>2. bot.state = "spawned" /\ bot.userid = id /\ bot.spectator = FALSE
      BY DEF Free
    <2>3. bot \in ClientType
      BY <2>1, FreeType DEF ClientType
    <2> QED
      BY <2>2, <2>3 DEF Role
  <1> HIDE DEF bot
  <1>6. clients'[t] = bot /\ \A s \in Slot \ {t} : clients'[s] = clients[s]
    BY <1>1, <1>2, <1>3
  <1>7. UserIdsUnique'
    <2>1. KeepsIds(clients)
      BY DEF KeepsIds
    <2> QED
      BY <1>1, <1>2, <1>4, <1>5, <1>6, <2>1, IdGiven
  <1>8. Knows(clients', game')
    BY <1>1, <1>2, <1>3, <1>5, <1>6 DEF Knows
  <1>9. clients' \in [Slot -> ClientType] /\ game' \in [Slot -> Roles]
    BY <1>1, <1>2, <1>3, <1>5 DEF Roles
  <1>10. lastuserid' \in 0..MaxUserId
    BY <1>3, <1>4
  <1> QED
    BY <1>1, <1>3, <1>7, <1>8, <1>9, <1>10
       DEF ClientsInv, TypeOK, Roles, GameKnowsItsPlayers, Knows

(* A packet of a client. *)
LEMMA HeardKeeps == ASSUME ClientsInv, NEW p \in Address, Heard(p) PROVE ClientsInv'
  <1> DEFINE from == {s \in Slot : /\ Commands(s)
                                   /\ clients[s].peer.ip = p.ip
                                   /\ clients[s].peer.qport = p.qport}
             t == Min(from)
             c == [clients[t] EXCEPT !.silence = 0, !.peer = p]
  <1>1. clients \in [Slot -> ClientType] /\ paused \in BOOLEAN
    BY DEF ClientsInv, TypeOK
  <1>2. t \in Slot
    <2>1. from \in SUBSET Nat /\ from # {}
      BY LimitsAssumption DEF Heard, Slot
    <2>2. t \in from
      BY <2>1, MinOfNaturals
    <2> QED
      BY <2>2
  <1>3. /\ clients' = [clients EXCEPT ![t].silence = 0, ![t].peer = p]
        /\ game' = game /\ lastuserid' = lastuserid /\ paused' = paused
    BY Zenon DEF Heard
  <1> HIDE DEF from, t
  <1>4. clients' = [clients EXCEPT ![t] = c]
    BY <1>1, <1>2, <1>3
  <1>5. clients[t] \in ClientType
    BY <1>1, <1>2
  <1>6. c \in ClientType /\ c.state = clients[t].state /\ c.userid = clients[t].userid
        /\ c.spectator = clients[t].spectator
    <2>1. 0 \in 0..(Timeout + 1)
      BY TimesAssumption
    <2> QED
      BY <1>5, <2>1 DEF ClientType
  <1> HIDE DEF c
  <1> QED
    BY <1>1, <1>2, <1>3, <1>4, <1>6, OneClientUnknown DEF Role

-----------------------------------------------------------------------------
(* The commands. *)

LEMMA NewKeeps == ASSUME ClientsInv, NEW t \in Slot, New(t) PROVE ClientsInv'
  <1> DEFINE c == [clients[t] EXCEPT
                     !.silence = 0,
                     !.started = IF clients[t].state = "connected" THEN 0 ELSE @]
             onlist == clients[t].peer \in Vip
             unpromised == [c EXCEPT !.vip = FALSE]
             settled == [c EXCEPT !.state = "connected", !.rip_vip = FALSE,
                                  !.vip = @ \/ onlist]
             r == IF c.rip_vip /\ ~onlist THEN Dropped(unpromised)
                  ELSE IF c.state = "preconnected" THEN settled ELSE c
  <1>1. /\ clients \in [Slot -> ClientType] /\ paused \in BOOLEAN
        /\ clients[t] \in ClientType
    BY DEF ClientsInv, TypeOK
  <1>2. /\ clients[t].state # "free" /\ c.state # "spawned"
        /\ clients' = [clients EXCEPT ![t] = r]
        /\ game' = game /\ lastuserid' = lastuserid /\ paused' = paused
    BY DEF New, Commands
  <1>3. /\ c \in ClientType /\ c.state = clients[t].state
        /\ c.userid = clients[t].userid
    <2>1. 0 \in 0..(Timeout + 1) /\ 0 \in 0..MaxAge
      BY TimesAssumption, MaxAgeType
    <2>2. (IF clients[t].state = "connected" THEN 0 ELSE clients[t].started) \in 0..MaxAge
      BY <1>1, <2>1 DEF ClientType
    <2> QED
      BY <1>1, <2>1, <2>2 DEF ClientType
  <1> HIDE DEF c
  <1>4. unpromised \in ClientType /\ unpromised.userid = c.userid
    BY <1>3 DEF ClientType
  <1>5. /\ settled \in ClientType /\ settled.userid = c.userid
        /\ settled.state = "connected"
    <2>1. (c.vip \/ onlist) \in BOOLEAN
      OBVIOUS
    <2> HIDE DEF onlist
    <2> QED
      BY <1>3, <2>1 DEF ClientType
  <1> HIDE DEF unpromised, settled
  <1>6. /\ r \in ClientType /\ r.state # "spawned"
        /\ r.state # "free" => r.userid = clients[t].userid
    BY <1>2, <1>3, <1>4, <1>5, DroppedType
  <1> HIDE DEF r
  <1>7. clients[t].state # "spawned"
    BY <1>2, <1>3
  <1> QED
    BY <1>1, <1>2, <1>6, <1>7, OneClientUnknown

LEMMA BeginKeeps == ASSUME ClientsInv, NEW t \in Slot, Begin(t) PROVE ClientsInv'
  <1> DEFINE c == [clients[t] EXCEPT !.state = "spawned", !.silence = 0]
  <1>1. /\ clients \in [Slot -> ClientType] /\ paused \in BOOLEAN
        /\ clients[t] \in ClientType
    BY DEF ClientsInv, TypeOK
  <1>2. /\ clients[t].state # "free"
        /\ clients' = [clients EXCEPT ![t].state = "spawned", ![t].silence = 0]
        /\ game' = [game EXCEPT ![t] = Role(clients[t])]
        /\ lastuserid' = lastuserid /\ paused' = paused
    BY DEF Begin, Commands
  <1>3. clients' = [clients EXCEPT ![t] = c]
    BY <1>1, <1>2
  <1>4. /\ c \in ClientType /\ c.state = "spawned"
        /\ c.userid = clients[t].userid /\ Role(c) = Role(clients[t])
    <2>1. 0 \in 0..(Timeout + 1)
      BY TimesAssumption
    <2> QED
      BY <1>1, <2>1 DEF ClientType, Role
  <1> HIDE DEF c
  <1> QED
    BY <1>1, <1>2, <1>3, <1>4, OneClientKeeps

LEMMA ChangeRoleKeeps ==
    ASSUME ClientsInv, NEW t \in Slot, NEW spectator \in BOOLEAN,
           clients[t].state = "spawned", ChangeRole(t, spectator)
    PROVE  ClientsInv'
  <1> DEFINE c == [clients[t] EXCEPT !.spectator = spectator,
                                     !.started = 0, !.silence = 0]
  <1>1. /\ clients \in [Slot -> ClientType] /\ paused \in BOOLEAN
        /\ clients[t] \in ClientType
    BY DEF ClientsInv, TypeOK
  <1>2. /\ clients' = [clients EXCEPT ![t].spectator = spectator,
                                      ![t].started = 0, ![t].silence = 0]
        /\ game' = [game EXCEPT ![t] = IF spectator THEN "spectator" ELSE "player"]
        /\ lastuserid' = lastuserid /\ paused' = paused
    BY DEF ChangeRole
  <1>3. clients' = [clients EXCEPT ![t] = c]
    BY <1>1, <1>2
  <1>4. /\ c \in ClientType /\ c.state = "spawned"
        /\ c.userid = clients[t].userid
        /\ Role(c) = IF spectator THEN "spectator" ELSE "player"
    <2>1. 0 \in 0..(Timeout + 1) /\ 0 \in 0..MaxAge
      BY TimesAssumption, MaxAgeType
    <2> QED
      BY <1>1, <2>1 DEF ClientType, Role
  <1> HIDE DEF c
  <1> QED
    BY <1>1, <1>2, <1>3, <1>4, OneClientKeeps

LEMMA PauseKeeps == ASSUME ClientsInv, NEW t \in Slot, Pause(t) PROVE ClientsInv'
  <1> DEFINE c == [clients[t] EXCEPT !.silence = 0]
  <1>1. clients \in [Slot -> ClientType] /\ clients[t] \in ClientType
    BY DEF ClientsInv, TypeOK
  <1>2. /\ clients[t].state # "free"
        /\ clients' = [clients EXCEPT ![t].silence = 0]
        /\ game' = game /\ lastuserid' = lastuserid /\ paused' \in BOOLEAN
    BY DEF Pause, Commands
  <1>3. clients' = [clients EXCEPT ![t] = c]
    BY <1>1, <1>2
  <1>4. /\ c \in ClientType /\ c.state = clients[t].state
        /\ c.userid = clients[t].userid /\ Role(c) = Role(clients[t])
    <2>1. 0 \in 0..(Timeout + 1)
      BY TimesAssumption
    <2> QED
      BY <1>1, <2>1 DEF ClientType, Role
  <1> HIDE DEF c
  <1> QED
    BY <1>1, <1>2, <1>3, <1>4, OneClientUnknown

LEMMA DropKeeps == ASSUME ClientsInv, NEW t \in Slot, Drop(t) PROVE ClientsInv'
  <1>1. /\ clients \in [Slot -> ClientType] /\ paused \in BOOLEAN
        /\ clients[t] \in ClientType /\ Knows(clients, game)
    BY DEF ClientsInv, TypeOK, GameKnowsItsPlayers, Knows
  <1>2. /\ clients[t].state # "free"
        /\ clients' = [clients EXCEPT ![t] = Dropped(clients[t])]
        /\ game' = [game EXCEPT ![t] = DroppedGame(t)]
        /\ lastuserid' = lastuserid /\ paused' = paused
    BY DEF Drop, Live
  <1>3. DroppedGame(t) = "none"
    BY <1>1 DEF DroppedGame, Knows
  <1>4. /\ Dropped(clients[t]) \in ClientType
        /\ Dropped(clients[t]).state # "spawned"
        /\ Dropped(clients[t]).state # "free" =>
              Dropped(clients[t]).userid = clients[t].userid
    BY <1>1, DroppedType
  <1>5. game' = [game EXCEPT ![t] = IF Dropped(clients[t]).state = "spawned"
                                    THEN Role(Dropped(clients[t])) ELSE "none"]
    BY <1>2, <1>3, <1>4
  <1> QED
    BY <1>1, <1>2, <1>4, <1>5, OneClientKeeps

-----------------------------------------------------------------------------
(* The steps of all clients at once. *)

LEMMA SpawnServerKeeps == ASSUME ClientsInv, SpawnServer PROVE ClientsInv'
  <1>1. clients \in [Slot -> ClientType] /\ UserIdsUnique
    BY DEF ClientsInv, TypeOK
  <1>2. /\ clients' = [s \in Slot |->
                         IF clients[s].bot THEN Free
                         ELSE IF clients[s].state = "spawned"
                         THEN [clients[s] EXCEPT !.state = "connected"]
                         ELSE clients[s]]
        /\ paused' = FALSE /\ game' = [s \in Slot |-> "none"]
        /\ lastuserid' = lastuserid
    BY DEF SpawnServer
  <1>3. ASSUME NEW s \in Slot
        PROVE  /\ clients'[s] \in ClientType
               /\ clients'[s].state # "spawned"
               /\ clients'[s].state # "free" =>
                     /\ clients[s].state # "free"
                     /\ clients'[s].userid = clients[s].userid
    <2>1. CASE clients[s].bot
      BY <1>2, <2>1, FreeType DEF Free
    <2>2. CASE ~clients[s].bot
      BY <1>1, <1>2, <2>2 DEF ClientType
    <2> QED
      BY <2>1, <2>2
  <1>4. clients' \in [Slot -> ClientType]
    BY <1>2, <1>3
  <1>5. KeepsIds(clients')
    BY <1>3 DEF KeepsIds
  <1>6. GameKnowsItsPlayers'
    BY <1>2, <1>3 DEF GameKnowsItsPlayers
  <1> QED
    BY <1>1, <1>2, <1>4, <1>5, <1>6, IdsKept DEF ClientsInv, TypeOK

LEMMA FrameKeeps ==
    ASSUME ClientsInv, NEW agrees \in BOOLEAN, Frame(agrees) PROVE ClientsInv'
  <1> DEFINE aged == [s \in Slot |->
                   IF clients[s].state = "free" \/ clients[s].bot
                   THEN clients[s]
                   ELSE [clients[s] EXCEPT
                           !.silence = IF Live(clients[s])
                                       THEN Older(@, Timeout + 1) ELSE 0,
                           !.started = IF paused THEN @ ELSE Older(@, MaxAge)]]
  <1>1. /\ clients \in [Slot -> ClientType] /\ UserIdsUnique
        /\ game \in [Slot -> Roles] /\ Knows(clients, game)
        /\ paused \in BOOLEAN
    BY DEF ClientsInv, TypeOK, Roles, GameKnowsItsPlayers, Knows
  <1>2. /\ clients' = [s \in Slot |->
                         IF TimedOut(aged[s]) \/ Expired(aged[s]) THEN Free
                         ELSE aged[s]]
        /\ game' = [s \in Slot |->
                      IF TimedOut(aged[s]) THEN DroppedGame(s) ELSE game[s]]
        /\ paused' = (paused /\ ((\E s \in Slot : Counted(aged[s])) \/ ~agrees))
        /\ lastuserid' = lastuserid
    BY DEF Frame
  <1>3. ASSUME NEW s \in Slot
        PROVE  /\ aged[s] \in ClientType
               /\ aged[s].state = clients[s].state
               /\ aged[s].userid = clients[s].userid
               /\ aged[s].spectator = clients[s].spectator
    <2>1. CASE clients[s].state = "free" \/ clients[s].bot
      BY <1>1, <2>1
    <2>2. CASE ~(clients[s].state = "free" \/ clients[s].bot)
      <3> DEFINE silence == IF Live(clients[s])
                            THEN Older(clients[s].silence, Timeout + 1) ELSE 0
                 started == IF paused THEN clients[s].started
                            ELSE Older(clients[s].started, MaxAge)
      <3>1. clients[s] \in ClientType
        BY <1>1
      <3>2. /\ clients[s].silence \in 0..(Timeout + 1) /\ Timeout + 1 \in Nat
            /\ clients[s].started \in 0..MaxAge
        BY <3>1, TimesAssumption DEF ClientType
      <3>3. silence \in 0..(Timeout + 1) /\ started \in 0..MaxAge
        BY <3>2, OlderType, MaxAgeType
      <3>4. aged[s] = [clients[s] EXCEPT !.silence = silence, !.started = started]
        BY <2>2
      <3> HIDE DEF silence, started, aged
      <3> QED
        BY <3>1, <3>3, <3>4 DEF ClientType
    <2> QED
      BY <2>1, <2>2
  <1> HIDE DEF aged
  <1>4. ASSUME NEW s \in Slot
        PROVE  /\ clients'[s] \in ClientType
               /\ clients'[s].state # "free" =>
                     /\ clients[s].state # "free"
                     /\ clients'[s].userid = clients[s].userid
               /\ game'[s] = IF clients'[s].state = "spawned"
                             THEN Role(clients'[s]) ELSE "none"
               /\ game'[s] \in Roles
    <2>1. CASE TimedOut(aged[s])
      <3>1. clients'[s] = Free /\ game'[s] = DroppedGame(s)
        BY <1>2, <2>1
      <3>2. DroppedGame(s) = "none"
        BY <1>1 DEF DroppedGame, Knows
      <3> QED
        BY <3>1, <3>2, FreeType DEF Free, Roles
    <2>2. CASE ~TimedOut(aged[s]) /\ Expired(aged[s])
      <3>1. clients'[s] = Free /\ game'[s] = game[s]
        BY <1>2, <2>2
      <3>2. game[s] = "none"
        BY <1>1, <1>3, <2>2 DEF Expired, Knows
      <3> QED
        BY <3>1, <3>2, FreeType DEF Free, Roles
    <2>3. CASE ~TimedOut(aged[s]) /\ ~Expired(aged[s])
      <3>1. clients'[s] = aged[s] /\ game'[s] = game[s]
        BY <1>2, <2>3
      <3> QED
        BY <1>1, <1>3, <3>1 DEF Knows, Role
    <2> QED
      BY <2>1, <2>2, <2>3
  <1>5. clients' \in [Slot -> ClientType] /\ game' \in [Slot -> Roles]
    BY <1>2, <1>4
  <1>6. KeepsIds(clients')
    BY <1>4 DEF KeepsIds
  <1>7. GameKnowsItsPlayers'
    BY <1>4 DEF GameKnowsItsPlayers
  <1>8. paused' \in BOOLEAN /\ lastuserid' \in 0..MaxUserId
    BY <1>2 DEF ClientsInv, TypeOK
  <1> QED
    BY <1>1, <1>5, <1>6, <1>7, <1>8, IdsKept DEF ClientsInv, TypeOK, Roles

-----------------------------------------------------------------------------
LEMMA ClientsInvariance == ClientsInv /\ [Next]_vars => ClientsInv'
  <1> SUFFICES ASSUME ClientsInv, [Next]_vars PROVE ClientsInv'
    OBVIOUS
  <1>1. ASSUME NEW p \in Address, NEW asked \in Asked,
               NEW vip \in (IF p \in Vip THEN BOOLEAN ELSE {FALSE}),
               DirectConnect(p, asked, vip)
        PROVE  ClientsInv'
    BY <1>1, DirectConnectKeeps
  <1>2. CASE AddBot
    BY <1>2, AddBotKeeps
  <1>3. ASSUME NEW p \in Address, Heard(p) PROVE ClientsInv'
    BY <1>3, HeardKeeps
  <1>4. ASSUME NEW s \in Slot,
               \/ New(s) \/ Begin(s) \/ Join(s) \/ Observe(s) \/ Pause(s) \/ Drop(s)
        PROVE  ClientsInv'
    <2>1. CASE Join(s)
      BY <2>1, ChangeRoleKeeps DEF Join
    <2>2. CASE Observe(s)
      BY <2>2, ChangeRoleKeeps DEF Observe
    <2> QED
      BY <1>4, <2>1, <2>2, NewKeeps, BeginKeeps, PauseKeeps, DropKeeps
  <1>5. CASE SpawnServer
    BY <1>5, SpawnServerKeeps
  <1>6. CASE \E agrees \in BOOLEAN : Frame(agrees)
    BY <1>6, FrameKeeps
  <1>7. CASE PF_setpause
    BY <1>7 DEF PF_setpause, ClientsInv, TypeOK, UserIdsUnique, GameKnowsItsPlayers
  <1>8. CASE UNCHANGED vars
    BY <1>8 DEF vars, ClientsInv, TypeOK, UserIdsUnique, GameKnowsItsPlayers
  <1> QED
    BY <1>1, <1>2, <1>3, <1>4, <1>5, <1>6, <1>7, <1>8 DEF Next

LEMMA ClientsInitially == Init => ClientsInv
  <1> SUFFICES ASSUME Init PROVE ClientsInv
    OBVIOUS
  <1>1. \A s \in Slot : clients[s] = Free /\ game[s] = "none"
    BY DEF Init
  <1>2. TypeOK
    <2>1. clients \in [Slot -> ClientType] /\ lastuserid \in 0..MaxUserId
      BY FreeType, MaxUserIdAssumption DEF Init
    <2> QED
      BY <2>1 DEF Init, TypeOK
  <1>3. UserIdsUnique /\ GameKnowsItsPlayers
    BY <1>1 DEF UserIdsUnique, GameKnowsItsPlayers, Free
  <1> QED
    BY <1>2, <1>3 DEF ClientsInv

(* A slot always holds a client_t that makes sense, lastuserid stays in    *)
(* its range (SV_GenerateUserID, sv_main.c 531), and ages do not run over. *)
THEOREM ClientsTypeCorrect == Spec => []TypeOK
  <1>1. ClientsInv => TypeOK
    BY DEF ClientsInv
  <1> QED
    BY <1>1, ClientsInitially, ClientsInvariance, PTL DEF Spec

(* No two slots in use have one userid, zombies and bots included, also    *)
(* when the ids have gone round; a free id is always found because there   *)
(* are more ids than slots.                                                *)
THEOREM UniqueUserIds == Spec => []UserIdsUnique
  <1>1. ClientsInv => UserIdsUnique
    BY DEF ClientsInv
  <1> QED
    BY <1>1, ClientsInitially, ClientsInvariance, PTL DEF Spec

(* The progs take exactly the clients in the game to be in it, each in its *)
(* role, however clients drop, reconnect, change sides or time out.        *)
THEOREM ProgsKnowThePlayers == Spec => []GameKnowsItsPlayers
  <1>1. ClientsInv => GameKnowsItsPlayers
    BY DEF ClientsInv
  <1> QED
    BY <1>1, ClientsInitially, ClientsInvariance, PTL DEF Spec
-----------------------------------------------------------------------------
(* The limits.  Zombies keep their seats, so that what counts is who has   *)
(* one in any state; a client let in on the promise of a real address is   *)
(* on a VIP's seat until that is settled.                                  *)
Promised(c) == c.state = "preconnected" /\ c.rip_vip => c.vip
Seats(cs) ==
    /\ Cardinality(Players(cs)) <= MaxPlayers
    /\ Cardinality(Seated(cs)) <= MaxSpectators
    /\ \A s \in Slot : Promised(cs[s])

SeatsInv == Seats(clients)

(* d in the place of c takes no seat that c has not. *)
SeatKept(c, d) ==
    /\ d.state # "free" => c.state # "free"
    /\ d.state # "free" /\ ~d.spectator => ~c.spectator
    /\ d.state # "free" /\ d.spectator /\ ~d.vip /\ ~d.rip_vip
          => c.spectator /\ ~c.vip /\ ~c.rip_vip
    /\ Promised(d)

LEMMA SlotsAreFinite ==
    \A S \in SUBSET Slot : IsFiniteSet(S) /\ Cardinality(S) \in Nat
  <1>1. IsFiniteSet(Slot)
    BY LimitsAssumption, FS_Interval DEF Slot
  <1> QED
    BY <1>1, FS_Subset, FS_CardinalityType

(* Fewer take no more seats, and one more takes one. *)
LEMMA FewerSeats ==
    ASSUME NEW S \in SUBSET Slot, NEW T \in SUBSET S
    PROVE  Cardinality(T) <= Cardinality(S)
  BY SlotsAreFinite, FS_Subset

LEMMA OneMoreSeat ==
    ASSUME NEW S \in SUBSET Slot, NEW T \in SUBSET Slot, NEW t, T \subseteq S \union {t}
    PROVE  Cardinality(T) <= Cardinality(S) + 1
  <1>1. /\ IsFiniteSet(S \union {t})
        /\ Cardinality(S \union {t}) = IF t \in S THEN Cardinality(S) ELSE Cardinality(S) + 1
    BY SlotsAreFinite, FS_AddElement
  <1>2. Cardinality(T) <= Cardinality(S \union {t})
    BY <1>1, FS_Subset
  <1>3. Cardinality(S) \in Nat /\ Cardinality(T) \in Nat
    BY SlotsAreFinite
  <1> QED
    BY <1>1, <1>2, <1>3

LEMMA SeatsKept ==
    ASSUME NEW cs, NEW ds, Seats(cs), \A s \in Slot : SeatKept(cs[s], ds[s])
    PROVE  Seats(ds)
  <1>1. /\ Players(cs) \in SUBSET Slot /\ Seated(cs) \in SUBSET Slot
        /\ Players(ds) \in SUBSET Slot /\ Seated(ds) \in SUBSET Slot
    BY DEF Players, Seated, Spectators
  <1>2. Players(ds) \subseteq Players(cs)
    BY DEF Players, SeatKept
  <1>3. Seated(ds) \subseteq Seated(cs)
    BY DEF Seated, Spectators, SeatKept
  <1>4. /\ Cardinality(Players(ds)) <= Cardinality(Players(cs))
        /\ Cardinality(Seated(ds)) <= Cardinality(Seated(cs))
    BY <1>1, <1>2, <1>3, FewerSeats
  <1>5. /\ Cardinality(Players(ds)) \in Nat /\ Cardinality(Players(cs)) \in Nat
        /\ Cardinality(Seated(ds)) \in Nat /\ Cardinality(Seated(cs)) \in Nat
    BY <1>1, SlotsAreFinite
  <1> QED
    BY <1>4, <1>5, LimitsAssumption DEF Seats, SeatKept

(* One slot t is given to d, who has been let in. *)
LEMMA SeatGiven ==
    ASSUME NEW cs, NEW ds, Seats(cs), NEW t \in Slot,
           \A s \in Slot \ {t} : ds[s] = cs[s],
           Promised(ds[t]),
           ds[t].spectator \/ PlayerCanConnect(cs),
           \/ ~ds[t].spectator \/ ds[t].vip \/ ds[t].rip_vip
           \/ Cardinality(Spectators(cs)) < MaxSpectators
    PROVE  Seats(ds)
  <1>1. /\ Players(cs) \in SUBSET Slot /\ Seated(cs) \in SUBSET Slot
        /\ Players(ds) \in SUBSET Slot /\ Seated(ds) \in SUBSET Slot
        /\ Spectators(cs) \in SUBSET Slot /\ Seated(cs) \in SUBSET Spectators(cs)
    BY DEF Players, Seated, Spectators
  <1>2. /\ Cardinality(Players(ds)) \in Nat /\ Cardinality(Players(cs)) \in Nat
        /\ Cardinality(Seated(ds)) \in Nat /\ Cardinality(Seated(cs)) \in Nat
        /\ Cardinality(Spectators(cs)) \in Nat
        /\ Cardinality(Seated(cs)) <= Cardinality(Spectators(cs))
        /\ MaxPlayers \in Nat /\ MaxSpectators \in Nat
    BY <1>1, SlotsAreFinite, FewerSeats, LimitsAssumption
  <1>3. Cardinality(Players(ds)) <= MaxPlayers
    <2>1. CASE ds[t].spectator
      <3>1. Players(ds) \in SUBSET Players(cs)
        BY <2>1 DEF Players
      <3>2. Cardinality(Players(ds)) <= Cardinality(Players(cs))
        BY <1>1, <3>1, FewerSeats
      <3> QED
        BY <1>2, <3>2 DEF Seats
    <2>2. CASE ~ds[t].spectator
      <3>1. Players(ds) \subseteq Players(cs) \union {t}
        BY DEF Players
      <3>2. Cardinality(Players(ds)) <= Cardinality(Players(cs)) + 1
        BY <1>1, <3>1, OneMoreSeat
      <3> QED
        BY <1>2, <2>2, <3>2 DEF PlayerCanConnect
    <2> QED
      BY <2>1, <2>2
  <1>4. Cardinality(Seated(ds)) <= MaxSpectators
    <2>1. CASE ~ds[t].spectator \/ ds[t].vip \/ ds[t].rip_vip
      <3>1. Seated(ds) \in SUBSET Seated(cs)
        BY <2>1 DEF Seated, Spectators
      <3>2. Cardinality(Seated(ds)) <= Cardinality(Seated(cs))
        BY <1>1, <3>1, FewerSeats
      <3> QED
        BY <1>2, <3>2 DEF Seats
    <2>2. CASE Cardinality(Spectators(cs)) < MaxSpectators
      <3>1. Seated(ds) \subseteq Seated(cs) \union {t}
        BY DEF Seated, Spectators
      <3>2. Cardinality(Seated(ds)) <= Cardinality(Seated(cs)) + 1
        BY <1>1, <3>1, OneMoreSeat
      <3> QED
        BY <1>2, <2>2, <3>2
    <2> QED
      BY <2>1, <2>2
  <1> QED
    BY <1>3, <1>4 DEF Seats

(* CheckReConnect frees a seat. *)
LEMMA ReconnectSeats ==
    ASSUME TypeOK, Seats(clients), NEW p
    PROVE  Seats(Reconnect(p)[1])
  <1>1. CASE Matching(p) = {}
    BY <1>1 DEF Reconnect
  <1>2. CASE Matching(p) # {}
    <2> DEFINE t == Min(Matching(p))
    <2>1. Reconnect(p)[1] = [clients EXCEPT ![t] = Free]
      BY <1>2 DEF Reconnect
    <2> HIDE DEF t
    <2>2. ASSUME NEW s \in Slot PROVE SeatKept(clients[s], Reconnect(p)[1][s])
      <3>1. Reconnect(p)[1][s] = IF s = t THEN Free ELSE clients[s]
        BY <2>1 DEF TypeOK
      <3>2. Promised(clients[s])
        BY DEF Seats
      <3> QED
        BY <3>1, <3>2 DEF SeatKept, Promised, Free
    <2> QED
      BY <2>2, SeatsKept
  <1> QED
    BY <1>1, <1>2

LEMMA DirectConnectSeats ==
    ASSUME ClientsInv, Seats(clients), NEW p \in Address, NEW asked \in Asked,
           NEW vip \in BOOLEAN, DirectConnect(p, asked, vip)
    PROVE  Seats(clients')
  <1> DEFINE cs == Reconnect(p)[1]
             t == Min(FreeSlots(cs))
             id == GenerateUserID(cs)
             admitted == Admission(cs, asked, vip)
             new == [state |-> "preconnected", peer |-> p, userid |-> id,
                     spectator |-> admitted # "player",
                     vip |-> vip \/ admitted = "rip_vip",
                     rip_vip |-> admitted = "rip_vip", bot |-> FALSE,
                     started |-> 0, silence |-> 0]
  <1>1. IF admitted = "full"
        THEN clients' = cs
        ELSE clients' = [cs EXCEPT ![t] = new]
    BY Zenon DEF DirectConnect
  <1>2. Seats(cs) /\ cs \in [Slot -> ClientType]
    BY ReconnectSeats, ReconnectKeeps DEF ClientsInv
  <1>3. /\ admitted = "player" => PlayerCanConnect(cs)
        /\ admitted = "spectator" => vip \/ Cardinality(Spectators(cs)) < MaxSpectators
        /\ admitted \in {"player", "spectator", "rip_vip", "full"}
    BY DEF Admission, SpectatorCanConnect
  <1>4. /\ new.state = "preconnected" /\ new.spectator = (admitted # "player")
        /\ new.vip = (vip \/ admitted = "rip_vip") /\ new.rip_vip = (admitted = "rip_vip")
    OBVIOUS
  <1>5. CASE admitted = "full"
    BY <1>1, <1>2, <1>5
  <1>6. CASE admitted # "full"
    <2>1. t \in Slot
      <3>1. FreeSlots(cs) # {}
        BY <1>6 DEF Admission
      <3>2. FreeSlots(cs) \in SUBSET Nat
        BY LimitsAssumption DEF FreeSlots, Slot
      <3>3. t \in FreeSlots(cs)
        BY <3>1, <3>2, MinOfNaturals
      <3> QED
        BY <3>3 DEF FreeSlots
    <2> HIDE DEF cs, t, id, admitted, new
    <2>2. clients'[t] = new /\ \A s \in Slot \ {t} : clients'[s] = cs[s]
      BY <1>1, <1>2, <1>6, <2>1
    <2>3. Promised(new)
      BY <1>4 DEF Promised
    <2> QED
      BY <1>2, <1>3, <1>4, <1>6, <2>1, <2>2, <2>3, SeatGiven
  <1> QED
    BY <1>5, <1>6

LEMMA AddBotSeats ==
    ASSUME ClientsInv, Seats(clients), AddBot
    PROVE  Seats(clients')
  <1> DEFINE t == Min(FreeSlots(clients))
             id == GenerateUserID(clients)
             bot == [Free EXCEPT !.state = "spawned", !.userid = id, !.bot = TRUE]
  <1>1. t \in Slot
    <2>1. FreeSlots(clients) \in SUBSET Nat /\ FreeSlots(clients) # {}
      BY LimitsAssumption DEF AddBot, FreeSlots, Slot
    <2>2. t \in FreeSlots(clients)
      BY <2>1, MinOfNaturals
    <2> QED
      BY <2>2 DEF FreeSlots
  <1>2. clients' = [clients EXCEPT ![t] = bot] /\ PlayerCanConnect(clients)
    BY DEF AddBot
  <1>3. bot.spectator = FALSE /\ bot.state = "spawned"
    BY DEF Free
  <1> HIDE DEF t, bot
  <1>4. clients'[t] = bot /\ \A s \in Slot \ {t} : clients'[s] = clients[s]
    BY <1>1, <1>2 DEF ClientsInv, TypeOK
  <1>5. Promised(bot)
    BY <1>3 DEF Promised
  <1> QED
    BY <1>1, <1>2, <1>3, <1>4, <1>5, SeatGiven

(* What one client with a slot does, and what happens to all of them,      *)
(* takes no seat, but for a change of sides.                               *)
LEMMA OneClientSeats ==
    ASSUME TypeOK, Seats(clients), NEW t \in Slot, NEW c,
           clients' = [clients EXCEPT ![t] = c], SeatKept(clients[t], c)
    PROVE  Seats(clients')
  <1>1. ASSUME NEW s \in Slot PROVE SeatKept(clients[s], clients'[s])
    <2>1. clients'[s] = IF s = t THEN c ELSE clients[s]
      BY DEF TypeOK
    <2>2. Promised(clients[s])
      BY DEF Seats
    <2> QED
      BY <2>1, <2>2 DEF SeatKept
  <1> QED
    BY <1>1, SeatsKept

LEMMA DroppedSeat ==
    ASSUME NEW c \in ClientType, c.state # "free"
    PROVE  /\ SeatKept(c, Dropped(c))
           /\ c.rip_vip => SeatKept(c, Dropped([c EXCEPT !.vip = FALSE]))
  <1>1. ASSUME NEW d \in ClientType, d.spectator = c.spectator, d.rip_vip = c.rip_vip,
               d.vip = c.vip \/ c.rip_vip
        PROVE  SeatKept(c, Dropped(d))
    <2>1. CASE d.bot
      BY <2>1 DEF Dropped, SeatKept, Free, Promised
    <2>2. CASE ~d.bot
      <3>1. Dropped(d) = [d EXCEPT !.state = "zombie", !.started = 0]
        BY <2>2 DEF Dropped
      <3>2. /\ Dropped(d).state = "zombie" /\ Dropped(d).spectator = d.spectator
            /\ Dropped(d).vip = d.vip /\ Dropped(d).rip_vip = d.rip_vip
        BY <3>1 DEF ClientType
      <3> QED
        BY <1>1, <3>2 DEF SeatKept, Promised
    <2> QED
      BY <2>1, <2>2
  <1>2. [c EXCEPT !.vip = FALSE] \in ClientType
    BY DEF ClientType
  <1>3. /\ [c EXCEPT !.vip = FALSE].spectator = c.spectator
        /\ [c EXCEPT !.vip = FALSE].rip_vip = c.rip_vip
    BY DEF ClientType
  <1> QED
    BY <1>1, <1>2, <1>3
LEMMA NewSeats ==
    ASSUME ClientsInv, Seats(clients), NEW t \in Slot, New(t)
    PROVE  Seats(clients')
  <1> DEFINE c == [clients[t] EXCEPT
                     !.silence = 0,
                     !.started = IF clients[t].state = "connected" THEN 0 ELSE @]
             onlist == clients[t].peer \in Vip
             settled == [c EXCEPT !.state = "connected", !.rip_vip = FALSE,
                                  !.vip = @ \/ onlist]
             r == IF c.rip_vip /\ ~onlist THEN Dropped([c EXCEPT !.vip = FALSE])
                  ELSE IF c.state = "preconnected" THEN settled ELSE c
  <1>1. clients[t] \in ClientType /\ TypeOK /\ Promised(clients[t])
    BY DEF ClientsInv, TypeOK, Seats
  <1>2. clients[t].state # "free" /\ clients' = [clients EXCEPT ![t] = r]
    BY DEF New, Commands
  <1>3. /\ c \in ClientType /\ c.state = clients[t].state
        /\ c.spectator = clients[t].spectator
        /\ c.vip = clients[t].vip /\ c.rip_vip = clients[t].rip_vip
    <2>1. 0 \in 0..(Timeout + 1) /\ 0 \in 0..MaxAge
      BY TimesAssumption, MaxAgeType
    <2>2. (IF clients[t].state = "connected" THEN 0 ELSE clients[t].started) \in 0..MaxAge
      BY <1>1, <2>1 DEF ClientType
    <2> QED
      BY <1>1, <2>1, <2>2 DEF ClientType
  <1> HIDE DEF c, onlist
  <1>4. /\ settled.state = "connected" /\ settled.rip_vip = FALSE
        /\ settled.vip = (c.vip \/ onlist) /\ settled.spectator = c.spectator
    BY <1>3 DEF ClientType
  <1> HIDE DEF settled
  <1>5. SeatKept(clients[t], r)
    <2>1. CASE c.rip_vip /\ ~onlist
      <3>1. SeatKept(c, Dropped([c EXCEPT !.vip = FALSE]))
        BY <1>2, <1>3, <2>1, DroppedSeat
      <3> QED
        BY <1>3, <2>1, <3>1 DEF SeatKept
    <2>2. CASE ~(c.rip_vip /\ ~onlist) /\ c.state = "preconnected"
      BY <1>1, <1>2, <1>3, <1>4, <2>2 DEF SeatKept, Promised
    <2>3. CASE ~(c.rip_vip /\ ~onlist) /\ c.state # "preconnected"
      BY <1>2, <1>3, <2>3 DEF SeatKept, Promised
    <2> QED
      BY <2>1, <2>2, <2>3
  <1> HIDE DEF r
  <1> QED
    BY <1>1, <1>2, <1>5, OneClientSeats

LEMMA BeginSeats ==
    ASSUME ClientsInv, Seats(clients), NEW t \in Slot, Begin(t)
    PROVE  Seats(clients')
  <1> DEFINE c == [clients[t] EXCEPT !.state = "spawned", !.silence = 0]
  <1>1. clients[t] \in ClientType /\ clients \in [Slot -> ClientType] /\ TypeOK
    BY DEF ClientsInv, TypeOK
  <1>2. clients[t].state # "free" /\ clients' = [clients EXCEPT ![t] = c]
    BY <1>1 DEF Begin, Commands
  <1>3. /\ c.state = "spawned" /\ c.spectator = clients[t].spectator
        /\ c.vip = clients[t].vip /\ c.rip_vip = clients[t].rip_vip
    BY <1>1 DEF ClientType
  <1> HIDE DEF c
  <1>4. SeatKept(clients[t], c)
    BY <1>2, <1>3 DEF SeatKept, Promised
  <1> QED
    BY <1>1, <1>2, <1>4, OneClientSeats

(* Cmd_Join_f and Cmd_Observe_f ask for a seat as a new client does. *)
LEMMA ChangeRoleSeats ==
    ASSUME ClientsInv, Seats(clients), NEW t \in Slot, NEW spectator \in BOOLEAN,
           clients[t].state = "spawned", ChangeRole(t, spectator),
           spectator \/ PlayerCanConnect(clients),
           ~spectator \/ SpectatorCanConnect(clients, clients[t].vip)
    PROVE  Seats(clients')
  <1> DEFINE c == [clients[t] EXCEPT !.spectator = spectator,
                                     !.started = 0, !.silence = 0]
  <1>1. clients[t] \in ClientType /\ clients \in [Slot -> ClientType]
    BY DEF ClientsInv, TypeOK
  <1>2. clients' = [clients EXCEPT ![t] = c]
    BY <1>1 DEF ChangeRole
  <1>3. c.state = "spawned" /\ c.spectator = spectator /\ c.vip = clients[t].vip
    BY <1>1 DEF ClientType
  <1> HIDE DEF c
  <1>4. clients'[t] = c /\ \A s \in Slot \ {t} : clients'[s] = clients[s]
    BY <1>1, <1>2
  <1>5. Promised(c)
    BY <1>3 DEF Promised
  <1>6. ~c.spectator \/ c.vip \/ Cardinality(Spectators(clients)) < MaxSpectators
    BY <1>3 DEF SpectatorCanConnect
  <1> QED
    BY <1>3, <1>4, <1>5, <1>6, SeatGiven

LEMMA QuietSeats ==
    ASSUME ClientsInv, Seats(clients), NEW t \in Slot, Pause(t) \/ Drop(t)
    PROVE  Seats(clients')
  <1>1. clients[t] \in ClientType /\ TypeOK /\ Promised(clients[t])
    BY DEF ClientsInv, TypeOK, Seats
  <1>2. CASE Drop(t)
    <2>1. clients[t].state # "free" /\ clients' = [clients EXCEPT ![t] = Dropped(clients[t])]
      BY <1>2 DEF Drop, Live
    <2>2. SeatKept(clients[t], Dropped(clients[t]))
      BY <1>1, <2>1, DroppedSeat
    <2> QED
      BY <1>1, <2>1, <2>2, OneClientSeats
  <1>3. CASE Pause(t)
    <2> DEFINE c == [clients[t] EXCEPT !.silence = 0]
    <2>1. clients' = [clients EXCEPT ![t] = c]
      BY <1>1, <1>3 DEF Pause, TypeOK
    <2>2. /\ c.state = clients[t].state /\ c.spectator = clients[t].spectator
          /\ c.vip = clients[t].vip /\ c.rip_vip = clients[t].rip_vip
      BY <1>1 DEF ClientType
    <2> HIDE DEF c
    <2>3. SeatKept(clients[t], c)
      BY <1>1, <2>2 DEF SeatKept, Promised
    <2> QED
      BY <1>1, <2>1, <2>3, OneClientSeats
  <1> QED
    BY <1>2, <1>3

LEMMA HeardSeats ==
    ASSUME ClientsInv, Seats(clients), NEW p \in Address, Heard(p)
    PROVE  Seats(clients')
  <1> DEFINE from == {s \in Slot : /\ Commands(s)
                                   /\ clients[s].peer.ip = p.ip
                                   /\ clients[s].peer.qport = p.qport}
             t == Min(from)
             c == [clients[t] EXCEPT !.silence = 0, !.peer = p]
  <1>1. TypeOK /\ clients \in [Slot -> ClientType]
    BY DEF ClientsInv, TypeOK
  <1>2. t \in Slot
    <2>1. from \in SUBSET Nat /\ from # {}
      BY LimitsAssumption DEF Heard, Slot
    <2>2. t \in from
      BY <2>1, MinOfNaturals
    <2> QED
      BY <2>2
  <1>3. clients' = [clients EXCEPT ![t].silence = 0, ![t].peer = p]
    BY Zenon DEF Heard
  <1> HIDE DEF from, t
  <1>4. clients' = [clients EXCEPT ![t] = c]
    BY <1>1, <1>2, <1>3
  <1>5. clients[t] \in ClientType /\ Promised(clients[t])
    BY <1>1, <1>2 DEF Seats
  <1>6. /\ c.state = clients[t].state /\ c.spectator = clients[t].spectator
        /\ c.vip = clients[t].vip /\ c.rip_vip = clients[t].rip_vip
    BY <1>5 DEF ClientType
  <1> HIDE DEF c
  <1>7. SeatKept(clients[t], c)
    BY <1>5, <1>6 DEF SeatKept, Promised
  <1> QED
    BY <1>1, <1>2, <1>4, <1>7, OneClientSeats

LEMMA AllClientsSeats ==
    ASSUME ClientsInv, Seats(clients), SpawnServer \/ \E agrees \in BOOLEAN : Frame(agrees)
    PROVE  Seats(clients')
  <1> SUFFICES ASSUME NEW s \in Slot PROVE SeatKept(clients[s], clients'[s])
    BY SeatsKept
  <1>1. clients[s] \in ClientType /\ Promised(clients[s])
    BY DEF ClientsInv, TypeOK, Seats
  <1>2. CASE clients'[s] = Free
    BY <1>2 DEF SeatKept, Promised, Free
  <1>3. CASE clients'[s] # Free
    <2>1. /\ clients'[s].spectator = clients[s].spectator
          /\ clients'[s].vip = clients[s].vip /\ clients'[s].rip_vip = clients[s].rip_vip
          /\ clients'[s].state = clients[s].state \/ clients'[s].state = "connected"
          /\ clients'[s].state # "free" => clients[s].state # "free"
      <3>1. CASE SpawnServer
        <4>1. clients'[s] = IF clients[s].state = "spawned"
                            THEN [clients[s] EXCEPT !.state = "connected"]
                            ELSE clients[s]
          BY <1>3, <3>1 DEF SpawnServer
        <4> QED
          BY <1>1, <4>1 DEF ClientType
      <3>2. CASE \E agrees \in BOOLEAN : Frame(agrees)
        <4> DEFINE aged == IF clients[s].state = "free" \/ clients[s].bot
                           THEN clients[s]
                           ELSE [clients[s] EXCEPT
                                   !.silence = IF Live(clients[s])
                                               THEN Older(@, Timeout + 1) ELSE 0,
                                   !.started = IF paused THEN @ ELSE Older(@, MaxAge)]
        <4>1. clients'[s] = aged
          <5> PICK agrees \in BOOLEAN : Frame(agrees)
            BY <3>2
          <5> QED
            BY <1>3 DEF Frame
        <4>2. /\ aged.spectator = clients[s].spectator /\ aged.vip = clients[s].vip
              /\ aged.rip_vip = clients[s].rip_vip /\ aged.state = clients[s].state
          BY <1>1 DEF ClientType
        <4> QED
          BY <4>1, <4>2
      <3> QED
        BY <3>1, <3>2
    <2> QED
      BY <1>1, <2>1 DEF SeatKept, Promised
  <1> QED
    BY <1>2, <1>3

LEMMA SeatsInvariance ==
    ClientsInv /\ Seats(clients) /\ [Next]_vars => Seats(clients')
  <1> SUFFICES ASSUME ClientsInv, Seats(clients), [Next]_vars PROVE Seats(clients')
    OBVIOUS
  <1>1. ASSUME NEW p \in Address, NEW asked \in Asked,
               NEW vip \in (IF p \in Vip THEN BOOLEAN ELSE {FALSE}),
               DirectConnect(p, asked, vip)
        PROVE  Seats(clients')
    BY <1>1, DirectConnectSeats
  <1>2. CASE AddBot
    BY <1>2, AddBotSeats
  <1>3. ASSUME NEW p \in Address, Heard(p) PROVE Seats(clients')
    BY <1>3, HeardSeats
  <1>4. ASSUME NEW s \in Slot,
               \/ New(s) \/ Begin(s) \/ Join(s) \/ Observe(s) \/ Pause(s) \/ Drop(s)
        PROVE  Seats(clients')
    <2>1. CASE Join(s)
      BY <2>1, ChangeRoleSeats DEF Join
    <2>2. CASE Observe(s)
      BY <2>2, ChangeRoleSeats DEF Observe
    <2> QED
      BY <1>4, <2>1, <2>2, NewSeats, BeginSeats, QuietSeats
  <1>5. CASE SpawnServer \/ \E agrees \in BOOLEAN : Frame(agrees)
    BY <1>5, AllClientsSeats
  <1>6. CASE PF_setpause \/ UNCHANGED vars
    BY <1>6 DEF vars, PF_setpause
  <1> QED
    BY <1>1, <1>2, <1>3, <1>4, <1>5, <1>6 DEF Next

(* There are never more players than maxclients, nor more spectators on a  *)
(* seat that is not a VIP's than maxspectators, zombies among them, however*)
(* clients come, go, linger, change sides and find their way back into the *)
(* game (sv_main.c 1084-1143).                                             *)
THEOREM LimitsHold == Spec => []WithinLimits
  <1>1. Init => SeatsInv
    <2> SUFFICES ASSUME Init PROVE SeatsInv
      OBVIOUS
    <2>1. \A s \in Slot : clients[s].state = "free"
      BY DEF Init, Free
    <2>2. Players(clients) = {} /\ Seated(clients) = {}
      BY <2>1 DEF Players, Seated, Spectators
    <2>3. Cardinality({}) = 0
      BY FS_EmptySet
    <2> QED
      BY <2>1, <2>2, <2>3, LimitsAssumption DEF SeatsInv, Seats, Promised
  <1>2. SeatsInv => WithinLimits
    BY DEF SeatsInv, Seats, WithinLimits
  <1>3. ClientsInv /\ SeatsInv /\ [Next]_vars => SeatsInv'
    BY SeatsInvariance DEF SeatsInv
  <1> QED
    BY <1>1, <1>2, <1>3, ClientsInitially, ClientsInvariance, PTL DEF Spec

-----------------------------------------------------------------------------
(* Who sent a packet: the slots that take packets have remote ends of      *)
(* their own, by address and qport, and a bot has none.                    *)

Takes(c) == c.state # "free" /\ ~c.bot
Fits(p, q) == p.ip = q.ip /\ p.qport = q.qport
Ends(cs) ==
    /\ \A s \in Slot : cs[s].bot => cs[s].peer = NoPeer
    /\ \A s, t \in Slot :
          Takes(cs[s]) /\ Takes(cs[t]) /\ Fits(cs[s].peer, cs[t].peer) => s = t
EndsInv == Ends(clients)

EndKept(c, d) ==
    /\ d.bot => d.peer = NoPeer
    /\ Takes(d) => Takes(c) /\ Fits(d.peer, c.peer)

LEMMA EndsKept ==
    ASSUME NEW cs, NEW ds, Ends(cs), \A s \in Slot : EndKept(cs[s], ds[s])
    PROVE  Ends(ds)
  <1>1. ASSUME NEW s \in Slot, NEW t \in Slot, Takes(ds[s]), Takes(ds[t]),
               Fits(ds[s].peer, ds[t].peer)
        PROVE  s = t
    <2>1. /\ Takes(cs[s]) /\ Fits(ds[s].peer, cs[s].peer)
          /\ Takes(cs[t]) /\ Fits(ds[t].peer, cs[t].peer)
      BY <1>1 DEF EndKept
    <2>2. Fits(cs[s].peer, cs[t].peer)
      BY <1>1, <2>1 DEF Fits
    <2> QED
      BY <2>1, <2>2 DEF Ends
  <1> QED
    BY <1>1 DEF Ends, EndKept

LEMMA OneClientEnds ==
    ASSUME clients \in [Slot -> ClientType], Ends(clients), NEW t \in Slot, NEW c,
           clients' = [clients EXCEPT ![t] = c], EndKept(clients[t], c)
    PROVE  Ends(clients')
  <1>1. ASSUME NEW s \in Slot PROVE EndKept(clients[s], clients'[s])
    <2>1. CASE s = t
      BY <2>1
    <2>2. CASE s # t
      BY <2>2 DEF EndKept, Ends, Fits
    <2> QED
      BY <2>1, <2>2
  <1> QED
    BY <1>1, EndsKept

(* The slot a request takes over is the only one its sender can have, if   *)
(* no two remote ends share a port.                                        *)
LEMMA ReconnectEnds ==
    ASSUME clients \in [Slot -> ClientType], Ends(clients), NEW p \in Address,
           \A q, r \in Address : q.ip = r.ip /\ q.port = r.port => q.qport = r.qport
    PROVE  /\ Ends(Reconnect(p)[1])
           /\ \A s \in Slot : Takes(Reconnect(p)[1][s]) =>
                                 ~Fits(Reconnect(p)[1][s].peer, p)
  <1>0. p.ip \in Nat
    BY PeerAssumption
  <1>1. ASSUME NEW s \in Slot, Takes(clients[s]), Fits(clients[s].peer, p)
        PROVE  s \in Matching(p)
    BY <1>1 DEF Takes, Fits, Matching, SamePeer
  <1>2. ASSUME NEW s \in Matching(p)
        PROVE  s \in Slot /\ Takes(clients[s]) /\ Fits(clients[s].peer, p)
    <2>1. /\ s \in Slot /\ clients[s].state # "free"
          /\ p.ip = clients[s].peer.ip
          /\ p.qport = clients[s].peer.qport \/ p.port = clients[s].peer.port
      BY DEF Matching, SamePeer
    <2>2. clients[s].peer # NoPeer
      BY <1>0, <2>1 DEF NoPeer
    <2>3. clients[s].peer \in Address
      BY <2>1, <2>2 DEF ClientType
    <2>4. ~clients[s].bot
      BY <2>1, <2>2 DEF Ends
    <2>5. clients[s].peer.qport = p.qport
      BY <2>1, <2>3
    <2> QED
      BY <2>1, <2>4, <2>5 DEF Takes, Fits
  <1>3. CASE Matching(p) = {}
    BY <1>1, <1>3 DEF Reconnect
  <1>4. CASE Matching(p) # {}
    <2> DEFINE t == Min(Matching(p))
    <2>1. t \in Matching(p)
      <3>1. Matching(p) \in SUBSET Nat
        BY LimitsAssumption DEF Matching, Slot
      <3> QED
        BY <1>4, <3>1, MinOfNaturals
    <2>2. Reconnect(p)[1] = [clients EXCEPT ![t] = Free]
      BY <1>4 DEF Reconnect
    <2> HIDE DEF t
    <2>3. t \in Slot /\ Takes(clients[t]) /\ Fits(clients[t].peer, p)
      BY <1>2, <2>1
    <2> DEFINE cs == Reconnect(p)[1]
    <2>4. cs[t] = Free /\ \A s \in Slot \ {t} : cs[s] = clients[s]
      BY <2>2, <2>3
    <2> HIDE DEF cs
    <2>5. ~Takes(Free) /\ ~Free.bot
      BY DEF Takes, Free
    <2>6. \A s \in Slot : EndKept(clients[s], cs[s])
      BY <2>4, <2>5 DEF EndKept, Ends, Fits
    <2>7. Ends(cs)
      BY <2>6, EndsKept
    <2>8. ASSUME NEW s \in Slot, Takes(cs[s]) PROVE ~Fits(cs[s].peer, p)
      <3>1. s # t /\ cs[s] = clients[s]
        BY <2>4, <2>5, <2>8
      <3>2. SUFFICES ASSUME Fits(clients[s].peer, p) PROVE FALSE
        BY <3>1
      <3>3. Fits(clients[s].peer, clients[t].peer)
        BY <2>3, <3>2 DEF Fits
      <3> QED
        BY <2>3, <2>8, <3>1, <3>3 DEF Ends
    <2> QED
      BY <2>7, <2>8 DEF cs
  <1> QED
    BY <1>3, <1>4

LEMMA DirectConnectEnds ==
    ASSUME ClientsInv, Ends(clients), NEW p \in Address, NEW asked \in Asked,
           NEW vip \in BOOLEAN, DirectConnect(p, asked, vip),
           \A q, r \in Address : q.ip = r.ip /\ q.port = r.port => q.qport = r.qport
    PROVE  Ends(clients')
  <1> DEFINE cs == Reconnect(p)[1]
             t == Min(FreeSlots(cs))
             id == GenerateUserID(cs)
             admitted == Admission(cs, asked, vip)
             new == [state |-> "preconnected", peer |-> p, userid |-> id,
                     spectator |-> admitted # "player",
                     vip |-> vip \/ admitted = "rip_vip",
                     rip_vip |-> admitted = "rip_vip", bot |-> FALSE,
                     started |-> 0, silence |-> 0]
  <1>1. IF admitted = "full" THEN clients' = cs
        ELSE clients' = [cs EXCEPT ![t] = new]
    BY Zenon DEF DirectConnect
  <1>2. clients \in [Slot -> ClientType]
    BY DEF ClientsInv, TypeOK
  <1>3. /\ cs \in [Slot -> ClientType] /\ Ends(cs)
        /\ \A s \in Slot : Takes(cs[s]) => ~Fits(cs[s].peer, p)
    BY <1>2, ReconnectEnds, ReconnectKeeps
  <1>4. new.bot = FALSE /\ new.peer = p
    OBVIOUS
  <1>5. admitted # "full" => t \in Slot
    <2> SUFFICES ASSUME admitted # "full" PROVE t \in FreeSlots(cs)
      BY DEF FreeSlots
    <2>1. FreeSlots(cs) # {}
      BY DEF Admission
    <2>2. FreeSlots(cs) \in SUBSET Nat
      BY LimitsAssumption DEF FreeSlots, Slot
    <2> QED
      BY <2>1, <2>2, MinOfNaturals
  <1> HIDE DEF cs, t, id, admitted, new
  <1>6. CASE admitted = "full"
    BY <1>1, <1>3, <1>6
  <1>7. CASE admitted # "full"
    <2>1. clients'[t] = new /\ \A s \in Slot \ {t} : clients'[s] = cs[s]
      BY <1>1, <1>3, <1>5, <1>7
    <2>2. ASSUME NEW s \in Slot PROVE clients'[s].bot => clients'[s].peer = NoPeer
      BY <1>3, <1>4, <2>1 DEF Ends
    <2>3. ASSUME NEW s \in Slot, NEW u \in Slot, Takes(clients'[s]), Takes(clients'[u]),
                 Fits(clients'[s].peer, clients'[u].peer)
          PROVE  s = u
      <3>1. ASSUME s = t, u # t PROVE FALSE
        BY <1>3, <1>4, <2>1, <2>3, <3>1 DEF Fits
      <3>2. ASSUME s # t, u = t PROVE FALSE
        BY <1>3, <1>4, <2>1, <2>3, <3>2 DEF Fits
      <3>3. CASE s # t /\ u # t
        BY <1>3, <2>1, <2>3, <3>3 DEF Ends
      <3> QED
        BY <3>1, <3>2, <3>3
    <2> QED
      BY <2>2, <2>3 DEF Ends
  <1> QED
    BY <1>6, <1>7

LEMMA HeardEnds ==
    ASSUME ClientsInv, Ends(clients), NEW p \in Address, Heard(p)
    PROVE  Ends(clients')
  <1> DEFINE from == {s \in Slot : /\ Commands(s)
                                   /\ clients[s].peer.ip = p.ip
                                   /\ clients[s].peer.qport = p.qport}
             t == Min(from)
             c == [clients[t] EXCEPT !.silence = 0, !.peer = p]
  <1>1. clients \in [Slot -> ClientType]
    BY DEF ClientsInv, TypeOK
  <1>2. t \in from
    <2>1. from \in SUBSET Nat /\ from # {}
      BY LimitsAssumption DEF Heard, Slot
    <2> QED
      BY <2>1, MinOfNaturals
  <1>3. t \in Slot /\ Takes(clients[t]) /\ Fits(p, clients[t].peer)
    BY <1>2 DEF Commands, Takes, Fits
  <1>4. clients' = [clients EXCEPT ![t].silence = 0, ![t].peer = p]
    BY Zenon DEF Heard
  <1> HIDE DEF from, t
  <1>5. clients' = [clients EXCEPT ![t] = c]
    BY <1>1, <1>3, <1>4
  <1>6. c.peer = p /\ c.bot = clients[t].bot
    BY <1>1, <1>3 DEF ClientType
  <1> HIDE DEF c
  <1>7. EndKept(clients[t], c)
    BY <1>3, <1>6 DEF EndKept, Takes
  <1> QED
    BY <1>1, <1>3, <1>5, <1>7, OneClientEnds

LEMMA AddBotEnds ==
    ASSUME ClientsInv, Ends(clients), AddBot
    PROVE  Ends(clients')
  <1> DEFINE t == Min(FreeSlots(clients))
             id == GenerateUserID(clients)
             bot == [Free EXCEPT !.state = "spawned", !.userid = id, !.bot = TRUE]
  <1>1. clients \in [Slot -> ClientType]
    BY DEF ClientsInv, TypeOK
  <1>2. t \in Slot
    <2>1. FreeSlots(clients) \in SUBSET Nat /\ FreeSlots(clients) # {}
      BY LimitsAssumption DEF AddBot, FreeSlots, Slot
    <2>2. t \in FreeSlots(clients)
      BY <2>1, MinOfNaturals
    <2> QED
      BY <2>2 DEF FreeSlots
  <1>3. clients' = [clients EXCEPT ![t] = bot]
    BY DEF AddBot
  <1>4. bot.bot /\ bot.peer = NoPeer
    BY DEF Free
  <1> HIDE DEF t, id, bot
  <1>5. EndKept(clients[t], bot)
    BY <1>4 DEF EndKept, Takes
  <1> QED
    BY <1>1, <1>2, <1>3, <1>5, OneClientEnds

(* No other command or frame gives a slot another remote end, or gives one *)
(* to a bot.                                                               *)
LEMMA OthersEnds ==
    ASSUME ClientsInv, Ends(clients), NEW t \in Slot,
           \/ New(t) \/ Begin(t) \/ Join(t) \/ Observe(t) \/ Pause(t) \/ Drop(t)
    PROVE  Ends(clients')
  <1>1. /\ clients \in [Slot -> ClientType] /\ clients[t] \in ClientType
        /\ clients[t].bot => clients[t].peer = NoPeer
    BY DEF ClientsInv, TypeOK, Ends
  <1>2. ASSUME NEW c, clients' = [clients EXCEPT ![t] = c], c.peer = clients[t].peer,
               c.bot = clients[t].bot, clients[t].state # "free"
        PROVE  Ends(clients')
    <2>1. EndKept(clients[t], c)
      BY <1>1, <1>2 DEF EndKept, Takes, Fits
    <2> QED
      BY <1>1, <1>2, <2>1, OneClientEnds
  <1>3. /\ Free.peer = NoPeer /\ ~Free.bot /\ ~Takes(Free)
    BY DEF Free, Takes
  <1>4. CASE New(t)
    <2> DEFINE c == [clients[t] EXCEPT
                       !.silence = 0,
                       !.started = IF clients[t].state = "connected" THEN 0 ELSE @]
               d == IF c.rip_vip /\ ~(clients[t].peer \in Vip)
                    THEN Dropped([c EXCEPT !.vip = FALSE])
                    ELSE IF c.state = "preconnected"
                    THEN [c EXCEPT !.state = "connected", !.rip_vip = FALSE,
                                   !.vip = @ \/ (clients[t].peer \in Vip)]
                    ELSE c
    <2>1. clients' = [clients EXCEPT ![t] = d] /\ Commands(t)
      BY <1>4 DEF New
    <2>2. clients[t].state # "free" /\ ~clients[t].bot
      BY <2>1 DEF Commands
    <2>3. c.peer = clients[t].peer /\ c.bot = clients[t].bot /\ c \in ClientType
      <3>1. 0 \in 0..MaxAge /\ 0 \in 0..(Timeout + 1)
        BY MaxAgeType, TimesAssumption
      <3> QED
        BY <1>1, <3>1 DEF ClientType
    <2> HIDE DEF c
    <2>4. d.peer = clients[t].peer /\ d.bot = clients[t].bot
      BY <2>2, <2>3 DEF Dropped, ClientType
    <2> QED
      BY <1>2, <2>1, <2>2, <2>4
  <1>5. CASE Begin(t) \/ Pause(t)
    <2>1. /\ clients[t].state # "free"
          /\ \/ clients' = [clients EXCEPT ![t].state = "spawned", ![t].silence = 0]
             \/ clients' = [clients EXCEPT ![t].silence = 0]
      BY <1>5 DEF Begin, Pause, Commands
    <2>2. \/ clients' = [clients EXCEPT
                           ![t] = [clients[t] EXCEPT !.state = "spawned", !.silence = 0]]
          \/ clients' = [clients EXCEPT ![t] = [clients[t] EXCEPT !.silence = 0]]
      BY <1>1, <2>1
    <2>3. PICK c : /\ c.peer = clients[t].peer /\ c.bot = clients[t].bot
                   /\ clients' = [clients EXCEPT ![t] = c]
      BY <1>1, <2>2 DEF ClientType
    <2> QED
      BY <1>2, <2>1, <2>3
  <1>6. CASE Join(t) \/ Observe(t)
    <2>1. PICK spectator \in BOOLEAN : Commands(t) /\ ChangeRole(t, spectator)
      BY <1>6 DEF Join, Observe
    <2> DEFINE c == [clients[t] EXCEPT !.spectator = spectator,
                                       !.started = 0, !.silence = 0]
    <2>2. clients' = [clients EXCEPT ![t] = c]
      BY <1>1, <2>1 DEF ChangeRole
    <2>3. c.peer = clients[t].peer /\ c.bot = clients[t].bot
      BY <1>1 DEF ClientType
    <2> HIDE DEF c
    <2> QED
      BY <1>2, <2>1, <2>2, <2>3 DEF Commands
  <1>7. CASE Drop(t)
    <2>1. clients[t].state # "free" /\ clients' = [clients EXCEPT ![t] = Dropped(clients[t])]
      BY <1>7 DEF Drop, Live
    <2>2. CASE clients[t].bot
      <3>1. Dropped(clients[t]) = Free
        BY <2>2 DEF Dropped
      <3>2. EndKept(clients[t], Free)
        BY <1>3 DEF EndKept
      <3> QED
        BY <1>1, <2>1, <3>1, <3>2, OneClientEnds
    <2>3. CASE ~clients[t].bot
      <3>1. /\ Dropped(clients[t]).peer = clients[t].peer
            /\ Dropped(clients[t]).bot = clients[t].bot
        BY <1>1, <2>3 DEF Dropped, ClientType
      <3> QED
        BY <1>2, <2>1, <3>1
    <2> QED
      BY <2>2, <2>3
  <1> QED
    BY <1>4, <1>5, <1>6, <1>7

LEMMA AllClientsEnds ==
    ASSUME ClientsInv, Ends(clients), SpawnServer \/ \E agrees \in BOOLEAN : Frame(agrees)
    PROVE  Ends(clients')
  <1> SUFFICES ASSUME NEW s \in Slot PROVE EndKept(clients[s], clients'[s])
    BY EndsKept
  <1>1. /\ clients[s] \in ClientType
        /\ clients[s].bot => clients[s].peer = NoPeer
    BY DEF ClientsInv, TypeOK, Ends
  <1>2. CASE clients'[s] = Free
    BY <1>2 DEF EndKept, Takes, Free
  <1>3. CASE clients'[s] # Free
    <2>1. /\ clients'[s].peer = clients[s].peer /\ clients'[s].bot = clients[s].bot
          /\ clients'[s].state # "free" => clients[s].state # "free"
      <3>1. CASE SpawnServer
        <4>1. clients'[s] = IF clients[s].state = "spawned"
                            THEN [clients[s] EXCEPT !.state = "connected"]
                            ELSE clients[s]
          BY <1>3, <3>1 DEF SpawnServer
        <4> QED
          BY <1>1, <4>1 DEF ClientType
      <3>2. CASE \E agrees \in BOOLEAN : Frame(agrees)
        <4> DEFINE aged == IF clients[s].state = "free" \/ clients[s].bot
                           THEN clients[s]
                           ELSE [clients[s] EXCEPT
                                   !.silence = IF Live(clients[s])
                                               THEN Older(@, Timeout + 1) ELSE 0,
                                   !.started = IF paused THEN @ ELSE Older(@, MaxAge)]
        <4>1. clients'[s] = aged
          <5> PICK agrees \in BOOLEAN : Frame(agrees)
            BY <3>2
          <5> QED
            BY <1>3 DEF Frame
        <4>2. /\ aged.peer = clients[s].peer /\ aged.bot = clients[s].bot
              /\ aged.state = clients[s].state
          BY <1>1 DEF ClientType
        <4> QED
          BY <4>1, <4>2
      <3> QED
        BY <3>1, <3>2
    <2> QED
      BY <1>1, <2>1 DEF EndKept, Takes, Fits
  <1> QED
    BY <1>2, <1>3

(* A packet never fits two slots, if a router gives no two clients the     *)
(* same port: then the first slot CheckReConnect finds is the only one.    *)
(* Without that (sv_main.c 1075) there may be two: see run two_slots.      *)
THEOREM OneSlotEach ==
    ASSUME \A q, r \in Address : q.ip = r.ip /\ q.port = r.port => q.qport = r.qport
    PROVE  Spec => []OneSlotPerClient
  <1>1. Init => EndsInv
    <2> SUFFICES ASSUME Init PROVE EndsInv
      OBVIOUS
    <2>1. \A s \in Slot : clients[s] = Free
      BY DEF Init
    <2> QED
      BY <2>1 DEF EndsInv, Ends, Takes, Free
  <1>2. EndsInv => OneSlotPerClient
    BY DEF EndsInv, Ends, Takes, Fits, OneSlotPerClient
  <1>3. ClientsInv /\ EndsInv /\ [Next]_vars => EndsInv'
    <2> SUFFICES ASSUME ClientsInv, Ends(clients), [Next]_vars PROVE Ends(clients')
      BY DEF EndsInv
    <2>1. ASSUME NEW p \in Address, NEW asked \in Asked,
                 NEW vip \in (IF p \in Vip THEN BOOLEAN ELSE {FALSE}),
                 DirectConnect(p, asked, vip)
          PROVE  Ends(clients')
      BY <2>1, DirectConnectEnds
    <2>2. ASSUME NEW p \in Address, Heard(p) PROVE Ends(clients')
      BY <2>2, HeardEnds
    <2>3. ASSUME NEW s \in Slot,
                 \/ New(s) \/ Begin(s) \/ Join(s) \/ Observe(s) \/ Pause(s) \/ Drop(s)
          PROVE  Ends(clients')
      BY <2>3, OthersEnds
    <2>4. CASE PF_setpause \/ UNCHANGED vars
      BY <2>4 DEF vars, PF_setpause
    <2> QED
      BY <2>1, <2>2, <2>3, <2>4, AddBotEnds, AllClientsEnds DEF Next
  <1> QED
    BY <1>1, <1>2, <1>3, ClientsInitially, ClientsInvariance, PTL DEF Spec
=============================================================================
