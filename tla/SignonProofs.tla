----------------------------- MODULE SignonProofs -----------------------------
(***************************************************************************)
(* A client in the game has all of the level the server is at: for lists   *)
(* of any length, any number of level changes and wherever they fall, as   *)
(* long as no list is asked for while netchan.message is half full (see    *)
(* the run signon_crowded).                                                *)
(*                                                                         *)
(* Requests and answers go round: each request is answered behind all that *)
(* is on its way to the client, and each answer makes the client ask       *)
(* behind all that is on its way to the server.  When the level changes    *)
(* all of them are old; from there they become new in the order they go    *)
(* round, so that none is two steps ahead of another.                      *)
(*                                                                         *)
(* asks is what is on its way to the server, news what is on its way to    *)
(* the client or waits to be.                                              *)
(***************************************************************************)
EXTENDS Signon, TLAPS

RequestType == [cmd : Stage \union {"new", "begin"}, level : 0..MaxLevels, n : Nat]
News == toClient \o message

(* How far a request or a message has come with a level: not yet, told of  *)
(* it, or asking for what it needs.                                        *)
RequestStep(level, r) ==
    IF r.level # level THEN 0 ELSE IF r.cmd = "soundlist" /\ r.n = 0 THEN 1 ELSE 2
MessageStep(level, m) ==
    IF m.kind = "reconnect" THEN 0
    ELSE IF m.level # level THEN 0 ELSE IF m.kind = "serverdata" THEN 1 ELSE 2

Near(a, b) == a <= b /\ b <= a + 1

(* In the order they go round, each is as far as the one before it, or one *)
(* step further, and the last no more than that ahead of the first.        *)
GoRoundInOrder(level, asks, news) ==
    /\ \A i, j \in DOMAIN asks :
          i <= j => Near(RequestStep(level, asks[i]), RequestStep(level, asks[j]))
    /\ \A i, j \in DOMAIN news :
          i <= j => Near(MessageStep(level, news[i]), MessageStep(level, news[j]))
    /\ \A i \in DOMAIN asks, j \in DOMAIN news :
          Near(RequestStep(level, asks[i]), MessageStep(level, news[j]))

(* The client asks for nothing of a level it was not told of, and what it  *)
(* will be told comes in the order of levels.                              *)
LevelsInOrder(level, known, asks, news) ==
    /\ known <= level
    /\ \A i \in DOMAIN asks : asks[i].level <= known
    /\ \A i \in DOMAIN news :
          /\ news[i].kind = "serverdata" => known <= news[i].level /\ news[i].level <= level
          /\ news[i].kind \in Stage => news[i].level = known
    /\ \A i, j \in DOMAIN news :
          i < j /\ news[i].kind = "serverdata" /\ news[j].kind # "reconnect"
             => news[i].level <= news[j].level

(* The stages behind the client when it asks for one. *)
Prior == [soundlist |-> {}, modellist |-> {"soundlist"},
          prespawn |-> {"soundlist", "modellist"},
          spawn |-> {"soundlist", "modellist", "prespawn"}, begin |-> Stage]

(* has holds all that comes before item n of a stage. *)
Has(level, has, cmd, n) ==
    \A stage \in Stage : \A k \in 0 .. Items[stage] - 1 :
        stage \in Prior[cmd] \/ (stage = cmd /\ k < n) => <<<<level, stage>>, k>> \in has

PartFrom(m, a) ==
    /\ a < m.next /\ m.items = a .. m.next - 1
    /\ m.next <= Items[m.kind] /\ m.done = (m.next = Items[m.kind])

(* Who asks for something of the level has what comes before it, and so    *)
(* has who is sent it; behind the news of the level, nobody has come far.  *)
HasWhatComesBefore(level, has, asks, news) ==
    /\ \A i \in DOMAIN asks :
          asks[i].level = level => asks[i].cmd # "new" /\ Has(level, has, asks[i].cmd, asks[i].n)
    /\ \A i \in DOMAIN news :
          news[i].kind \in Stage /\ news[i].level = level =>
             \E a \in 0 .. Items[news[i].kind] - 1 :
                PartFrom(news[i], a) /\ Has(level, has, news[i].kind, a)
    /\ \A i, j \in DOMAIN news :
          /\ i < j /\ news[i].kind = "serverdata"
          /\ news[j].kind \in Stage /\ news[j].level = level
          => news[j].kind = "soundlist" /\ PartFrom(news[j], 0)

NothingElse == got \subseteq Whole(count)

AllThere(level, asks, news) ==
    /\ \A i \in DOMAIN asks : RequestStep(level, asks[i]) = 2
    /\ \A i \in DOMAIN news : MessageStep(level, news[i]) = 2

RoundInv(level, known, has, asks, news) ==
    /\ GoRoundInOrder(level, asks, news)
    /\ LevelsInOrder(level, known, asks, news)
    /\ HasWhatComesBefore(level, has, asks, news)

SignonInv ==
    /\ TypeOK
    /\ RoundInv(spawncount, count, got, toServer, News)
    /\ NothingElse
    /\ state = "spawned" => count = spawncount /\ AllThere(spawncount, toServer, News)
    /\ InGameWithTheLevel

(* What the theorem needs to know of the constants. *)
Sane ==
    /\ Crowded = FALSE
    /\ Items \in [Stage -> Nat \ {0}]
    /\ MaxLevels \in Nat \ {0}

-----------------------------------------------------------------------------
(***************************************************************************)
(* What messages are made of, and how far they can be.                     *)
(***************************************************************************)
LEMMA MessageFields ==
    ASSUME Sane, NEW m \in Message
    PROVE  /\ m.kind \in Stage \union {"serverdata", "reconnect"}
           /\ m.kind # "reconnect" => m.level \in Level
           /\ m.kind = "reconnect" => m = Reconnect
           /\ m.kind = "serverdata" => m = Serverdata(m.level)
           /\ m.kind \in Stage => /\ m.items \in SUBSET (0 .. Items[m.kind] - 1)
                                  /\ m.next \in Nat /\ m.done \in BOOLEAN
<1>1. CASE m \in [kind : {"serverdata"}, level : Level]
  BY <1>1 DEF Serverdata, Stage, Lists
<1>2. CASE m = Reconnect
  BY <1>2 DEF Reconnect, Stage, Lists
<1>3. ASSUME NEW stage \in Stage,
             m \in [kind : {stage}, level : Level, items : SUBSET (0 .. Items[stage] - 1),
                    next : 0 .. Items[stage], done : BOOLEAN]
      PROVE  /\ m.kind = stage /\ m.level \in Level
             /\ m.items \in SUBSET (0 .. Items[stage] - 1)
             /\ m.next \in Nat /\ m.done \in BOOLEAN
  BY <1>3 DEF Sane
<1>4. CASE \E stage \in Stage :
              m \in [kind : {stage}, level : Level, items : SUBSET (0 .. Items[stage] - 1),
                     next : 0 .. Items[stage], done : BOOLEAN]
  BY <1>4, <1>3 DEF Stage, Lists
<1> QED
  BY <1>1, <1>2, <1>4 DEF Message

LEMMA Steps ==
    ASSUME Sane, NEW level \in Level
    PROVE  /\ \A r \in RequestType : RequestStep(level, r) \in 0..2
           /\ \A m \in Message : MessageStep(level, m) \in 0..2
  BY DEF RequestStep, MessageStep

(***************************************************************************)
(* The last of what is on its way to the client may be cleared, and a      *)
(* request may be served without an answer.                                *)
(***************************************************************************)
LEMMA Cleared ==
    ASSUME Sane, NEW level \in Level, NEW known \in 0..MaxLevels, NEW has,
           NEW asks \in Seq(RequestType), NEW news \in Seq(Message),
           NEW p \in Seq(Message), Len(p) <= Len(news),
           \A i \in DOMAIN p : p[i] = news[i],
           RoundInv(level, known, has, asks, news)
    PROVE  RoundInv(level, known, has, asks, p)
<1>1. DOMAIN p \subseteq DOMAIN news /\ \A i \in DOMAIN p : i \in Int
  OBVIOUS
<1>2. GoRoundInOrder(level, asks, p)
  BY <1>1 DEF RoundInv, GoRoundInOrder
<1>3. LevelsInOrder(level, known, asks, p)
  BY <1>1 DEF RoundInv, LevelsInOrder
<1>4. HasWhatComesBefore(level, has, asks, p)
  BY <1>1 DEF RoundInv, HasWhatComesBefore
<1> QED
  BY <1>2, <1>3, <1>4 DEF RoundInv

LEMMA Served ==
    ASSUME Sane, NEW level \in Level, NEW known \in 0..MaxLevels, NEW has,
           NEW asks \in Seq(RequestType), NEW news \in Seq(Message), asks # <<>>,
           RoundInv(level, known, has, asks, news)
    PROVE  RoundInv(level, known, has, Tail(asks), news)
<1> DEFINE rest == Tail(asks)
<1>1. /\ DOMAIN rest = 1 .. Len(asks) - 1 /\ DOMAIN asks = 1 .. Len(asks)
      /\ \A i \in DOMAIN rest : i + 1 \in DOMAIN asks /\ rest[i] = asks[i + 1]
      /\ Len(asks) \in Nat
  OBVIOUS
<1> HIDE DEF rest
<1>2. GoRoundInOrder(level, rest, news)
  <2>1. ASSUME NEW i \in DOMAIN rest, NEW j \in DOMAIN rest, i <= j
        PROVE  Near(RequestStep(level, rest[i]), RequestStep(level, rest[j]))
    <3>1. i + 1 <= j + 1
      BY <1>1, <2>1
    <3> QED
      BY <1>1, <3>1 DEF RoundInv, GoRoundInOrder
  <2>2. ASSUME NEW i \in DOMAIN rest, NEW j \in DOMAIN news
        PROVE  Near(RequestStep(level, rest[i]), MessageStep(level, news[j]))
    BY <1>1 DEF RoundInv, GoRoundInOrder
  <2> QED
    BY <2>1, <2>2 DEF RoundInv, GoRoundInOrder
<1>3. LevelsInOrder(level, known, rest, news)
  BY <1>1 DEF RoundInv, LevelsInOrder
<1>4. HasWhatComesBefore(level, has, rest, news)
  BY <1>1 DEF RoundInv, HasWhatComesBefore
<1> QED
  BY <1>2, <1>3, <1>4 DEF RoundInv, rest

(* A request is answered behind all that is on its way to the client. *)
LEMMA Answered ==
    ASSUME Sane, NEW level \in Level, NEW known \in 0..MaxLevels, NEW has,
           NEW asks \in Seq(RequestType), NEW news \in Seq(Message), asks # <<>>,
           RoundInv(level, known, has, asks, news),
           NEW m \in Message,
           LET step == RequestStep(level, Head(asks)) IN
              MessageStep(level, m) = IF step = 2 THEN 2 ELSE step + 1
    PROVE  GoRoundInOrder(level, Tail(asks), Append(news, m))
<1> DEFINE rest == Tail(asks)
           more == Append(news, m)
           first == RequestStep(level, Head(asks))
<1>1. RoundInv(level, known, has, rest, news)
  BY Served
<1>2. /\ DOMAIN more = 1 .. Len(news) + 1 /\ DOMAIN news = 1 .. Len(news)
      /\ Len(news) \in Nat
      /\ \A i \in DOMAIN news : more[i] = news[i]
      /\ more[Len(news) + 1] = m
  OBVIOUS
<1>3. /\ first \in 0..2
      /\ Head(asks) = asks[1] /\ 1 \in DOMAIN asks
      /\ \A i \in DOMAIN rest : i + 1 \in DOMAIN asks /\ rest[i] = asks[i + 1] /\ i \in Nat
  BY Steps
<1>4. \A i \in DOMAIN rest : Near(first, RequestStep(level, rest[i]))
                             /\ RequestStep(level, rest[i]) \in 0..2
  <2> TAKE i \in DOMAIN rest
  <2>1. 1 <= i + 1 /\ i + 1 \in DOMAIN asks /\ asks[i + 1] \in RequestType
    BY <1>3
  <2>2. RequestStep(level, asks[i + 1]) \in 0..2
    BY <2>1, Steps
  <2>3. Near(RequestStep(level, asks[1]), RequestStep(level, asks[i + 1]))
    BY <1>3, <2>1 DEF RoundInv, GoRoundInOrder
  <2> QED
    BY <1>3, <2>2, <2>3
<1>5. \A i \in DOMAIN news : Near(first, MessageStep(level, news[i]))
                             /\ MessageStep(level, news[i]) \in 0..2
  BY <1>3, Steps DEF RoundInv, GoRoundInOrder
<1>6. MessageStep(level, m) = IF first = 2 THEN 2 ELSE first + 1
  OBVIOUS
<1> HIDE DEF rest, more, first
<1>7. \A i \in DOMAIN rest : Near(RequestStep(level, rest[i]), MessageStep(level, m))
  BY <1>3, <1>4, <1>6 DEF Near
<1>8. \A i \in DOMAIN news : Near(MessageStep(level, news[i]), MessageStep(level, m))
  BY <1>3, <1>5, <1>6 DEF Near
<1>9. Near(MessageStep(level, m), MessageStep(level, m))
  BY <1>3, <1>6 DEF Near
<1>10. ASSUME NEW i \in DOMAIN more, NEW j \in DOMAIN more, i <= j
       PROVE  Near(MessageStep(level, more[i]), MessageStep(level, more[j]))
  <2>1. CASE j \in DOMAIN news
    BY <2>1, <1>1, <1>2, <1>10 DEF RoundInv, GoRoundInOrder
  <2>2. CASE j = Len(news) + 1
    BY <2>2, <1>2, <1>8, <1>9, <1>10
  <2> QED
    BY <2>1, <2>2, <1>2
<1>11. ASSUME NEW i \in DOMAIN rest, NEW j \in DOMAIN more
       PROVE  Near(RequestStep(level, rest[i]), MessageStep(level, more[j]))
  <2>1. CASE j \in DOMAIN news
    BY <2>1, <1>1, <1>2 DEF RoundInv, GoRoundInOrder
  <2>2. CASE j = Len(news) + 1
    BY <2>2, <1>2, <1>7
  <2> QED
    BY <2>1, <2>2, <1>2
<1>12. GoRoundInOrder(level, rest, more)
  BY <1>1, <1>10, <1>11 DEF RoundInv, GoRoundInOrder
<1> QED
  BY <1>12 DEF rest, more

LEMMA AnsweredWithLevel ==
    ASSUME Sane, NEW level \in Level, NEW known \in 0..MaxLevels, NEW has,
           NEW asks \in Seq(RequestType), NEW news \in Seq(Message), asks # <<>>,
           RoundInv(level, known, has, asks, news), Head(asks).level # level
    PROVE  RoundInv(level, known, has, Tail(asks), Append(news, Serverdata(level)))
<1> DEFINE rest == Tail(asks)
           m == Serverdata(level)
           more == Append(news, m)
<1>1. RoundInv(level, known, has, rest, news)
  BY Served
<1>2. m \in Message
  BY DEF Serverdata, Message
<1>3. /\ DOMAIN more = 1 .. Len(news) + 1 /\ DOMAIN news = 1 .. Len(news)
      /\ Len(news) \in Nat
      /\ \A i \in DOMAIN news : more[i] = news[i] /\ i \in Nat /\ news[i] \in Message
      /\ more[Len(news) + 1] = m
  OBVIOUS
<1>4. m.kind = "serverdata" /\ m.level = level /\ m.kind \notin Stage
  BY DEF Serverdata, Stage, Lists
<1>5. GoRoundInOrder(level, rest, more)
  <2>1. RequestStep(level, Head(asks)) = 0 /\ MessageStep(level, m) = 1
    BY <1>4 DEF RequestStep, MessageStep
  <2> QED
    BY <1>2, <2>1, Answered
<1> HIDE DEF rest, m, more
<1>6. LevelsInOrder(level, known, rest, more)
  <2>1. /\ known <= level
        /\ \A i \in DOMAIN rest : rest[i].level <= known
    BY <1>1 DEF RoundInv, LevelsInOrder
  <2>2. ASSUME NEW i \in DOMAIN more
        PROVE /\ more[i].kind = "serverdata" => known <= more[i].level /\ more[i].level <= level
              /\ more[i].kind \in Stage => more[i].level = known
    <3>1. CASE i \in DOMAIN news
      BY <3>1, <1>1, <1>3 DEF RoundInv, LevelsInOrder
    <3>2. CASE i = Len(news) + 1
      BY <3>2, <1>3, <1>4, <2>1 DEF Level
    <3> QED
      BY <3>1, <3>2, <1>3
  <2>3. ASSUME NEW i \in DOMAIN more, NEW j \in DOMAIN more,
               i < j, more[i].kind = "serverdata", more[j].kind # "reconnect"
        PROVE  more[i].level <= more[j].level
    <3>1. CASE j \in DOMAIN news
      <4>1. i \in DOMAIN news
        BY <3>1, <1>3, <2>3
      <4> QED
        BY <3>1, <4>1, <1>1, <1>3, <2>3 DEF RoundInv, LevelsInOrder
    <3>2. CASE j = Len(news) + 1
      <4>1. i \in DOMAIN news
        BY <3>2, <1>3, <2>3
      <4>2. news[i].level <= level
        BY <4>1, <1>1, <1>3, <2>3 DEF RoundInv, LevelsInOrder
      <4> QED
        BY <3>2, <4>1, <4>2, <1>3, <1>4
    <3> QED
      BY <3>1, <3>2, <1>3
  <2> QED
    BY <2>1, <2>2, <2>3 DEF LevelsInOrder
<1>7. HasWhatComesBefore(level, has, rest, more)
  <2>1. ASSUME NEW i \in DOMAIN more, more[i].kind \in Stage, more[i].level = level
        PROVE  \E a \in 0 .. Items[more[i].kind] - 1 :
                  PartFrom(more[i], a) /\ Has(level, has, more[i].kind, a)
    <3>1. i \in DOMAIN news
      BY <1>3, <1>4, <2>1
    <3> QED
      BY <3>1, <1>1, <1>3, <2>1 DEF RoundInv, HasWhatComesBefore
  <2>2. ASSUME NEW i \in DOMAIN more, NEW j \in DOMAIN more,
               i < j, more[i].kind = "serverdata",
               more[j].kind \in Stage, more[j].level = level
        PROVE  more[j].kind = "soundlist" /\ PartFrom(more[j], 0)
    <3>1. j \in DOMAIN news
      BY <1>3, <1>4, <2>2
    <3>2. i \in DOMAIN news
      BY <3>1, <1>3, <2>2
    <3> QED
      BY <3>1, <3>2, <1>1, <1>3, <2>2 DEF RoundInv, HasWhatComesBefore
  <2> QED
    BY <1>1, <2>1, <2>2 DEF RoundInv, HasWhatComesBefore
<1> QED
  BY <1>5, <1>6, <1>7 DEF RoundInv, rest, m, more

(* The part that answers a request for it. *)
PartOf(level, r, next) ==
    [kind |-> r.cmd, level |-> level, items |-> r.n .. next - 1, next |-> next,
     done |-> next = Items[r.cmd]]

LEMMA AnsweredWithPart ==
    ASSUME Sane, NEW level \in Level, NEW known \in 0..MaxLevels, NEW has,
           NEW asks \in Seq(RequestType), NEW news \in Seq(Message), asks # <<>>,
           RoundInv(level, known, has, asks, news),
           Head(asks).level = level, Head(asks).cmd \in Stage,
           NEW next \in Head(asks).n + 1 .. Items[Head(asks).cmd]
    PROVE  /\ PartOf(level, Head(asks), next) \in Message
           /\ RoundInv(level, known, has, Tail(asks),
                       Append(news, PartOf(level, Head(asks), next)))
<1> DEFINE rest == Tail(asks)
           r == Head(asks)
           m == PartOf(level, r, next)
           more == Append(news, m)
<1>1. RoundInv(level, known, has, rest, news)
  BY Served
<1>0. /\ r \in RequestType /\ r = asks[1] /\ 1 \in DOMAIN asks
      /\ r.n \in Nat /\ Items[r.cmd] \in Nat
      /\ next \in Nat /\ r.n < next /\ next <= Items[r.cmd]
  <2>1. r \in RequestType /\ r = asks[1] /\ 1 \in DOMAIN asks
    OBVIOUS
  <2> QED
    BY <2>1 DEF RequestType, Sane
<1>2. m \in Message
  <2>1. m \in [kind : {r.cmd}, level : Level, items : SUBSET (0 .. Items[r.cmd] - 1),
               next : 0 .. Items[r.cmd], done : BOOLEAN]
    BY <1>0 DEF PartOf
  <2> QED
    BY <2>1 DEF Message
<1>3. /\ DOMAIN more = 1 .. Len(news) + 1 /\ DOMAIN news = 1 .. Len(news)
      /\ Len(news) \in Nat
      /\ \A i \in DOMAIN news : more[i] = news[i] /\ i \in Nat /\ news[i] \in Message
      /\ more[Len(news) + 1] = m
  BY <1>2
<1>4. /\ m.kind = r.cmd /\ m.level = level
      /\ m.kind # "serverdata" /\ m.kind # "reconnect"
  BY DEF PartOf, Stage, Lists
<1>5. PartFrom(m, r.n) /\ r.n \in 0 .. Items[r.cmd] - 1
  BY <1>0 DEF PartOf, PartFrom
<1>6. GoRoundInOrder(level, rest, more)
  <2>1. RequestStep(level, r) \in {1, 2} /\ MessageStep(level, m) = 2
    BY <1>4 DEF RequestStep, MessageStep
  <2> QED
    BY <1>2, <2>1, Answered
<1>7. known = level /\ level \in Nat
  BY <1>0 DEF RoundInv, LevelsInOrder, Level
<1>8. Has(level, has, r.cmd, r.n)
  BY <1>0 DEF RoundInv, HasWhatComesBefore
<1>9. \A i \in DOMAIN news : Near(RequestStep(level, r), MessageStep(level, news[i]))
  BY <1>0 DEF RoundInv, GoRoundInOrder
<1> HIDE DEF rest, m, more, r
<1>10. LevelsInOrder(level, known, rest, more)
  <2>1. /\ known <= level
        /\ \A i \in DOMAIN rest : rest[i].level <= known
    BY <1>1 DEF RoundInv, LevelsInOrder
  <2>2. ASSUME NEW i \in DOMAIN more
        PROVE /\ more[i].kind = "serverdata" => known <= more[i].level /\ more[i].level <= level
              /\ more[i].kind \in Stage => more[i].level = known
    <3>1. CASE i \in DOMAIN news
      BY <3>1, <1>1, <1>3 DEF RoundInv, LevelsInOrder
    <3>2. CASE i = Len(news) + 1
      BY <3>2, <1>3, <1>4, <1>7
    <3> QED
      BY <3>1, <3>2, <1>3
  <2>3. ASSUME NEW i \in DOMAIN more, NEW j \in DOMAIN more,
               i < j, more[i].kind = "serverdata", more[j].kind # "reconnect"
        PROVE  more[i].level <= more[j].level
    <3>1. CASE j \in DOMAIN news
      <4>1. i \in DOMAIN news
        BY <3>1, <1>3, <2>3
      <4> QED
        BY <3>1, <4>1, <1>1, <1>3, <2>3 DEF RoundInv, LevelsInOrder
    <3>2. CASE j = Len(news) + 1
      <4>1. i \in DOMAIN news
        BY <3>2, <1>3, <2>3
      <4>2. news[i].level <= level
        BY <4>1, <1>1, <1>3, <2>3 DEF RoundInv, LevelsInOrder
      <4> QED
        BY <3>2, <4>1, <4>2, <1>3, <1>4
    <3> QED
      BY <3>1, <3>2, <1>3
  <2> QED
    BY <2>1, <2>2, <2>3 DEF LevelsInOrder
<1>11. HasWhatComesBefore(level, has, rest, more)
  <2>1. ASSUME NEW i \in DOMAIN more, more[i].kind \in Stage, more[i].level = level
        PROVE  \E a \in 0 .. Items[more[i].kind] - 1 :
                  PartFrom(more[i], a) /\ Has(level, has, more[i].kind, a)
    <3>1. CASE i \in DOMAIN news
      BY <3>1, <1>1, <1>3, <2>1 DEF RoundInv, HasWhatComesBefore
    <3>2. CASE i = Len(news) + 1
      BY <3>2, <1>3, <1>4, <1>5, <1>8
    <3> QED
      BY <3>1, <3>2, <1>3
  <2>2. ASSUME NEW i \in DOMAIN more, NEW j \in DOMAIN more,
               i < j, more[i].kind = "serverdata",
               more[j].kind \in Stage, more[j].level = level
        PROVE  more[j].kind = "soundlist" /\ PartFrom(more[j], 0)
    <3>1. CASE j \in DOMAIN news
      <4>1. i \in DOMAIN news
        BY <3>1, <1>3, <2>2
      <4> QED
        BY <3>1, <4>1, <1>1, <1>3, <2>2 DEF RoundInv, HasWhatComesBefore
    <3>2. CASE j = Len(news) + 1
      <4>1. i \in DOMAIN news /\ news[i].kind = "serverdata" /\ news[i].level \in Int
        BY <3>2, <1>3, <2>2, MessageFields DEF Level
      <4>2. news[i].level = level
        BY <4>1, <1>1, <1>7 DEF RoundInv, LevelsInOrder
      <4>3. MessageStep(level, news[i]) = 1
        BY <4>1, <4>2 DEF MessageStep
      <4>4. RequestStep(level, r) # 2
        BY <4>1, <4>3, <1>9 DEF Near
      <4>5. r.cmd = "soundlist" /\ r.n = 0
        BY <4>4 DEF RequestStep, r
      <4> QED
        BY <3>2, <4>5, <1>3, <1>4, <1>5
    <3> QED
      BY <3>1, <3>2, <1>3
  <2> QED
    BY <1>1, <2>1, <2>2 DEF RoundInv, HasWhatComesBefore
<1>12. RoundInv(level, known, has, rest, more)
  BY <1>6, <1>10, <1>11 DEF RoundInv
<1> QED
  BY <1>2, <1>12 DEF rest, m, more, r

(***************************************************************************)
(* What the client is told makes it ask behind all that is on its way to   *)
(* the server.                                                             *)
(***************************************************************************)
LEMMA Asked ==
    ASSUME Sane, NEW level \in Level,
           NEW asks \in Seq(RequestType), NEW news \in Seq(Message), news # <<>>,
           GoRoundInOrder(level, asks, news),
           NEW r \in RequestType,
           RequestStep(level, r) = MessageStep(level, Head(news))
    PROVE  GoRoundInOrder(level, Append(asks, r), Tail(news))
<1> DEFINE more == Append(asks, r)
           rest == Tail(news)
           step == MessageStep(level, Head(news))
<1>1. /\ DOMAIN more = 1 .. Len(asks) + 1 /\ DOMAIN asks = 1 .. Len(asks)
      /\ Len(asks) \in Nat
      /\ \A i \in DOMAIN asks : more[i] = asks[i] /\ i \in Nat
      /\ more[Len(asks) + 1] = r
  OBVIOUS
<1>2. /\ Head(news) = news[1] /\ 1 \in DOMAIN news
      /\ \A i \in DOMAIN rest : /\ i \in Nat /\ i + 1 \in DOMAIN news /\ 1 <= i + 1
                                /\ rest[i] = news[i + 1]
  OBVIOUS
<1>3. \A i \in DOMAIN asks : Near(RequestStep(level, asks[i]), step)
  BY <1>2 DEF GoRoundInOrder
<1>4. \A i \in DOMAIN rest : Near(step, MessageStep(level, rest[i]))
  BY <1>2 DEF GoRoundInOrder
<1>5. step = RequestStep(level, r) /\ step \in Int
  BY Steps
<1> HIDE DEF more, rest, step
<1>6. Near(step, step)
  BY <1>5 DEF Near
<1>7. ASSUME NEW i \in DOMAIN more, NEW j \in DOMAIN more, i <= j
      PROVE  Near(RequestStep(level, more[i]), RequestStep(level, more[j]))
  <2>1. CASE j \in DOMAIN asks
    BY <2>1, <1>1, <1>7 DEF GoRoundInOrder
  <2>2. CASE j = Len(asks) + 1
    BY <2>2, <1>1, <1>3, <1>5, <1>6, <1>7
  <2> QED
    BY <2>1, <2>2, <1>1
<1>8. ASSUME NEW i \in DOMAIN rest, NEW j \in DOMAIN rest, i <= j
      PROVE  Near(MessageStep(level, rest[i]), MessageStep(level, rest[j]))
  <2>1. i + 1 <= j + 1
    BY <1>2, <1>8
  <2> QED
    BY <2>1, <1>2 DEF GoRoundInOrder
<1>9. ASSUME NEW i \in DOMAIN more, NEW j \in DOMAIN rest
      PROVE  Near(RequestStep(level, more[i]), MessageStep(level, rest[j]))
  <2>1. CASE i \in DOMAIN asks
    BY <2>1, <1>1, <1>2 DEF GoRoundInOrder
  <2>2. CASE i = Len(asks) + 1
    BY <2>2, <1>1, <1>4, <1>5
  <2> QED
    BY <2>1, <2>2, <1>1
<1>10. GoRoundInOrder(level, more, rest)
  BY <1>7, <1>8, <1>9 DEF GoRoundInOrder
<1> QED
  BY <1>10 DEF more, rest

(* The positions of both streams after the client has read a message. *)
LEMMA Moved ==
    ASSUME NEW asks \in Seq(RequestType), NEW news \in Seq(Message), news # <<>>,
           NEW r \in RequestType
    PROVE  /\ Append(asks, r) \in Seq(RequestType) /\ Tail(news) \in Seq(Message)
           /\ \A i \in DOMAIN Append(asks, r) :
                 \/ i \in DOMAIN asks /\ Append(asks, r)[i] = asks[i]
                 \/ Append(asks, r)[i] = r
           /\ \A i \in DOMAIN Tail(news) :
                 /\ i \in Nat /\ i + 1 \in DOMAIN news /\ 1 < i + 1
                 /\ Tail(news)[i] = news[i + 1]
           /\ 1 \in DOMAIN news /\ Head(news) = news[1] /\ Head(news) \in Message
  OBVIOUS

LEMMA LevelsGoOn ==
    ASSUME Sane, NEW level \in Level, NEW known \in 0..MaxLevels,
           NEW asks \in Seq(RequestType), NEW news \in Seq(Message), news # <<>>,
           LevelsInOrder(level, known, asks, news),
           NEW r \in RequestType, r.level <= known
    PROVE  LevelsInOrder(level, known, Append(asks, r), Tail(news))
<1> DEFINE more == Append(asks, r)
           rest == Tail(news)
<1>1. /\ \A i \in DOMAIN more : more[i] = r \/ (i \in DOMAIN asks /\ more[i] = asks[i])
      /\ \A i \in DOMAIN rest :
            i \in Nat /\ i + 1 \in DOMAIN news /\ rest[i] = news[i + 1]
  BY Moved
<1> HIDE DEF more, rest
<1>2. \A i \in DOMAIN more : more[i].level <= known
  BY <1>1 DEF LevelsInOrder
<1>3. ASSUME NEW i \in DOMAIN rest, NEW j \in DOMAIN rest, i < j,
             rest[i].kind = "serverdata", rest[j].kind # "reconnect"
      PROVE  rest[i].level <= rest[j].level
  <2>1. i + 1 < j + 1
    BY <1>1, <1>3
  <2> QED
    BY <2>1, <1>1, <1>3 DEF LevelsInOrder
<1>4. LevelsInOrder(level, known, more, rest)
  BY <1>1, <1>2, <1>3 DEF LevelsInOrder
<1> QED
  BY <1>4 DEF more, rest

LEMMA AskedAgain ==
    ASSUME Sane, NEW level \in Level, NEW known \in 0..MaxLevels, NEW has,
           NEW asks \in Seq(RequestType), NEW news \in Seq(Message), news # <<>>,
           RoundInv(level, known, has, asks, news), Head(news).kind = "reconnect"
    PROVE  RoundInv(level, known, has, Append(asks, New), Tail(news))
<1>1. New \in RequestType /\ New.level = 0 /\ New.level # level
  BY DEF New, Request, RequestType, Level, Sane
<1>2. GoRoundInOrder(level, Append(asks, New), Tail(news))
  <2>1. RequestStep(level, New) = MessageStep(level, Head(news))
    BY <1>1 DEF RequestStep, MessageStep
  <2> QED
    BY <1>1, <2>1, Asked DEF RoundInv
<1>3. LevelsInOrder(level, known, Append(asks, New), Tail(news))
  BY <1>1, LevelsGoOn DEF RoundInv
<1>4. HasWhatComesBefore(level, has, Append(asks, New), Tail(news))
  <2> DEFINE more == Append(asks, New)
             rest == Tail(news)
  <2>1. /\ \A i \in DOMAIN more : more[i] = New \/ (i \in DOMAIN asks /\ more[i] = asks[i])
        /\ \A i \in DOMAIN rest :
              i \in Nat /\ i + 1 \in DOMAIN news /\ rest[i] = news[i + 1]
    BY <1>1, Moved
  <2> HIDE DEF more, rest
  <2>2. \A i, j \in DOMAIN rest : i < j => i + 1 < j + 1
    BY <2>1
  <2>3. HasWhatComesBefore(level, has, more, rest)
    BY <1>1, <2>1, <2>2 DEF RoundInv, HasWhatComesBefore
  <2> QED
    BY <2>3 DEF more, rest
<1> QED
  BY <1>2, <1>3, <1>4 DEF RoundInv

LEMMA ToldLevel ==
    ASSUME Sane, NEW level \in Level, NEW known \in 0..MaxLevels, NEW has,
           NEW asks \in Seq(RequestType), NEW news \in Seq(Message), news # <<>>,
           RoundInv(level, known, has, asks, news), Head(news).kind = "serverdata"
    PROVE  LET told == Head(news).level IN
           RoundInv(level, told, {}, Append(asks, Request("soundlist", told, 0)), Tail(news))
<1> DEFINE told == Head(news).level
           r == Request("soundlist", told, 0)
           more == Append(asks, r)
           rest == Tail(news)
<1>1. Head(news) \in Message /\ told \in Level /\ known <= told /\ told <= level
  <2>1. Head(news) \in Message /\ Head(news) = news[1] /\ 1 \in DOMAIN news
    OBVIOUS
  <2> QED
    BY <2>1, MessageFields DEF RoundInv, LevelsInOrder
<1>2. /\ r \in RequestType /\ r.level = told /\ r.cmd = "soundlist" /\ r.n = 0
      /\ level \in Nat /\ told \in Nat /\ known \in Nat
  BY <1>1 DEF Request, RequestType, Level, Sane, Stage, Lists
<1>3. /\ \A i \in DOMAIN more : \/ i \in DOMAIN asks /\ more[i] = asks[i]
                                \/ more[i] = r
      /\ \A i \in DOMAIN rest :
            /\ i \in Nat /\ i + 1 \in DOMAIN news /\ 1 < i + 1
            /\ rest[i] = news[i + 1]
      /\ 1 \in DOMAIN news /\ Head(news) = news[1] /\ told = news[1].level
      /\ \A i \in DOMAIN asks : asks[i] \in RequestType /\ asks[i].level \in Nat
  <2>1. \A i \in DOMAIN asks : asks[i] \in RequestType
    OBVIOUS
  <2>2. \A i \in DOMAIN asks : asks[i].level \in Nat
    BY <2>1 DEF RequestType
  <2> QED
    BY <1>2, <2>1, <2>2, Moved
<1>4. GoRoundInOrder(level, more, rest)
  <2>1. RequestStep(level, r) = MessageStep(level, Head(news))
    BY <1>2 DEF RequestStep, MessageStep
  <2> QED
    BY <1>2, <2>1, Asked DEF RoundInv
<1>5. told = level => MessageStep(level, Head(news)) = 1
  BY DEF MessageStep
<1>6. told = level =>
        \A i \in DOMAIN asks :
           asks[i].level = level => asks[i].cmd = "soundlist" /\ asks[i].n = 0
  <2> SUFFICES ASSUME told = level, NEW i \in DOMAIN asks, asks[i].level = level
               PROVE  asks[i].cmd = "soundlist" /\ asks[i].n = 0
    OBVIOUS
  <2>1. Near(RequestStep(level, asks[i]), 1)
    BY <1>3, <1>5 DEF RoundInv, GoRoundInOrder
  <2> QED
    BY <2>1 DEF Near, RequestStep
<1>7. /\ \A i \in DOMAIN asks : asks[i].level <= known
      /\ \A i \in DOMAIN news :
            news[i].kind \in Stage => news[i].level = known
  BY DEF RoundInv, LevelsInOrder
<1>8. \A k \in 0 .. Items["soundlist"] - 1, st \in {"soundlist"} : ~ k < 0
  BY DEF Sane, Stage, Lists
<1>9. Has(level, {}, "soundlist", 0)
  BY <1>8 DEF Has, Prior
<1> HIDE DEF told, r, more, rest
<1>10. \A i \in DOMAIN rest : rest[i].kind \in Stage => rest[i].level = known /\ known = told
  <2> SUFFICES ASSUME NEW i \in DOMAIN rest, rest[i].kind \in Stage
               PROVE  rest[i].level = known /\ known = told
    OBVIOUS
  <2>1. rest[i].level = known /\ rest[i] = news[i + 1] /\ 1 < i + 1 /\ i + 1 \in DOMAIN news
    BY <1>3, <1>7
  <2>2. rest[i].kind # "reconnect"
    BY DEF Stage, Lists
  <2>3. told <= known
    BY <1>3, <2>1, <2>2 DEF RoundInv, LevelsInOrder
  <2> QED
    BY <1>1, <1>2, <2>1, <2>3
<1>11. LevelsInOrder(level, told, more, rest)
  <2>1. \A i \in DOMAIN more : more[i].level <= told
    BY <1>1, <1>2, <1>3, <1>7
  <2>2. \A i \in DOMAIN rest :
           /\ rest[i].kind = "serverdata" => told <= rest[i].level /\ rest[i].level <= level
           /\ rest[i].kind \in Stage => rest[i].level = told
    <3> TAKE i \in DOMAIN rest
    <3>1. rest[i].kind = "serverdata" => told <= rest[i].level
      BY <1>3 DEF RoundInv, LevelsInOrder
    <3>2. rest[i].kind = "serverdata" => rest[i].level <= level
      BY <1>3 DEF RoundInv, LevelsInOrder
    <3> QED
      BY <3>1, <3>2, <1>10
  <2>3. ASSUME NEW i \in DOMAIN rest, NEW j \in DOMAIN rest, i < j,
               rest[i].kind = "serverdata", rest[j].kind # "reconnect"
        PROVE  rest[i].level <= rest[j].level
    <3>1. i + 1 < j + 1
      BY <1>3, <2>3
    <3> QED
      BY <3>1, <1>3, <2>3 DEF RoundInv, LevelsInOrder
  <2> QED
    BY <1>1, <2>1, <2>2, <2>3 DEF LevelsInOrder
<1>12. HasWhatComesBefore(level, {}, more, rest)
  <2>1. ASSUME NEW i \in DOMAIN more, more[i].level = level
        PROVE  more[i].cmd # "new" /\ Has(level, {}, more[i].cmd, more[i].n)
    <3>1. told = level
      BY <1>1, <1>2, <1>3, <1>7, <2>1
    <3>2. more[i].cmd = "soundlist" /\ more[i].n = 0
      BY <3>1, <1>2, <1>3, <1>6, <2>1
    <3> QED
      BY <3>2, <1>9
  <2>2. ASSUME NEW i \in DOMAIN rest, rest[i].kind \in Stage, rest[i].level = level
        PROVE  /\ rest[i].kind = "soundlist" /\ PartFrom(rest[i], 0)
               /\ 0 \in 0 .. Items[rest[i].kind] - 1
    <3>1. news[1].kind = "serverdata"
      BY <1>3
    <3>2. rest[i].kind = "soundlist" /\ PartFrom(rest[i], 0)
      BY <3>1, <1>3, <2>2 DEF RoundInv, HasWhatComesBefore
    <3> QED
      BY <3>2 DEF Sane, Stage, Lists
  <2>3. \A i, j \in DOMAIN rest : i < j => i + 1 < j + 1
    BY <1>3
  <2>4. ASSUME NEW i \in DOMAIN rest, rest[i].kind \in Stage, rest[i].level = level
        PROVE  \E a \in 0 .. Items[rest[i].kind] - 1 :
                  PartFrom(rest[i], a) /\ Has(level, {}, rest[i].kind, a)
    BY <2>2, <2>4, <1>9
  <2> QED
    BY <2>1, <2>2, <2>3, <2>4 DEF HasWhatComesBefore
<1> QED
  BY <1>4, <1>11, <1>12 DEF RoundInv, told, r, more, rest

(* A part that is read brings what comes before the next request. *)
LEMMA ReadFurther ==
    ASSUME Sane, NEW level, NEW has, NEW m \in Message, m.kind \in Stage,
           NEW a \in 0 .. Items[m.kind] - 1,
           PartFrom(m, a), Has(level, has, m.kind, a)
    PROVE  LET more == has \union ({<<level, m.kind>>} \X m.items) IN
           /\ ~ m.done => Has(level, more, m.kind, m.next)
           /\ m.done => Has(level, more, Following[m.kind], 0)
<1> DEFINE more == has \union ({<<level, m.kind>>} \X m.items)
<1>1. /\ m.next \in Nat /\ m.items = a .. m.next - 1 /\ a \in Nat
      /\ m.done = (m.next = Items[m.kind]) /\ Items[m.kind] \in Nat
  <2>1. m.next \in Nat
    BY MessageFields
  <2>2. Items[m.kind] \in Nat /\ a \in Nat
    BY DEF Sane
  <2> QED
    BY <2>1, <2>2, Zenon DEF PartFrom
<1>2. \A k \in 0 .. Items[m.kind] - 1 : k < m.next => <<<<level, m.kind>>, k>> \in more
  <2> TAKE k \in 0 .. Items[m.kind] - 1
  <2> HAVE k < m.next
  <2>1. CASE k < a
    BY <2>1 DEF Has
  <2>2. CASE ~ k < a
    BY <2>2, <1>1
  <2> QED
    BY <2>1, <2>2
<1>3. \A stage \in Stage : \A k \in 0 .. Items[stage] - 1 :
         stage \in Prior[m.kind] => <<<<level, stage>>, k>> \in more
  BY DEF Has
<1> HIDE DEF more
<1>4. Has(level, more, m.kind, m.next)
  BY <1>2, <1>3 DEF Has
<1>5. ASSUME m.done
      PROVE  Has(level, more, Following[m.kind], 0)
  <2>1. \A k \in 0 .. Items[m.kind] - 1 : <<<<level, m.kind>>, k>> \in more
    <3>1. m.next = Items[m.kind]
      BY <1>1, <1>5, Zenon
    <3>2. \A k \in 0 .. Items[m.kind] - 1 : k < m.next
      BY <1>1, <3>1
    <3> QED
      BY <1>2, <3>2
  <2>2. Prior[Following[m.kind]] = Prior[m.kind] \union {m.kind}
    BY DEF Prior, Following, Stage, Lists
  <2>3. \A stage \in Stage : \A k \in 0 .. Items[stage] - 1 : ~ k < 0
    BY DEF Sane
  <2> QED
    BY <1>3, <2>1, <2>2, <2>3 DEF Has
<1> QED
  BY <1>4, <1>5 DEF more

LEMMA AskedForMore ==
    ASSUME Sane, NEW level \in Level, NEW known \in 0..MaxLevels, NEW has,
           NEW asks \in Seq(RequestType), NEW news \in Seq(Message), news # <<>>,
           RoundInv(level, known, has, asks, news),
           Head(news).kind \in Stage, NEW r,
           r = IF Head(news).done
               THEN Request(Following[Head(news).kind], Head(news).level, 0)
               ELSE Request(Head(news).kind, Head(news).level, Head(news).next)
    PROVE  /\ r \in RequestType
           /\ RoundInv(level, known,
                       has \union ({<<Head(news).level, Head(news).kind>>} \X Head(news).items),
                       Append(asks, r), Tail(news))
<1> DEFINE m == Head(news)
           got1 == has \union ({<<m.level, m.kind>>} \X m.items)
           more == Append(asks, r)
           rest == Tail(news)
<1>1. m \in Message /\ m = news[1] /\ 1 \in DOMAIN news
  OBVIOUS
<1>2. /\ m.level \in Level /\ m.next \in Nat /\ m.level = known
      /\ m.kind # "reconnect" /\ m.kind # "serverdata"
  <2>1. m.level \in Level /\ m.next \in Nat /\ m.kind # "reconnect" /\ m.kind # "serverdata"
    BY <1>1, MessageFields DEF Stage, Lists
  <2> QED
    BY <1>1, <2>1 DEF RoundInv, LevelsInOrder
<1>3. Following[m.kind] \in {"modellist", "prespawn", "spawn", "begin"}
  BY DEF Following, Stage, Lists
<1>4. r \in RequestType /\ r.level = m.level /\ r.cmd # "new"
  <2>1. CASE m.done
    BY <2>1, <1>2, <1>3 DEF Request, RequestType, Level, Sane, Stage, Lists
  <2>2. CASE ~ m.done
    BY <2>2, <1>2 DEF Request, RequestType, Level, Sane, Stage, Lists
  <2> QED
    BY <2>1, <2>2
<1>5. m.level = level =>
         \E a \in 0 .. Items[m.kind] - 1 : PartFrom(m, a) /\ Has(level, has, m.kind, a)
  BY <1>1 DEF RoundInv, HasWhatComesBefore
<1>6. GoRoundInOrder(level, more, rest)
  <2>1. CASE m.level # level
    <3>1. RequestStep(level, r) = MessageStep(level, m)
      BY <2>1, <1>2, <1>4 DEF RequestStep, MessageStep
    <3> QED
      BY <3>1, <1>4, Asked DEF RoundInv
  <2>2. CASE m.level = level
    <3>1. MessageStep(level, m) = 2
      BY <2>2, <1>2 DEF MessageStep
    <3>2. ~ (r.cmd = "soundlist" /\ r.n = 0)
      <4>1. CASE m.done
        BY <4>1, <1>3 DEF Request
      <4>2. CASE ~ m.done
        <5>1. m.next > 0
          BY <2>2, <1>2, <1>5 DEF PartFrom
        <5> QED
          BY <4>2, <5>1, <1>2 DEF Request
      <4> QED
        BY <4>1, <4>2
    <3>3. RequestStep(level, r) = 2
      BY <2>2, <3>2, <1>4 DEF RequestStep
    <3> QED
      BY <3>1, <3>3, <1>4, Asked DEF RoundInv
  <2> QED
    BY <2>1, <2>2
<1>7. LevelsInOrder(level, known, more, rest)
  BY <1>2, <1>4, LevelsGoOn DEF RoundInv, Level
<1>8. /\ \A i \in DOMAIN more : (i \in DOMAIN asks /\ more[i] = asks[i]) \/ more[i] = r
      /\ \A i \in DOMAIN rest :
            i \in Nat /\ i + 1 \in DOMAIN news /\ rest[i] = news[i + 1]
  BY <1>4, Moved
<1>9. r.level = level => Has(level, got1, r.cmd, r.n)
  <2> SUFFICES ASSUME m.level = level
               PROVE  Has(level, got1, r.cmd, r.n)
    BY <1>4
  <2>1. PICK a \in 0 .. Items[m.kind] - 1 : PartFrom(m, a) /\ Has(level, has, m.kind, a)
    BY <1>5
  <2>2. /\ ~ m.done => Has(level, got1, m.kind, m.next)
        /\ m.done => Has(level, got1, Following[m.kind], 0)
    BY <1>1, <2>1, ReadFurther
  <2> QED
    BY <2>2 DEF Request
<1>10. \A cmd, n : Has(level, has, cmd, n) => Has(level, got1, cmd, n)
  BY DEF Has
<1> HIDE DEF m, got1, more, rest
<1>11. HasWhatComesBefore(level, got1, more, rest)
  <2>1. ASSUME NEW i \in DOMAIN more, more[i].level = level
        PROVE  more[i].cmd # "new" /\ Has(level, got1, more[i].cmd, more[i].n)
    BY <1>4, <1>8, <1>9, <1>10, <2>1 DEF RoundInv, HasWhatComesBefore
  <2>2. ASSUME NEW i \in DOMAIN rest, rest[i].kind \in Stage, rest[i].level = level
        PROVE  \E a \in 0 .. Items[rest[i].kind] - 1 :
                  PartFrom(rest[i], a) /\ Has(level, got1, rest[i].kind, a)
    <3>1. PICK a \in 0 .. Items[rest[i].kind] - 1 :
             PartFrom(rest[i], a) /\ Has(level, has, rest[i].kind, a)
      BY <1>8, <2>2 DEF RoundInv, HasWhatComesBefore
    <3> QED
      BY <3>1, <1>10
  <2>3. \A i, j \in DOMAIN rest : i < j => i + 1 < j + 1
    BY <1>8
  <2>4. \A i, j \in DOMAIN rest :
           /\ i < j /\ rest[i].kind = "serverdata"
           /\ rest[j].kind \in Stage /\ rest[j].level = level
           => rest[j].kind = "soundlist" /\ PartFrom(rest[j], 0)
    BY <1>8, <2>3 DEF RoundInv, HasWhatComesBefore
  <2> QED
    BY <2>1, <2>2, <2>4 DEF HasWhatComesBefore
<1>12. RoundInv(level, known, got1, more, rest)
  BY <1>6, <1>7, <1>11 DEF RoundInv
<1> QED
  BY <1>4, <1>12 DEF m, got1, more, rest

(* When the level changes, nothing on its way is of the new one. *)
LEMMA LevelChanged ==
    ASSUME Sane, NEW level \in Level, level + 1 \in Level,
           NEW known \in 0..MaxLevels, NEW has,
           NEW asks \in Seq(RequestType), NEW news \in Seq(Message),
           RoundInv(level, known, has, asks, news)
    PROVE  RoundInv(level + 1, known, has, asks, Append(news, Reconnect))
<1> DEFINE more == Append(news, Reconnect)
           next == level + 1
<1>1. /\ DOMAIN more = 1 .. Len(news) + 1 /\ DOMAIN news = 1 .. Len(news)
      /\ Len(news) \in Nat
      /\ \A i \in DOMAIN news : more[i] = news[i] /\ news[i] \in Message
      /\ more[Len(news) + 1] = Reconnect
  OBVIOUS
<1>2. level \in Nat /\ known \in Nat /\ known <= level /\ known < next
  BY DEF RoundInv, LevelsInOrder, Level
<1>3. \A i \in DOMAIN asks : asks[i].level \in Nat /\ asks[i].level <= known
  <2>1. \A i \in DOMAIN asks : asks[i] \in RequestType
    OBVIOUS
  <2> QED
    BY <2>1 DEF RequestType, RoundInv, LevelsInOrder
<1>4. Reconnect.kind = "reconnect" /\ "reconnect" \notin Stage
  BY DEF Reconnect, Stage, Lists
<1>5. \A i \in DOMAIN news :
         /\ news[i].kind # "reconnect" => news[i].level \in Nat /\ news[i].level <= level
         /\ news[i].kind = "serverdata" => known <= news[i].level
         /\ news[i].kind \in Stage => news[i].level = known
  <2> TAKE i \in DOMAIN news
  <2>1. /\ news[i].kind \in Stage \union {"serverdata", "reconnect"}
        /\ news[i].kind # "reconnect" => news[i].level \in Nat
    BY <1>1, MessageFields DEF Level
  <2> QED
    BY <1>2, <2>1 DEF RoundInv, LevelsInOrder
<1> HIDE DEF more
<1>6. \A i \in DOMAIN asks : RequestStep(next, asks[i]) = 0 /\ asks[i].level # next
  BY <1>2, <1>3 DEF RequestStep
<1>7. \A i \in DOMAIN more :
         MessageStep(next, more[i]) = 0 /\ (more[i].kind \in Stage => more[i].level # next)
  BY <1>1, <1>2, <1>4, <1>5 DEF MessageStep
<1>8. GoRoundInOrder(next, asks, more)
  BY <1>6, <1>7 DEF GoRoundInOrder, Near
<1>9. LevelsInOrder(next, known, asks, more)
  <2>1. \A i \in DOMAIN more :
           /\ more[i].kind = "serverdata" => known <= more[i].level /\ more[i].level <= next
           /\ more[i].kind \in Stage => more[i].level = known
    BY <1>1, <1>2, <1>4, <1>5
  <2>2. ASSUME NEW i \in DOMAIN more, NEW j \in DOMAIN more, i < j,
               more[i].kind = "serverdata", more[j].kind # "reconnect"
        PROVE  more[i].level <= more[j].level
    <3>1. i \in DOMAIN news /\ j \in DOMAIN news
      BY <1>1, <1>4, <2>2
    <3> QED
      BY <3>1, <1>1, <2>2 DEF RoundInv, LevelsInOrder
  <2> QED
    BY <1>2, <1>3, <2>1, <2>2 DEF LevelsInOrder
<1>10. HasWhatComesBefore(next, has, asks, more)
  BY <1>6, <1>7 DEF HasWhatComesBefore
<1> QED
  BY <1>8, <1>9, <1>10 DEF RoundInv, more

-----------------------------------------------------------------------------
(***************************************************************************)
(* News as the steps change it.                                            *)
(***************************************************************************)
LEMMA InOneQueue ==
    ASSUME NEW c \in Seq(Message), NEW w \in Seq(Message), NEW m \in Message
    PROVE  /\ c \o w \in Seq(Message)
           /\ c \o Append(w, m) = Append(c \o w, m)
           /\ c \o Append(<<>>, m) = Append(c, m)
           /\ <<>> \o w = w
           /\ c \o <<>> = c
           /\ c # <<>> => Tail(c) \o w = Tail(c \o w) /\ c \o w # <<>> /\ Head(c \o w) = Head(c)
           /\ Len(c) <= Len(c \o w)
           /\ \A i \in DOMAIN c : (c \o w)[i] = c[i]
<1>1. c \o Append(w, m) = Append(c \o w, m)
  OBVIOUS
<1>2. c \o Append(<<>>, m) = Append(c, m)
  OBVIOUS
<1>3. <<>> \o w = w /\ c \o <<>> = c
  OBVIOUS
<1>4. c # <<>> => Tail(c) \o w = Tail(c \o w)
  OBVIOUS
<1>5. c # <<>> => c \o w # <<>> /\ Head(c \o w) = Head(c)
  OBVIOUS
<1> QED
  BY <1>1, <1>2, <1>3, <1>4, <1>5

LEMMA BehindWhatIsLeft ==
    ASSUME NEW c \in Seq(Message), NEW w \in Seq(Message), NEW m \in Message,
           NEW p, p = w \/ p = <<>>
    PROVE  /\ p \in Seq(Message) /\ c \o p \in Seq(Message)
           /\ Append(p, m) \in Seq(Message)
           /\ c \o Append(p, m) = Append(c \o p, m)
<1>1. CASE p = w
  <2>1. Append(p, m) \in Seq(Message)
    BY <1>1
  <2> QED
    BY <1>1, <2>1, InOneQueue
<1>2. CASE p = <<>>
  <2>1. /\ <<>> \in Seq(Message)
        /\ Append(<<>>, m) \in Seq(Message)
        /\ c \o <<>> = c
        /\ c \o Append(<<>>, m) = Append(c, m)
    BY InOneQueue
  <2> QED
    BY <1>2, <2>1
<1> QED
  BY <1>1, <1>2

(* TypeOK, said with the type of requests named. *)
LEMMA Types ==
    TypeOK <=> /\ spawncount \in Level
               /\ state \in {"preconnected", "connected", "spawned"}
               /\ message \in Seq(Message) /\ toClient \in Seq(Message)
               /\ toServer \in Seq(RequestType)
               /\ count \in 0..MaxLevels
               /\ got \subseteq {<<level, stage>> : level \in Level, stage \in Stage} \X Nat
  BY DEF TypeOK, RequestType

LEMMA SignonStart == ASSUME Sane PROVE Init => SignonInv
<1> SUFFICES ASSUME Init PROVE SignonInv
  OBVIOUS
<1>1. New \in RequestType /\ New.level = 0 /\ New.cmd = "new"
  BY DEF New, Request, RequestType, Sane
<1>2. toServer \in Seq(RequestType) /\ toServer = <<New>> /\ DOMAIN toServer = {1}
      /\ News = <<>> /\ DOMAIN News = {}
  BY <1>1 DEF Init, News
<1>3. TypeOK
  BY <1>2, Types DEF Init, Level, Sane
<1>4. GoRoundInOrder(spawncount, toServer, News)
  <2>1. RequestStep(1, New) = 0
    BY <1>1 DEF RequestStep
  <2> QED
    BY <1>2, <2>1 DEF GoRoundInOrder, Near, Init
<1>5. LevelsInOrder(spawncount, count, toServer, News)
  BY <1>1, <1>2 DEF LevelsInOrder, Init
<1>6. HasWhatComesBefore(spawncount, got, toServer, News)
  BY <1>1, <1>2 DEF HasWhatComesBefore, Init
<1> QED
  BY <1>3, <1>4, <1>5, <1>6 DEF SignonInv, RoundInv, NothingElse, InGameWithTheLevel, Init

(***************************************************************************)
(* The server's steps.                                                     *)
(***************************************************************************)
LEMMA ExecuteRequestStep ==
    ASSUME Sane, SignonInv, ExecuteRequest PROVE SignonInv'
<1> DEFINE r == Head(toServer)
<1>0. /\ TypeOK /\ RoundInv(spawncount, count, got, toServer, News)
      /\ NothingElse /\ InGameWithTheLevel
      /\ state = "spawned" => count = spawncount /\ AllThere(spawncount, toServer, News)
  BY DEF SignonInv
<1>1. /\ spawncount \in Level /\ count \in 0..MaxLevels
      /\ toServer \in Seq(RequestType) /\ toServer # <<>>
      /\ toClient \in Seq(Message) /\ message \in Seq(Message)
      /\ News \in Seq(Message)
      /\ toServer' = Tail(toServer) /\ toServer' \in Seq(RequestType)
      /\ UNCHANGED <<toClient, count, got>>
      /\ News' = toClient \o message'
      /\ r \in RequestType /\ r = toServer[1] /\ 1 \in DOMAIN toServer
  BY <1>0, Types, InOneQueue DEF ExecuteRequest, News
<1>2. \A i \in DOMAIN toServer' : i + 1 \in DOMAIN toServer /\ toServer'[i] = toServer[i + 1]
  BY <1>1
<1>3. /\ RoundInv(spawncount, count, got, toServer, toClient)
      /\ Len(toClient) <= Len(News)
      /\ \A i \in DOMAIN toClient : News[i] = toClient[i]
  <2>1. Len(toClient) <= Len(News) /\ \A i \in DOMAIN toClient : News[i] = toClient[i]
    BY <1>1, InOneQueue DEF News
  <2> QED
    BY <1>0, <1>1, <2>1, Cleared
<1>4. CASE UNCHANGED server
  <2>1. spawncount' = spawncount /\ state' = state /\ message' = message /\ News' = News
    BY <1>4, <1>1 DEF server, News
  <2>2. RoundInv(spawncount', count', got', toServer', News')
    BY <1>0, <1>1, <2>1, Served
  <2>3. TypeOK'
    BY <1>0, <1>1, <2>1 DEF TypeOK, RequestType
  <2>4. (state = "spawned" => count = spawncount /\ AllThere(spawncount, toServer, News))'
    BY <1>0, <1>1, <1>2, <2>1 DEF AllThere
  <2> QED
    BY <1>0, <1>1, <2>1, <2>2, <2>3, <2>4
    DEF SignonInv, NothingElse, InGameWithTheLevel
<1>5. ASSUME NEW p, p = message \/ p = <<>>, r.level # spawncount, state # "spawned",
             NewFrom(p)
      PROVE  SignonInv'
  <2>1. /\ spawncount' = spawncount /\ state' = "connected"
        /\ message' = Append(p, Serverdata(spawncount))
    BY <1>5 DEF NewFrom
  <2>2. Serverdata(spawncount) \in Message
    BY <1>1 DEF Serverdata, Message
  <2>3. p \in Seq(Message) /\ toClient \o p \in Seq(Message)
    BY <1>1, <1>5, <2>2, BehindWhatIsLeft
  <2>4. RoundInv(spawncount, count, got, toServer, toClient \o p)
    <3>1. CASE p = message
      BY <3>1, <1>0 DEF News
    <3>2. CASE p = <<>>
      BY <3>2, <1>1, <1>3, <2>2, InOneQueue
    <3> QED
      BY <3>1, <3>2, <1>5
  <2>5. RoundInv(spawncount, count, got, Tail(toServer),
                 Append(toClient \o p, Serverdata(spawncount)))
    BY <1>1, <1>5, <2>3, <2>4, AnsweredWithLevel
  <2>6. News' = Append(toClient \o p, Serverdata(spawncount))
    <3>1. toClient \o Append(p, Serverdata(spawncount))
             = Append(toClient \o p, Serverdata(spawncount))
      BY <1>1, <1>5, <2>2, BehindWhatIsLeft
    <3> QED
      BY <1>1, <2>1, <3>1
  <2>7. RoundInv(spawncount', count', got', toServer', News')
    BY <1>1, <2>1, <2>5, <2>6
  <2>8. TypeOK'
    <3>1. message' \in Seq(Message)
      BY <2>1, <2>2, <2>3
    <3> QED
      BY <1>0, <1>1, <2>1, <3>1 DEF TypeOK, RequestType
  <2> QED
    BY <1>0, <1>1, <2>1, <2>7, <2>8 DEF SignonInv, NothingElse, InGameWithTheLevel
<1>6. CASE AnswerNew(r)
  <2>1. r.cmd = "new" /\ NewFrom(message)
    BY <1>6 DEF AnswerNew
  <2>2. r.level # spawncount
    BY <1>0, <1>1, <2>1 DEF RoundInv, HasWhatComesBefore
  <2>3. CASE state = "spawned"
    BY <2>1, <2>3, <1>4 DEF NewFrom, server
  <2>4. CASE state # "spawned"
    BY <2>1, <2>2, <2>4, <1>5
  <2> QED
    BY <2>3, <2>4
<1>7. CASE SendPart(r)
  <2>1. CASE state # "connected"
    BY <2>1, <1>4, <1>7 DEF SendPart
  <2>2. CASE state = "connected" /\ r.level # spawncount
    <3>1. NewFrom(<<>>)
      BY <1>7, <2>2 DEF SendPart, FromOtherLevel
    <3> QED
      BY <2>2, <3>1, <1>5
  <2>3. CASE state = "connected" /\ r.level = spawncount
    <3>1. r.cmd \in Stage /\ UNCHANGED <<spawncount, state>>
      BY <1>7, <2>3 DEF SendPart, FromOtherLevel
    <3>2. PICK n \in PartEnds(r.cmd, r.n) :
             message' = Append(IF r.cmd = "spawn" THEN <<>> ELSE message,
                               Part(r.cmd, r.n, n, ReadsAsDone(r.cmd, n)))
      BY <1>7, <2>3 DEF SendPart, FromOtherLevel
    <3>3. n \in r.n + 1 .. Items[r.cmd]
      BY <3>2 DEF PartEnds, Sane
    <3>4. r.n \in Nat /\ Items[r.cmd] \in Nat /\ n \in Nat /\ n # 0
      BY <1>1, <3>1, <3>3 DEF RequestType, Sane
    <3>5. ReadsAsDone(r.cmd, n) = (n = Items[r.cmd])
      BY <3>4 DEF ReadsAsDone
    <3>6. Part(r.cmd, r.n, n, ReadsAsDone(r.cmd, n)) = PartOf(spawncount, r, n)
      BY <3>5 DEF Part, PartOf
    <3>7. PICK p : /\ p = message \/ p = <<>>
                   /\ message' = Append(p, PartOf(spawncount, r, n))
      BY <3>2, <3>6
    <3>8. PartOf(spawncount, r, n) \in Message
      BY <1>0, <1>1, <2>3, <3>1, <3>3, AnsweredWithPart
    <3>9. p \in Seq(Message) /\ toClient \o p \in Seq(Message)
      BY <1>1, <3>7, <3>8, BehindWhatIsLeft
    <3>10. RoundInv(spawncount, count, got, toServer, toClient \o p)
      <4>1. CASE p = message
        BY <4>1, <1>0 DEF News
      <4>2. CASE p = <<>>
        BY <4>2, <1>1, <1>3, <3>8, InOneQueue
      <4> QED
        BY <3>7, <4>1, <4>2
    <3>11. RoundInv(spawncount, count, got, Tail(toServer),
                    Append(toClient \o p, PartOf(spawncount, r, n)))
      BY <1>1, <2>3, <3>1, <3>3, <3>9, <3>10, AnsweredWithPart
    <3>12. News' = Append(toClient \o p, PartOf(spawncount, r, n))
      <4>1. \A q \in Message : toClient \o Append(p, q) = Append(toClient \o p, q)
        <5>1. /\ toClient \in Seq(Message) /\ message \in Seq(Message)
              /\ p = message \/ p = <<>>
          BY <1>1, <3>7
        <5> QED
          BY <5>1, BehindWhatIsLeft
      <4> QED
        BY <1>1, <3>7, <3>8, <4>1
    <3>13. RoundInv(spawncount', count', got', toServer', News')
      BY <1>1, <3>1, <3>11, <3>12
    <3>14. TypeOK'
      <4>1. message' \in Seq(Message)
        BY <3>7, <3>8, <3>9
      <4> QED
        BY <1>0, <1>1, <3>1, <4>1 DEF TypeOK, RequestType
    <3> QED
      BY <1>0, <1>1, <2>3, <3>1, <3>13, <3>14 DEF SignonInv, NothingElse, InGameWithTheLevel
  <2> QED
    BY <2>1, <2>2, <2>3
<1>8. CASE Begin(r)
  <2>1. CASE state = "spawned"
    BY <2>1, <1>4, <1>8 DEF Begin
  <2>2. CASE state # "spawned" /\ r.level # spawncount
    <3>1. NewFrom(<<>>)
      BY <1>8, <2>2 DEF Begin, FromOtherLevel
    <3> QED
      BY <2>2, <3>1, <1>5
  <2>3. CASE state # "spawned" /\ r.level = spawncount
    <3>1. r.cmd = "begin" /\ state' = "spawned" /\ spawncount' = spawncount /\ message' = message
      BY <1>8, <2>3 DEF Begin, FromOtherLevel
    <3>2. News' = News
      BY <1>1, <3>1 DEF News
    <3>3. RoundInv(spawncount', count', got', toServer', News')
      BY <1>0, <1>1, <3>1, <3>2, Served
    <3>4. TypeOK'
      BY <1>0, <1>1, <3>1 DEF TypeOK, RequestType
    <3>5. count = spawncount
      BY <1>0, <1>1, <2>3 DEF RoundInv, LevelsInOrder, Level
    <3>6. RequestStep(spawncount, r) = 2
      BY <2>3, <3>1 DEF RequestStep
    <3>7. AllThere(spawncount, toServer', News')
      <4>1. ASSUME NEW i \in DOMAIN toServer'
            PROVE  RequestStep(spawncount, toServer'[i]) = 2
        <5>1. Near(2, RequestStep(spawncount, toServer[i + 1])) /\ toServer[i + 1] \in RequestType
          BY <1>0, <1>1, <1>2, <3>6 DEF RoundInv, GoRoundInOrder
        <5>2. RequestStep(spawncount, toServer[i + 1]) \in 0..2
          BY <1>1, <5>1, Steps
        <5> QED
          BY <1>2, <5>1, <5>2 DEF Near
      <4>2. ASSUME NEW i \in DOMAIN News
            PROVE  MessageStep(spawncount, News[i]) = 2
        <5>1. Near(2, MessageStep(spawncount, News[i])) /\ News[i] \in Message
          BY <1>0, <1>1, <3>6 DEF RoundInv, GoRoundInOrder
        <5>2. MessageStep(spawncount, News[i]) \in 0..2
          BY <1>1, <5>1, Steps
        <5> QED
          BY <5>1, <5>2 DEF Near
      <4> QED
        BY <3>2, <4>1, <4>2 DEF AllThere
    <3>8. Has(spawncount, got, "begin", r.n)
      BY <1>0, <1>1, <2>3, <3>1 DEF RoundInv, HasWhatComesBefore
    <3>9. \A stage \in Stage : \A k \in 0 .. Items[stage] - 1 : <<<<spawncount, stage>>, k>> \in got
      BY <3>8 DEF Has, Prior
    <3>10. got = Whole(spawncount)
      BY <1>0, <3>5, <3>9 DEF NothingElse, Whole
    <3> QED
      BY <1>0, <1>1, <3>1, <3>3, <3>4, <3>5, <3>7, <3>10
      DEF SignonInv, NothingElse, InGameWithTheLevel
  <2> QED
    BY <2>1, <2>2, <2>3
<1> QED
  BY <1>6, <1>7, <1>8 DEF ExecuteRequest

LEMMA TransmitStep ==
    ASSUME Sane, SignonInv, Transmit PROVE SignonInv'
<1>1. TypeOK
  BY DEF SignonInv
<1>2. /\ toClient' = message /\ message' = <<>> /\ toClient = <<>>
      /\ UNCHANGED <<spawncount, state, toServer, count, got>>
      /\ message \in Seq(Message)
  BY <1>1, Types DEF Transmit
<1>3. TypeOK'
  BY <1>1, <1>2 DEF TypeOK
<1>4. News' = News
  <2>1. <<>> \o message = message /\ message \o <<>> = message
    BY <1>2
  <2> QED
    BY <1>2, <2>1 DEF News
<1> QED
  BY <1>2, <1>3, <1>4 DEF SignonInv, NothingElse, InGameWithTheLevel

LEMMA ChangeLevelStep ==
    ASSUME Sane, SignonInv, ChangeLevel PROVE SignonInv'
<1>1. /\ TypeOK /\ RoundInv(spawncount, count, got, toServer, News) /\ NothingElse
  BY DEF SignonInv
<1>2. /\ spawncount \in Level /\ count \in 0..MaxLevels
      /\ state \in {"preconnected", "connected", "spawned"}
      /\ toServer \in Seq(RequestType)
      /\ toClient \in Seq(Message) /\ message \in Seq(Message)
      /\ News \in Seq(Message) /\ Reconnect \in Message
  <2>1. Reconnect \in Message
    BY DEF Message
  <2> QED
    BY <1>1, <2>1, Types, InOneQueue DEF News
<1>3. /\ spawncount' = spawncount + 1 /\ spawncount' \in Level
      /\ state' \in {"preconnected", "connected"}
      /\ UNCHANGED <<toServer, count, got>>
  BY <1>2 DEF ChangeLevel, ConnectedAgain, Level, Sane
<1>4. /\ toClient' \in Seq(Message) /\ message' \in Seq(Message)
      /\ News' = Append(News, Reconnect)
  <2>1. Told(state')
    BY <1>3 DEF Told
  <2>2. \/ toClient = <<>> /\ toClient' = Append(message, Reconnect) /\ message' = <<>>
        \/ message' = Append(message, Reconnect) /\ toClient' = toClient
    BY <2>1 DEF ChangeLevel
  <2>3. /\ Append(message, Reconnect) \in Seq(Message)
        /\ Append(message, Reconnect) \o <<>> = Append(message, Reconnect)
    BY <1>2
  <2>4. /\ toClient \o Append(message, Reconnect) = Append(News, Reconnect)
        /\ toClient = <<>> => News = message
        /\ <<>> \in Seq(Message)
    BY <1>2, InOneQueue DEF News
  <2>5. CASE toClient = <<>> /\ toClient' = Append(message, Reconnect) /\ message' = <<>>
    BY <2>3, <2>4, <2>5 DEF News
  <2>6. CASE message' = Append(message, Reconnect) /\ toClient' = toClient
    BY <1>2, <2>3, <2>4, <2>6 DEF News
  <2> QED
    BY <2>2, <2>5, <2>6
<1>5. RoundInv(spawncount', count', got', toServer', News')
  BY <1>1, <1>2, <1>3, <1>4, LevelChanged
<1>6. TypeOK'
  BY <1>1, <1>3, <1>4 DEF TypeOK
<1> QED
  BY <1>1, <1>3, <1>5, <1>6 DEF SignonInv, NothingElse, InGameWithTheLevel

(***************************************************************************)
(* The client's step.                                                      *)
(***************************************************************************)
LEMMA ReceiveStep ==
    ASSUME Sane, SignonInv, Receive PROVE SignonInv'
<1> DEFINE m == Head(toClient)
<1>0. /\ TypeOK /\ RoundInv(spawncount, count, got, toServer, News)
      /\ NothingElse /\ InGameWithTheLevel
      /\ state = "spawned" => count = spawncount /\ AllThere(spawncount, toServer, News)
  BY DEF SignonInv
<1>1. /\ spawncount \in Level /\ count \in 0..MaxLevels
      /\ toServer \in Seq(RequestType)
      /\ toClient \in Seq(Message) /\ message \in Seq(Message) /\ toClient # <<>>
      /\ News \in Seq(Message) /\ News # <<>> /\ Head(News) = m
      /\ toClient' = Tail(toClient) /\ toClient' \in Seq(Message)
      /\ UNCHANGED <<spawncount, state, message>>
      /\ News' = Tail(News)
      /\ got \subseteq {<<level, stage>> : level \in Level, stage \in Stage} \X Nat
      /\ m \in Message
  <2>1. toClient # <<>> /\ toClient' = Tail(toClient) /\ UNCHANGED <<spawncount, state, message>>
    BY DEF Receive, server
  <2>2. toClient \in Seq(Message) /\ message \in Seq(Message)
    BY <1>0, Types
  <2>3. Reconnect \in Message
    BY DEF Message
  <2>4. News' = Tail(News) /\ News # <<>> /\ Head(News) = m /\ News \in Seq(Message)
    BY <2>1, <2>2, <2>3, InOneQueue DEF News
  <2> QED
    BY <1>0, <2>1, <2>2, <2>4, Types
<1>2. /\ m.kind \in Stage \union {"serverdata", "reconnect"}
      /\ m.kind # "reconnect" => m.level \in Level
      /\ m.kind \in Stage => m.items \in SUBSET (0 .. Items[m.kind] - 1)
  BY <1>1, MessageFields
<1>3. m = News[1] /\ 1 \in DOMAIN News
  BY <1>1
<1>4. ASSUME NEW r \in RequestType, toServer' = Append(toServer, r), count' = count,
             state = "spawned" => RequestStep(spawncount, r) = 2
      PROVE  /\ toServer' \in Seq(RequestType)
             /\ state = "spawned" => count' = spawncount /\ AllThere(spawncount, toServer', News')
  <2>1. /\ toServer' \in Seq(RequestType)
        /\ \A i \in DOMAIN toServer' : (i \in DOMAIN toServer /\ toServer'[i] = toServer[i])
                                       \/ toServer'[i] = r
        /\ \A i \in DOMAIN News' : i + 1 \in DOMAIN News /\ News'[i] = News[i + 1]
    BY <1>1, <1>4, Moved
  <2> QED
    BY <1>0, <1>4, <2>1 DEF AllThere
<1>5. state = "spawned" => m.kind \in Stage /\ MessageStep(spawncount, m) = 2
  <2> SUFFICES ASSUME state = "spawned"
               PROVE  m.kind \in Stage /\ MessageStep(spawncount, m) = 2
    OBVIOUS
  <2>1. MessageStep(spawncount, m) = 2
    BY <1>0, <1>3 DEF AllThere
  <2> QED
    BY <1>2, <2>1 DEF MessageStep
<1>6. CASE ReceiveReconnect(m)
  <2>1. /\ m.kind = "reconnect" /\ toServer' = Append(toServer, New)
        /\ count' = count /\ got' = got
    BY <1>6 DEF ReceiveReconnect
  <2>2. New \in RequestType
    BY DEF New, Request, RequestType, Sane
  <2>3. state # "spawned"
    BY <1>5, <2>1 DEF Stage, Lists
  <2>4. RoundInv(spawncount', count', got', toServer', News')
    BY <1>0, <1>1, <2>1, AskedAgain
  <2>5. TypeOK'
    BY <1>0, <1>1, <1>4, <2>1, <2>2, <2>3 DEF TypeOK, RequestType
  <2> QED
    BY <1>0, <1>1, <2>1, <2>3, <2>4, <2>5 DEF SignonInv, NothingElse, InGameWithTheLevel
<1>7. CASE ReceiveServerdata(m)
  <2>1. /\ m.kind = "serverdata" /\ count' = m.level /\ got' = {}
        /\ toServer' = Append(toServer, Request("soundlist", m.level, 0))
    BY <1>7 DEF ReceiveServerdata
  <2>2. m.level \in Level /\ m.level \in 0..MaxLevels
    BY <1>2, <2>1 DEF Level
  <2>3. state # "spawned"
    BY <1>5, <2>1 DEF Stage, Lists
  <2>4. RoundInv(spawncount', count', got', toServer', News')
    BY <1>0, <1>1, <2>1, ToldLevel
  <2>5. Request("soundlist", m.level, 0) \in RequestType
    BY <2>2 DEF Request, RequestType, Stage, Lists
  <2>6. toServer' \in Seq(RequestType)
    BY <1>1, <2>1, <2>5
  <2>7. TypeOK'
    BY <1>0, <1>1, <2>1, <2>2, <2>6 DEF TypeOK, RequestType
  <2> QED
    BY <1>1, <2>1, <2>3, <2>4, <2>7 DEF SignonInv, NothingElse, InGameWithTheLevel
<1>8. CASE ReceivePart(m)
  <2>1. /\ m.kind \in Stage /\ count' = count
        /\ got' = got \union ({<<m.level, m.kind>>} \X m.items)
        /\ toServer' = Append(toServer, NextRequest(m))
    BY <1>8 DEF ReceivePart
  <2>2. m.level = count /\ m.level \in Level /\ m.items \in SUBSET (0 .. Items[m.kind] - 1)
    BY <1>0, <1>2, <1>3, <2>1 DEF RoundInv, LevelsInOrder, Stage, Lists
  <2>3. NextRequest(m) = IF m.done THEN Request(Following[m.kind], m.level, 0)
                         ELSE Request(m.kind, m.level, m.next)
    BY <2>2 DEF NextRequest
  <2>4. /\ NextRequest(m) \in RequestType
        /\ RoundInv(spawncount, count, got', toServer', Tail(News))
    <3> DEFINE h == Head(News)
    <3>1. /\ h = m /\ h.kind \in Stage
          /\ NextRequest(m) = IF h.done THEN Request(Following[h.kind], h.level, 0)
                              ELSE Request(h.kind, h.level, h.next)
      BY <1>1, <2>1, <2>3
    <3>2. /\ NextRequest(m) \in RequestType
          /\ RoundInv(spawncount, count, got \union ({<<h.level, h.kind>>} \X h.items),
                      Append(toServer, NextRequest(m)), Tail(News))
      <4>1. /\ spawncount \in Level /\ count \in 0..MaxLevels
            /\ toServer \in Seq(RequestType) /\ News \in Seq(Message) /\ News # <<>>
            /\ RoundInv(spawncount, count, got, toServer, News)
        BY <1>0, <1>1
      <4> HIDE DEF m
      <4>2. PICK r : r = NextRequest(m)
        OBVIOUS
      <4>3. r = IF Head(News).done THEN Request(Following[Head(News).kind], Head(News).level, 0)
                ELSE Request(Head(News).kind, Head(News).level, Head(News).next)
        BY <3>1, <4>2
      <4>4. /\ r \in RequestType
            /\ RoundInv(spawncount, count, got \union ({<<h.level, h.kind>>} \X h.items),
                        Append(toServer, r), Tail(News))
        BY <3>1, <4>1, <4>3, AskedForMore
      <4> QED
        BY <4>2, <4>4
    <3> QED
      BY <2>1, <3>1, <3>2
  <2>5. state = "spawned" => RequestStep(spawncount, NextRequest(m)) = 2
    <3> SUFFICES ASSUME state = "spawned" PROVE RequestStep(spawncount, NextRequest(m)) = 2
      OBVIOUS
    <3>1. GoRoundInOrder(spawncount, toServer', Tail(News))
      BY <2>4 DEF RoundInv
    <3>2. m.level = spawncount
      BY <1>5 DEF MessageStep
    <3>3. PICK a \in 0 .. Items[m.kind] - 1 : PartFrom(m, a)
      BY <1>0, <1>3, <2>1, <3>2 DEF RoundInv, HasWhatComesBefore
    <3>4. m.next > 0
      <4>1. m.next \in Nat
        BY <1>1, <2>1, MessageFields
      <4> QED
        BY <3>3, <4>1 DEF PartFrom
    <3>5. Following[m.kind] # "soundlist"
      BY <2>1 DEF Following, Stage, Lists
    <3> QED
      BY <2>3, <3>2, <3>4, <3>5 DEF RequestStep, Request
  <2>6. /\ toServer' \in Seq(RequestType)
        /\ state = "spawned" => count' = spawncount /\ AllThere(spawncount, toServer', News')
    BY <1>4, <2>1, <2>4, <2>5
  <2>7. {<<m.level, m.kind>>} \X m.items \subseteq Whole(count)
    BY <2>1, <2>2 DEF Whole
  <2>8. got' \subseteq Whole(count)
    BY <1>0, <2>1, <2>7 DEF NothingElse
  <2>9. got' \subseteq {<<level, stage>> : level \in Level, stage \in Stage} \X Nat
    <3>1. m.items \subseteq Nat
      BY <2>1, <2>2 DEF Sane
    <3> QED
      BY <1>1, <2>1, <2>2, <3>1
  <2>10. TypeOK'
    BY <1>0, <1>1, <2>1, <2>6, <2>9 DEF TypeOK, RequestType
  <2>11. InGameWithTheLevel'
    BY <1>0, <1>1, <2>1, <2>8 DEF InGameWithTheLevel
  <2>12. (state = "spawned" => count = spawncount /\ AllThere(spawncount, toServer, News))'
    BY <1>1, <2>6
  <2>13. RoundInv(spawncount, count, got, toServer, News)'
    BY <1>1, <2>1, <2>4
  <2> QED
    BY <2>1, <2>8, <2>10, <2>11, <2>12, <2>13 DEF SignonInv, NothingElse
<1> QED
  BY <1>6, <1>7, <1>8 DEF Receive

-----------------------------------------------------------------------------
(* A client in the game has all of the level the server is at, and nothing *)
(* of another one: whatever the lengths of the lists, and however often    *)
(* and whenever the level changes while the client is connecting.          *)
THEOREM InGameWhole ==
    ASSUME Crowded = FALSE, Items \in [Stage -> Nat \ {0}], MaxLevels \in Nat \ {0}
    PROVE  Spec => []InGameWithTheLevel
<1>1. Sane
  BY DEF Sane
<1>2. Init => SignonInv
  BY <1>1, SignonStart
<1>3. SignonInv /\ [Next]_vars => SignonInv'
  <2>1. SignonInv /\ UNCHANGED vars => SignonInv'
    BY DEF vars, server, SignonInv, TypeOK, News, NothingElse, InGameWithTheLevel
  <2> QED
    BY <1>1, <2>1, ExecuteRequestStep, TransmitStep, ChangeLevelStep, ReceiveStep DEF Next
<1>4. SignonInv => InGameWithTheLevel
  BY DEF SignonInv
<1> QED
  BY <1>2, <1>3, <1>4, PTL DEF Spec
=============================================================================
