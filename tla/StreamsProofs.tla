---------------------------- MODULE StreamsProofs ----------------------------
(***************************************************************************)
(* Theorems about the connections the server holds open: those of QTV      *)
(* proxies (QtvStreams), for any number of sockets, limits and timeouts,   *)
(* and that of a client behind a qizmo proxy (TcpTunnel), for packets of   *)
(* any number and lengths and buffers of any size; and about what is       *)
(* recorded into them and into files (MvdRecorder), for frames, caches and *)
(* recordings of any size and number.                                      *)
(***************************************************************************)
EXTENDS MvdRecorder, QtvStreams, TcpTunnel,
        FiniteSetTheorems, SequenceTheorems, WellFoundedInduction, TLAPS

(* A set of numbers that is not empty has a least one. *)
LEMMA LeastNumber ==
    ASSUME NEW S \in SUBSET Nat, S # {}
    PROVE  \E x \in S : \A y \in S : x <= y
  <1> DEFINE less == {ss \in Nat \X Nat : ss[1] < ss[2]}
  <1>1. IsWellFoundedOn(less, Nat)
      BY NatLessThanWellFounded, Zenon DEF OpToRel
  <1>2. PICK x \in S : \A y \in S : ~(<<y, x>> \in less)
      BY <1>1, WFMin
  <1>3. ASSUME NEW y \in S PROVE x <= y
    <2>1. x \in Nat /\ y \in Nat /\ ~(<<y, x>> \in less)
        BY <1>2, <1>3
    <2>2. ~(y < x)
        BY <2>1
    <2> QED BY <2>1, <2>2
  <1> QED BY <1>3

-----------------------------------------------------------------------------
(* Without, whose recursive function there is one of for every list.       *)
StepOf(list, gone, f, i) ==
    IF i = 0 THEN <<>> ELSE IF i \in gone THEN f[i - 1] ELSE Append(f[i - 1], list[i])

(* Up to each place of a list, the function of Without exists. *)
LEMMA KeptUpTo ==
    ASSUME NEW S, NEW list \in Seq(S), NEW gone
    PROVE  \A n \in 0..Len(list) : \E f : f = [i \in 0..n |-> StepOf(list, gone, f, i)]
  <1> DEFINE Bad == {n \in 0..Len(list) : ~\E f : f = [i \in 0..n |-> StepOf(list, gone, f, i)]}
  <1> SUFFICES ASSUME Bad # {} PROVE FALSE
    OBVIOUS
  <1>a. Bad \in SUBSET Nat
    BY LenProperties
  <1>1. PICK n \in Bad : \A m \in Bad : n <= m
    <2> HIDE DEF Bad
    <2> QED
      BY <1>a, LeastNumber
  <1>2. n \in 0..Len(list)
    OBVIOUS
  <1>3. CASE n = 0
    <2> DEFINE g == [i \in 0..n |-> <<>>]
    <2>1. g = [i \in 0..n |-> StepOf(list, gone, g, i)]
      BY <1>3 DEF StepOf
    <2> QED
      BY <2>1
  <1>4. CASE n # 0
    <2>1. n - 1 \in 0..Len(list) /\ n - 1 \notin Bad
      BY <1>1, <1>2, <1>4
    <2>2. PICK f : f = [i \in 0..n - 1 |-> StepOf(list, gone, f, i)]
      BY <2>1
    <2> DEFINE g == [i \in 0..n |-> IF i < n THEN f[i] ELSE StepOf(list, gone, f, n)]
    <2>3. \A i \in 0..n : g[i] = StepOf(list, gone, g, i)
      <3> TAKE i \in 0..n
      <3>1. i # 0 => i - 1 \in 0..n - 1 /\ g[i - 1] = f[i - 1]
        BY <1>2
      <3>2. StepOf(list, gone, g, i) = StepOf(list, gone, f, i)
        BY <3>1 DEF StepOf
      <3>3. i < n => f[i] = StepOf(list, gone, f, i)
        BY <2>2, <1>2
      <3> QED
        BY <3>2, <3>3, <1>2
    <2>4. g = [i \in 0..n |-> StepOf(list, gone, g, i)]
      BY <2>3
    <2> QED
      BY <2>4
  <1> QED
    BY <1>3, <1>4

(* Without is made place by place. *)
LEMMA WithoutSteps ==
    ASSUME NEW S, NEW list \in Seq(S), NEW gone
    PROVE  \E f : /\ f = [i \in 0..Len(list) |-> StepOf(list, gone, f, i)]
                  /\ Without(list, gone) = f[Len(list)]
  <1> DEFINE Def(f) == f = [i \in 0..Len(list) |->
                  IF i = 0 THEN <<>>
                  ELSE IF i \in gone THEN f[i - 1] ELSE Append(f[i - 1], list[i])]
             F == CHOOSE f : Def(f)
  <1>1. Without(list, gone) = F[Len(list)]
    BY DEF Without
  <1>a. Len(list) \in 0..Len(list)
    BY LenProperties
  <1>2. \E f : f = [i \in 0..Len(list) |-> StepOf(list, gone, f, i)]
    BY <1>a, KeptUpTo, Zenon
  <1>3. \E f : Def(f)
    BY <1>2 DEF StepOf
  <1>4. Def(F)
    <2> HIDE DEF Def
    <2> QED
      BY <1>3, Zenon
  <1>5. F = [i \in 0..Len(list) |-> StepOf(list, gone, F, i)]
    BY <1>4, Zenon DEF StepOf
  <1> HIDE DEF F
  <1> QED
    BY <1>1, <1>5

-----------------------------------------------------------------------------
(* A list owns a socket where an entry holds it; in a list that owns none  *)
(* twice, no two entries do.                                               *)
Owns(list, s) == \E i \in DOMAIN list : list[i].sock = s
Once(list) ==
    \A i, j \in DOMAIN list : list[i].sock = list[j].sock /\ list[i].sock # Closed => i = j

(* An entry put at the end of a list adds the socket it holds to those of  *)
(* the list (what Without does for each entry that stays).                 *)
LEMMA OwnsAppended ==
    ASSUME NEW S, NEW q \in Seq(S), NEW e \in S
    PROVE  /\ Append(q, e) \in Seq(S)
           /\ \A s : Owns(Append(q, e), s) <=> Owns(q, s) \/ e.sock = s
           /\ Once(q) /\ (e.sock # Closed => ~Owns(q, e.sock)) => Once(Append(q, e))
  <1> DEFINE a == Append(q, e)
  <1>1. /\ a \in Seq(S) /\ Len(q) \in Nat
        /\ DOMAIN q = 1..Len(q) /\ DOMAIN a = 1..(Len(q) + 1)
        /\ \A i \in 1..Len(q) : a[i] = q[i]
        /\ a[Len(q) + 1] = e
    BY AppendProperties, LenProperties
  <1> HIDE DEF a
  <1>2. ASSUME NEW s PROVE Owns(a, s) <=> Owns(q, s) \/ e.sock = s
    <2>1. ASSUME NEW i \in DOMAIN a, a[i].sock = s PROVE Owns(q, s) \/ e.sock = s
      <3>1. i \in 1..Len(q) \/ i = Len(q) + 1
        BY <1>1
      <3> QED
        BY <1>1, <2>1, <3>1 DEF Owns
    <2>2. ASSUME NEW i \in DOMAIN q, q[i].sock = s PROVE Owns(a, s)
      <3>1. i \in DOMAIN a /\ a[i] = q[i]
        BY <1>1
      <3> QED
        BY <2>2, <3>1 DEF Owns
    <2>3. e.sock = s => Owns(a, s)
      <3>1. Len(q) + 1 \in DOMAIN a
        BY <1>1
      <3> QED
        BY <1>1, <3>1 DEF Owns
    <2> QED
      BY <2>1, <2>2, <2>3 DEF Owns
  <1>3. ASSUME Once(q), e.sock # Closed => ~Owns(q, e.sock) PROVE Once(a)
    <2> SUFFICES ASSUME NEW i \in DOMAIN a, NEW j \in DOMAIN a,
                        a[i].sock = a[j].sock, a[i].sock # Closed
                 PROVE  i = j
      BY DEF Once
    <2>1. (i \in 1..Len(q) \/ i = Len(q) + 1) /\ (j \in 1..Len(q) \/ j = Len(q) + 1)
      BY <1>1
    <2>2. i \in 1..Len(q) /\ j \in 1..Len(q) => i = j
      BY <1>1, <1>3 DEF Once
    <2>3. ~(i \in 1..Len(q) /\ j = Len(q) + 1) /\ ~(j \in 1..Len(q) /\ i = Len(q) + 1)
      BY <1>1, <1>3 DEF Owns
    <2> QED
      BY <2>1, <2>2, <2>3
  <1> QED
    BY <1>1, <1>2, <1>3 DEF a

(* A list without some of its entries owns what the others hold, and none  *)
(* of it twice (the sweeps of sv_demo_qtv.c 241-261 and DestFlush).        *)
LEMMA WithoutKeeps ==
    ASSUME NEW S, NEW list \in Seq(S), NEW gone
    PROVE  /\ Without(list, gone) \in Seq(S)
           /\ \A s : Owns(Without(list, gone), s)
                        <=> \E k \in DOMAIN list \ gone : list[k].sock = s
           /\ Once(list) => Once(Without(list, gone))
  <1>1. PICK f : /\ f = [i \in 0..Len(list) |-> StepOf(list, gone, f, i)]
                 /\ Without(list, gone) = f[Len(list)]
    BY WithoutSteps
  <1>l. Len(list) \in Nat /\ DOMAIN list = 1..Len(list) /\ \A i \in 1..Len(list) : list[i] \in S
    BY LenProperties, ElementOfSeq
  <1> DEFINE Good(i) ==
                 /\ f[i] \in Seq(S)
                 /\ \A s : Owns(f[i], s) <=> \E k \in 1..i \ gone : list[k].sock = s
                 /\ Once(list) => Once(f[i])
             Bad == {i \in 0..Len(list) : ~Good(i)}
  <1>s. \A i \in 0..Len(list) : f[i] = StepOf(list, gone, f, i)
    BY <1>1
  <1>2. Bad = {}
    <2> SUFFICES ASSUME Bad # {} PROVE FALSE
      OBVIOUS
    <2>a. Bad \in SUBSET Nat
      BY <1>l
    <2>1. PICK n \in Bad : \A m \in Bad : n <= m
      <3> HIDE DEF Bad
      <3> QED
        BY <2>a, LeastNumber
    <2>2. n \in 0..Len(list) /\ ~Good(n)
      OBVIOUS
    <2>3. CASE n = 0
      <3>1. f[n] = <<>>
        BY <1>s, <2>2, <2>3 DEF StepOf
      <3> QED
        BY <3>1, <2>2, <2>3 DEF Owns, Once
    <2>4. CASE n # 0
      <3>1. n - 1 \in 0..Len(list) /\ n - 1 \notin Bad
        <4> HIDE DEF Bad
        <4> QED
          BY <2>1, <2>2, <2>4, <1>l
      <3>2. Good(n - 1)
        BY <3>1
      <3>3. CASE n \in gone
        <4>1. f[n] = f[n - 1]
          BY <1>s, <2>2, <2>4, <3>3 DEF StepOf
        <4>2. 1..n \ gone = 1..(n - 1) \ gone
          BY <2>2, <2>4, <3>3
        <4> QED
          BY <3>2, <4>1, <4>2, <2>2
      <3>4. CASE n \notin gone
        <4>1. f[n] = Append(f[n - 1], list[n])
          BY <1>s, <2>2, <2>4, <3>4 DEF StepOf
        <4>2. 1..n \ gone = (1..(n - 1) \ gone) \union {n}
          BY <2>2, <2>4, <3>4
        <4>3. PICK q \in Seq(S) : q = f[n - 1]
          BY <3>2
        <4>4. PICK e \in S : e = list[n]
          BY <1>l, <2>2, <2>4
        <4>5. Append(q, e) \in Seq(S)
          BY OwnsAppended
        <4>6. \A s : Owns(Append(q, e), s) <=> Owns(q, s) \/ e.sock = s
          BY OwnsAppended
        <4>7. ASSUME Once(list) PROVE Once(f[n])
          <5>1. Once(q)
            BY <3>2, <4>3, <4>7
          <5>2. e.sock # Closed => ~Owns(q, e.sock)
            <6>1. ASSUME NEW k \in 1..(n - 1), list[k].sock = e.sock, e.sock # Closed
                  PROVE  FALSE
              BY <4>7, <4>4, <6>1, <1>l, <2>2, <2>4 DEF Once
            <6> QED
              BY <6>1, <3>2, <4>3
          <5>3. Once(Append(q, e))
            BY <5>1, <5>2, OwnsAppended
          <5> QED
            BY <5>3, <4>1, <4>3, <4>4
        <4>8. \A s : Owns(f[n], s) <=> \E k \in 1..n \ gone : list[k].sock = s
          BY <4>6, <4>1, <4>3, <4>4, <4>2, <3>2
        <4> QED
          BY <4>5, <4>1, <4>3, <4>4, <4>7, <4>8, <2>2
      <3> QED
        BY <3>3, <3>4
    <2> QED
      BY <2>3, <2>4
  <1>3. Good(Len(list))
    <2>1. Len(list) \in 0..Len(list)
      BY <1>l
    <2> HIDE DEF Good
    <2> QED
      BY <1>2, <2>1
  <1> HIDE DEF Bad
  <1>4. \A s : Owns(f[Len(list)], s) <=> \E k \in DOMAIN list \ gone : list[k].sock = s
    BY <1>3, <1>l
  <1> QED
    BY <1>3, <1>4, <1>1

-----------------------------------------------------------------------------
(* An entry of pendingdest is marked when its socket has been handed on. *)
Pending ==
    {p \in [sock : Sock \union {Closed}, error : BOOLEAN, hasauthed : BOOLEAN,
            must_be_qizmo : BOOLEAN, io_time : Nat, sent : Nat] :
        p.sock = Closed => p.error}
OpenStream == [sock : Sock, name : Name, error : BOOLEAN, users : Seq(UserId)]

(* The invariant, of any lists: what is open has one owner, and what owns  *)
(* something is of the right kind.                                         *)
OwnedOnce(P, D, T, O, A) ==
    /\ P \in Seq(Pending) /\ D \in Seq(OpenStream)
    /\ T \subseteq Sock /\ O \subseteq A /\ A \subseteq Sock
    /\ Once(P) /\ Once(D)
    /\ \A s \in Sock :
          /\ s \in O <=> Owns(P, s) \/ Owns(D, s) \/ s \in T
          /\ ~(Owns(P, s) /\ Owns(D, s))
          /\ ~(Owns(P, s) /\ s \in T)
          /\ ~(Owns(D, s) /\ s \in T)

StreamsInv == OwnedOnce(pending, dest, tcpstreams, open, seen)

SameSockets(a, b) ==
    DOMAIN a = DOMAIN b /\ \A i \in DOMAIN a : a[i].sock = b[i].sock

(* A list that owns no socket twice has one entry for each that it owns. *)
LEMMA OwnsOne ==
    ASSUME NEW list, NEW s, Once(list), s # Closed
    PROVE  Cardinality({i \in DOMAIN list : list[i].sock = s}) = IF Owns(list, s) THEN 1 ELSE 0
  <1> DEFINE at == {i \in DOMAIN list : list[i].sock = s}
  <1>1. CASE Owns(list, s)
    <2>1. PICK k \in DOMAIN list : list[k].sock = s
      BY <1>1 DEF Owns
    <2>2. at = {k}
      BY <2>1 DEF Once
    <2> QED
      BY <1>1, <2>2, FS_Singleton
  <1>2. CASE ~Owns(list, s)
    <2>1. at = {}
      BY <1>2 DEF Owns
    <2> QED
      BY <1>2, <2>1, FS_EmptySet
  <1> QED
    BY <1>1, <1>2

(* Lists whose entries hold the same sockets at the same places own the    *)
(* same.                                                                   *)
LEMMA SameSocketsSame ==
    ASSUME NEW a, NEW b, SameSockets(a, b)
    PROVE  /\ \A s : Owns(a, s) <=> Owns(b, s)
           /\ Once(a) <=> Once(b)
  BY DEF SameSockets, Owns, Once

(* The owners stay as they are where entries change in anything but their  *)
(* sockets.                                                                *)
LEMMA StillOwned ==
    ASSUME NEW P, NEW D, NEW T, NEW O, NEW A, OwnedOnce(P, D, T, O, A),
           NEW P2 \in Seq(Pending), NEW D2 \in Seq(OpenStream),
           SameSockets(P, P2), SameSockets(D, D2)
    PROVE  OwnedOnce(P2, D2, T, O, A)
  BY SameSocketsSame DEF OwnedOnce

(* SV_MVDCloseStreams marks the pending connections and takes no socket    *)
(* from any.                                                               *)
LEMMA MarkedPending ==
    ASSUME NEW P \in Seq(Pending)
    PROVE  AllMarked(P) \in Seq(Pending) /\ SameSockets(P, AllMarked(P))
  <1>1. Len(P) \in Nat /\ DOMAIN P = 1..Len(P) /\ \A i \in 1..Len(P) : P[i] \in Pending
    BY LenProperties, ElementOfSeq
  <1> DEFINE marked(x) == [x EXCEPT !.error = TRUE]
  <1>2. \A x \in Pending : marked(x) \in Pending /\ marked(x).sock = x.sock
    BY DEF Pending
  <1>3. AllMarked(P) = [i \in 1..Len(P) |-> marked(P[i])]
    BY <1>1 DEF AllMarked
  <1> HIDE DEF marked
  <1> QED
    BY <1>1, <1>2, <1>3, IsASeq DEF SameSockets

(* ... and the streams. *)
LEMMA MarkedStreams ==
    ASSUME NEW D \in Seq(OpenStream)
    PROVE  AllMarked(D) \in Seq(OpenStream) /\ SameSockets(D, AllMarked(D))
  <1>1. Len(D) \in Nat /\ DOMAIN D = 1..Len(D) /\ \A i \in 1..Len(D) : D[i] \in OpenStream
    BY LenProperties, ElementOfSeq
  <1> DEFINE marked(x) == [x EXCEPT !.error = TRUE]
  <1>2. \A x \in OpenStream : marked(x) \in OpenStream /\ marked(x).sock = x.sock
    BY DEF OpenStream
  <1>3. AllMarked(D) = [i \in 1..Len(D) |-> marked(D[i])]
    BY <1>1 DEF AllMarked
  <1> HIDE DEF marked
  <1> QED
    BY <1>1, <1>2, <1>3, IsASeq DEF SameSockets

(* A frame that passes marks those that time out and moves no socket. *)
LEMMA TimedOutAndLater ==
    ASSUME NEW P \in Seq(Pending)
    PROVE  /\ TimedOut(P) \in Seq(Pending) /\ SameSockets(P, TimedOut(P))
           /\ Later(P) \in Seq(Pending) /\ SameSockets(P, Later(P))
  <1>1. Len(P) \in Nat /\ DOMAIN P = 1..Len(P) /\ \A i \in 1..Len(P) : P[i] \in Pending
    BY LenProperties, ElementOfSeq
  <1> DEFINE out(p) == [p EXCEPT !.error = @ \/ p.io_time >= PendingTimeout]
             late(p) == [p EXCEPT !.io_time = IF @ < PendingTimeout THEN @ + 1 ELSE @]
  <1>2. \A p \in Pending : out(p) \in Pending /\ out(p).sock = p.sock
    BY QtvLimitsAssumption DEF Pending
  <1>3. ASSUME NEW p \in Pending PROVE late(p) \in Pending /\ late(p).sock = p.sock
    <2>1. PICK n \in Nat : n = IF p.io_time < PendingTimeout THEN p.io_time + 1 ELSE p.io_time
      BY QtvLimitsAssumption DEF Pending
    <2>2. late(p) = [p EXCEPT !.io_time = n]
      BY <2>1
    <2>3. [p EXCEPT !.io_time = n] \in Pending /\ [p EXCEPT !.io_time = n].sock = p.sock
      BY DEF Pending
    <2> QED
      BY <2>2, <2>3
  <1>4. TimedOut(P) = [i \in 1..Len(P) |-> out(P[i])]
    BY <1>1 DEF TimedOut
  <1>5. Later(P) = [i \in 1..Len(P) |-> late(P[i])]
    BY <1>1 DEF Later
  <1> HIDE DEF out, late
  <1> QED
    BY <1>1, <1>2, <1>3, <1>4, <1>5, IsASeq DEF SameSockets

(* A new entry at the head of a list adds its socket to those of the list. *)
LEMMA Prepended ==
    ASSUME NEW S, NEW q \in Seq(S), NEW e \in S
    PROVE  /\ <<e>> \o q \in Seq(S)
           /\ \A s : Owns(<<e>> \o q, s) <=> Owns(q, s) \/ e.sock = s
           /\ Once(q) /\ (e.sock # Closed => ~Owns(q, e.sock)) => Once(<<e>> \o q)
  <1> DEFINE a == <<e>> \o q
  <1>1. /\ a \in Seq(S) /\ Len(q) \in Nat
        /\ DOMAIN q = 1..Len(q) /\ DOMAIN a = 1..(Len(q) + 1)
        /\ a[1] = e
        /\ \A i \in 2..(Len(q) + 1) : a[i] = q[i - 1]
    <2>1. <<e>> \in Seq(S) /\ Len(<<e>>) = 1 /\ <<e>>[1] = e
      OBVIOUS
    <2> QED
      BY <2>1, ConcatProperties, LenProperties
  <1> HIDE DEF a
  <1>2. ASSUME NEW s PROVE Owns(a, s) <=> Owns(q, s) \/ e.sock = s
    <2>1. ASSUME NEW i \in DOMAIN a, a[i].sock = s PROVE Owns(q, s) \/ e.sock = s
      <3>1. i = 1 \/ (i \in 2..(Len(q) + 1) /\ i - 1 \in DOMAIN q)
        BY <1>1
      <3> QED
        BY <1>1, <2>1, <3>1 DEF Owns
    <2>2. ASSUME NEW i \in DOMAIN q, q[i].sock = s PROVE Owns(a, s)
      <3>1. i + 1 \in DOMAIN a /\ a[i + 1] = q[i]
        BY <1>1
      <3> QED
        BY <2>2, <3>1 DEF Owns
    <2>3. e.sock = s => Owns(a, s)
      <3>1. 1 \in DOMAIN a
        BY <1>1
      <3> QED
        BY <1>1, <3>1 DEF Owns
    <2> QED
      BY <2>1, <2>2, <2>3 DEF Owns
  <1>3. ASSUME Once(q), e.sock # Closed => ~Owns(q, e.sock) PROVE Once(a)
    <2> SUFFICES ASSUME NEW i \in DOMAIN a, NEW j \in DOMAIN a,
                        a[i].sock = a[j].sock, a[i].sock # Closed
                 PROVE  i = j
      BY DEF Once
    <2>1. /\ i = 1 \/ (i \in 2..(Len(q) + 1) /\ i - 1 \in DOMAIN q)
          /\ j = 1 \/ (j \in 2..(Len(q) + 1) /\ j - 1 \in DOMAIN q)
      BY <1>1
    <2>2. i \in 2..(Len(q) + 1) /\ j \in 2..(Len(q) + 1) => i = j
      <3> SUFFICES ASSUME i \in 2..(Len(q) + 1), j \in 2..(Len(q) + 1) PROVE i = j
        OBVIOUS
      <3>1. q[i - 1].sock = q[j - 1].sock /\ q[i - 1].sock # Closed
        BY <1>1
      <3>2. i - 1 = j - 1
        BY <2>1, <3>1, <1>3, <1>1 DEF Once
      <3> QED
        BY <3>2
    <2>3. ~(i \in 2..(Len(q) + 1) /\ j = 1) /\ ~(j \in 2..(Len(q) + 1) /\ i = 1)
      BY <2>1, <1>1, <1>3 DEF Owns
    <2> QED
      BY <2>1, <2>2, <2>3
  <1> QED
    BY <1>1, <1>2, <1>3 DEF a

(* A connection is handed on: its place holds no socket any more. *)
LEMMA HandedOnFrom ==
    ASSUME NEW P \in Seq(Pending), NEW h \in DOMAIN P, Once(P),
           NEW p \in Pending, p.sock = Closed, P[h].sock # Closed
    PROVE  /\ [P EXCEPT ![h] = p] \in Seq(Pending)
           /\ Once([P EXCEPT ![h] = p])
           /\ \A s \in Sock : Owns([P EXCEPT ![h] = p], s) <=> Owns(P, s) /\ s # P[h].sock
  <1> DEFINE N == [P EXCEPT ![h] = p]
  <1>1. DOMAIN N = DOMAIN P /\ N[h] = p /\ \A i \in DOMAIN P : i # h => N[i] = P[i]
    OBVIOUS
  <1>2. N \in Seq(Pending)
    BY ExceptSeq
  <1> HIDE DEF N
  <1>3. Once(N)
    BY <1>1 DEF Once
  <1>4. ASSUME NEW s \in Sock PROVE Owns(N, s) <=> Owns(P, s) /\ s # P[h].sock
    <2>0. s # Closed
      BY SockAssumption
    <2>1. Owns(N, s) => Owns(P, s) /\ s # P[h].sock
      BY <1>1, <2>0 DEF Owns, Once
    <2>2. Owns(P, s) /\ s # P[h].sock => Owns(N, s)
      BY <1>1 DEF Owns
    <2> QED
      BY <2>1, <2>2
  <1> QED
    BY <1>2, <1>3, <1>4 DEF N

(* A connection that has been heard still holds its socket. *)
LEMMA HeardIsPending ==
    ASSUME NEW p \in Pending
    PROVE  LET q == [p EXCEPT !.io_time = 0, !.sent = p.sent + 1]
           IN q \in Pending /\ q.sock = p.sock
  <1>1. \A x \in Pending : LET y == [x EXCEPT !.io_time = 0]
                          IN y \in Pending /\ y.sock = x.sock
    BY DEF Pending
  <1>2. \A x \in Pending, n \in Nat : LET y == [x EXCEPT !.sent = n]
                                   IN y \in Pending /\ y.sock = x.sock
    BY DEF Pending
  <1>3. p.sent + 1 \in Nat
    BY DEF Pending
  <1>4. [p EXCEPT !.io_time = 0, !.sent = p.sent + 1]
           = [[p EXCEPT !.io_time = 0] EXCEPT !.sent = p.sent + 1]
    BY Zenon
  <1> QED
    BY <1>1, <1>2, <1>3, <1>4, Zenon

(* One answer in SV_MVD_RunPendingConnections: the socket stays where it   *)
(* is, or goes to a stream or a qizmo client and nowhere else.             *)
LEMMA AnswerOwned ==
    ASSUME NEW P, NEW D, NEW T, NEW O, NEW A, OwnedOnce(P, D, T, O, A),
           NEW h \in DOMAIN P, NEW in \in Input, NEW answer, answer = Answer(P[h], D, in),
           NEW D2, D2 = IF answer = "a stream"
                        THEN <<NewStream(P[h], in.header.name)>> \o D ELSE D,
           NEW T2, T2 = IF answer = "a qizmo" THEN T \union {P[h].sock} ELSE T
    PROVE  OwnedOnce([P EXCEPT ![h] = After(P[h], answer)], D2, T2, O, A)
  <1>1. /\ P \in Seq(Pending) /\ D \in Seq(OpenStream) /\ Once(P) /\ Once(D)
        /\ T \subseteq Sock /\ O \subseteq A /\ A \subseteq Sock
    BY DEF OwnedOnce
  <1>2. PICK p \in Pending : p = P[h]
    BY <1>1, ElementOfSeq, LenProperties
  <1>3. PICK q : q = After(p, answer)
    OBVIOUS
  <1> DEFINE N == [P EXCEPT ![h] = q]
  <1>4. Owns(P, p.sock)
    BY <1>2 DEF Owns
  <1>5. CASE answer \in {"the same", "pending", "an error"}
    <2>1. q \in Pending /\ q.sock = p.sock
      <3>1. CASE answer = "the same"
        BY <3>1, <1>3 DEF After
      <3>2. CASE answer = "pending"
        <4>1. q = [p EXCEPT !.io_time = 0, !.sent = p.sent + 1]
          BY <3>2, <1>3 DEF After
        <4> QED
          BY <4>1, HeardIsPending, Zenon
      <3>3. CASE answer = "an error"
        <4>1. q = [p EXCEPT !.error = TRUE]
          BY <3>3, <1>3 DEF After
        <4> QED
          BY <4>1 DEF Pending
      <3> QED
        BY <1>5, <3>1, <3>2, <3>3
    <2>2. N \in Seq(Pending)
      BY <1>1, <2>1, ExceptSeq, LenProperties
    <2>3. SameSockets(P, N)
      BY <1>2, <2>1 DEF SameSockets
    <2>4. SameSockets(D, D)
      BY DEF SameSockets
    <2> HIDE DEF N
    <2>5. OwnedOnce(N, D, T, O, A)
      BY <2>2, <2>3, <2>4, <1>1, StillOwned
    <2> QED
      BY <2>5, <1>5, <1>2, <1>3 DEF N
  <1>6. ASSUME answer \in {"a qizmo", "a stream"}
        PROVE  /\ p.sock \in Sock
               /\ N \in Seq(Pending) /\ Once(N)
               /\ \A x \in Sock : Owns(N, x) <=> Owns(P, x) /\ x # p.sock
    <2>1. ~p.error
      BY <1>2, <1>6 DEF Answer
    <2>2. p.sock # Closed /\ p.sock \in Sock
      BY <2>1 DEF Pending
    <2>3. q = [p EXCEPT !.sock = Closed, !.error = TRUE]
      BY <1>3, <1>6 DEF After, HandedOn
    <2>4. q \in Pending /\ q.sock = Closed
      BY <2>3 DEF Pending
    <2> QED
      BY <2>2, <2>4, <1>1, <1>2, HandedOnFrom
  <1>7. CASE answer = "a qizmo"
    <2>1. D2 = D /\ T2 = T \union {p.sock}
      BY <1>2, <1>7
    <2> HIDE DEF N
    <2>2. OwnedOnce(N, D2, T2, O, A)
      BY <2>1, <1>1, <1>4, <1>6, <1>7 DEF OwnedOnce
    <2> QED
      BY <2>2, <1>2, <1>3 DEF N
  <1>8. CASE answer = "a stream"
    <2>1. D2 = <<NewStream(p, in.header.name)>> \o D /\ T2 = T
      BY <1>2, <1>8
    <2>2. in.header.name \in Name
      <3>1. in.kind \notin {"end", "qizmo", "part", "other"}
        BY <1>8 DEF Answer
      <3> QED
        BY <3>1, RequestAssumption DEF Input, Header
    <2>3. p.sock \in Sock
      BY <1>6, <1>8
    <2>a. <<>> \in Seq(UserId)
      BY EmptySeq
    <2>4. PICK e \in OpenStream : e = NewStream(p, in.header.name) /\ e.sock = p.sock
      <3> DEFINE e == NewStream(p, in.header.name)
      <3>1. e \in OpenStream /\ e.sock = p.sock
        BY <2>2, <2>3, <2>a DEF NewStream, OpenStream
      <3> HIDE DEF e
      <3> QED
        BY <3>1 DEF e
    <2>5. ~Owns(D, p.sock)
      BY <1>4, <2>3 DEF OwnedOnce
    <2>6. /\ D2 \in Seq(OpenStream) /\ Once(D2)
          /\ \A x : Owns(D2, x) <=> Owns(D, x) \/ x = p.sock
      <3>1. D2 = <<e>> \o D
        BY <2>1, <2>4
      <3>2. /\ <<e>> \o D \in Seq(OpenStream)
            /\ \A x : Owns(<<e>> \o D, x) <=> Owns(D, x) \/ e.sock = x
            /\ Once(D) /\ (e.sock # Closed => ~Owns(D, e.sock)) => Once(<<e>> \o D)
        <4>1. D \in Seq(OpenStream) /\ e \in OpenStream
          BY <1>1, <2>4
        <4> QED
          BY <4>1, Prepended, Zenon
      <3> QED
        BY <3>1, <3>2, <2>4, <2>5, <1>1, Zenon
    <2> HIDE DEF N
    <2>7. ASSUME NEW s \in Sock
          PROVE  /\ s \in O <=> Owns(N, s) \/ Owns(D2, s) \/ s \in T2
                 /\ ~(Owns(N, s) /\ Owns(D2, s))
                 /\ ~(Owns(N, s) /\ s \in T2)
                 /\ ~(Owns(D2, s) /\ s \in T2)
      <3>1. Owns(N, s) <=> Owns(P, s) /\ s # p.sock
        BY <1>6, <1>8
      <3>2. Owns(D2, s) <=> Owns(D, s) \/ s = p.sock
        BY <2>6
      <3>3. /\ s \in O <=> Owns(P, s) \/ Owns(D, s) \/ s \in T
            /\ ~(Owns(P, s) /\ Owns(D, s))
            /\ ~(Owns(P, s) /\ s \in T)
            /\ ~(Owns(D, s) /\ s \in T)
        BY DEF OwnedOnce
      <3> QED
        BY <3>1, <3>2, <3>3, <1>4, <2>1
    <2>8. OwnedOnce(N, D2, T2, O, A)
      BY <2>1, <2>6, <2>7, <1>1, <1>6, <1>8 DEF OwnedOnce
    <2> QED
      BY <2>8, <1>2, <1>3 DEF N
  <1>9. answer \in {"the same", "pending", "an error", "a qizmo", "a stream"}
    BY DEF Answer
  <1> QED
    BY <1>5, <1>7, <1>8, <1>9

(* The sweep of a frame closes what it takes out of the list. *)
LEMMA SweptOwned ==
    ASSUME NEW P, NEW D, NEW T, NEW O, NEW A, OwnedOnce(P, D, T, O, A),
           NEW gone, NEW left, left = Without(TimedOut(P), gone)
    PROVE  OwnedOnce(Later(left), D, T, O \ (SocketsOf(P) \ SocketsOf(left)), A)
  <1>1. P \in Seq(Pending) /\ Once(P)
    BY DEF OwnedOnce
  <1>2. PICK old : old = TimedOut(P)
    OBVIOUS
  <1>3. old \in Seq(Pending) /\ SameSockets(P, old)
    BY <1>1, <1>2, TimedOutAndLater
  <1>4. Once(old) /\ \A s : Owns(P, s) <=> Owns(old, s)
    BY <1>1, <1>3, SameSocketsSame
  <1>5. left \in Seq(Pending) /\ Once(left) /\ \A s : Owns(left, s) => Owns(P, s)
    <2>1. left \in Seq(Pending) /\ Once(left)
      BY <1>2, <1>3, <1>4, WithoutKeeps
    <2>2. \A s : Owns(left, s) <=> \E k \in DOMAIN old \ gone : old[k].sock = s
      BY <1>2, <1>3, WithoutKeeps
    <2>3. \A s : Owns(left, s) => Owns(old, s)
      BY <2>2 DEF Owns
    <2> QED
      BY <2>1, <2>3, <1>4
  <1>6. PICK L : L = Later(left)
    OBVIOUS
  <1>7. L \in Seq(Pending) /\ SameSockets(left, L)
    BY <1>5, <1>6, TimedOutAndLater
  <1>8. Once(L) /\ \A s : Owns(left, s) <=> Owns(L, s)
    BY <1>5, <1>7, SameSocketsSame
  <1>9. \A s \in Sock : /\ s \in SocketsOf(P) <=> Owns(P, s)
                        /\ s \in SocketsOf(left) <=> Owns(left, s)
    BY SockAssumption DEF SocketsOf, Owns
  <1>10. PICK O2 : O2 = O \ (SocketsOf(P) \ SocketsOf(left))
    OBVIOUS
  <1>11. ASSUME NEW s \in Sock PROVE s \in O2 <=> s \in O /\ ~(Owns(P, s) /\ ~Owns(left, s))
    <2>1. s \in O2 <=> s \in O /\ ~(s \in SocketsOf(P) /\ s \notin SocketsOf(left))
      BY <1>10
    <2> QED
      BY <2>1, <1>9
  <1>12. O2 \subseteq A
    BY <1>10 DEF OwnedOnce
  <1>13. ASSUME NEW s \in Sock
        PROVE  /\ s \in O2 <=> Owns(L, s) \/ Owns(D, s) \/ s \in T
               /\ ~(Owns(L, s) /\ Owns(D, s))
               /\ ~(Owns(L, s) /\ s \in T)
               /\ ~(Owns(D, s) /\ s \in T)
    BY <1>5, <1>8, <1>11, Zenon DEF OwnedOnce
  <1>14. OwnedOnce(L, D, T, O2, A)
    BY <1>7, <1>8, <1>5, <1>12, <1>13 DEF OwnedOnce
  <1> QED
    BY <1>6, <1>10, <1>14

(* DestFlush and SV_MVDStop close the sockets of the streams that they     *)
(* take out of demo.dest, and no others.                                   *)
LEMMA FlushedOwned ==
    ASSUME NEW P, NEW D, NEW T, NEW O, NEW A, OwnedOnce(P, D, T, O, A),
           NEW gone \in SUBSET DOMAIN D
    PROVE  OwnedOnce(P, Without(D, gone), T, O \ {D[i].sock : i \in gone}, A)
  <1>1. D \in Seq(OpenStream) /\ Once(D)
    BY DEF OwnedOnce
  <1>2. PICK D2 : D2 = Without(D, gone)
    OBVIOUS
  <1>3. PICK O2 : O2 = O \ {D[i].sock : i \in gone}
    OBVIOUS
  <1>4. /\ D2 \in Seq(OpenStream) /\ Once(D2)
        /\ \A s : Owns(D2, s) <=> \E k \in DOMAIN D \ gone : D[k].sock = s
    BY <1>1, <1>2, WithoutKeeps
  <1>5. \A i \in DOMAIN D : D[i].sock \in Sock /\ D[i].sock # Closed
    <2>1. \A i \in DOMAIN D : D[i] \in OpenStream
      BY <1>1, ElementOfSeq, LenProperties
    <2>2. \A d \in OpenStream : d.sock \in Sock
      BY DEF OpenStream
    <2> QED
      BY <2>1, <2>2, SockAssumption
  <1>6. ASSUME NEW s \in Sock PROVE Owns(D2, s) <=> Owns(D, s) /\ s \notin {D[i].sock : i \in gone}
    <2>1. ASSUME NEW k \in DOMAIN D \ gone, NEW i \in gone, D[k].sock = D[i].sock PROVE FALSE
      BY <1>1, <1>5, <2>1 DEF Once
    <2>2. Owns(D2, s) => Owns(D, s) /\ s \notin {D[i].sock : i \in gone}
      <3> SUFFICES ASSUME Owns(D2, s) PROVE Owns(D, s) /\ s \notin {D[i].sock : i \in gone}
        OBVIOUS
      <3>1. PICK k \in DOMAIN D \ gone : D[k].sock = s
        BY <1>4
      <3> QED
        BY <2>1, <3>1 DEF Owns
    <2>3. Owns(D, s) /\ s \notin {D[i].sock : i \in gone} => Owns(D2, s)
      <3> SUFFICES ASSUME Owns(D, s), s \notin {D[i].sock : i \in gone} PROVE Owns(D2, s)
        OBVIOUS
      <3>1. PICK k \in DOMAIN D : D[k].sock = s
        BY DEF Owns
      <3>2. k \notin gone
        BY <3>1
      <3> QED
        BY <1>4, <3>1, <3>2
    <2> QED
      BY <2>2, <2>3
  <1>7. ASSUME NEW s \in Sock PROVE s \in O2 <=> s \in O /\ (Owns(D, s) => Owns(D2, s))
    <2>1. s \in {D[i].sock : i \in gone} => Owns(D, s)
      BY DEF Owns
    <2> QED
      BY <2>1, <1>3, <1>6
  <1>8. ASSUME NEW s \in Sock
        PROVE  /\ s \in O2 <=> Owns(P, s) \/ Owns(D2, s) \/ s \in T
               /\ ~(Owns(P, s) /\ Owns(D2, s))
               /\ ~(Owns(P, s) /\ s \in T)
               /\ ~(Owns(D2, s) /\ s \in T)
    <2>1. /\ s \in O <=> Owns(P, s) \/ Owns(D, s) \/ s \in T
          /\ ~(Owns(P, s) /\ Owns(D, s))
          /\ ~(Owns(P, s) /\ s \in T)
          /\ ~(Owns(D, s) /\ s \in T)
      BY DEF OwnedOnce
    <2> QED
      BY <2>1, <1>6, <1>7
  <1>9. O2 \subseteq A
    BY <1>3 DEF OwnedOnce
  <1>10. OwnedOnce(P, D2, T, O2, A)
    BY <1>4, <1>8, <1>9 DEF OwnedOnce
  <1> QED
    BY <1>2, <1>3, <1>10

(* A change of the users of a stream leaves its socket alone. *)
LEMMA UserChanged ==
    ASSUME NEW d \in OpenStream, NEW u \in UserId
    PROVE  /\ AddUser(d, u) \in OpenStream /\ AddUser(d, u).sock = d.sock
           /\ FreeUser(d, u) \in OpenStream /\ FreeUser(d, u).sock = d.sock
  <1>1. \A l \in Seq(UserId) : LET c == [d EXCEPT !.users = l] IN c \in OpenStream /\ c.sock = d.sock
    BY DEF OpenStream
  <1>2. [d EXCEPT !.error = TRUE] \in OpenStream /\ [d EXCEPT !.error = TRUE].sock = d.sock
    BY DEF OpenStream
  <1>3. d.users \in Seq(UserId)
    BY DEF OpenStream
  <1>4. <<u>> \o d.users \in Seq(UserId)
    BY <1>3
  <1>5. Without(d.users, {i \in DOMAIN d.users : d.users[i] = u}) \in Seq(UserId)
    BY <1>3, WithoutKeeps
  <1>6. AddUser(d, u) \in {d, [d EXCEPT !.error = TRUE], [d EXCEPT !.users = <<u>> \o d.users]}
    BY DEF AddUser
  <1>7. AddUser(d, u) \in OpenStream /\ AddUser(d, u).sock = d.sock
    BY <1>1, <1>2, <1>4, <1>6
  <1>8. FreeUser(d, u) \in OpenStream /\ FreeUser(d, u).sock = d.sock
    BY <1>1, <1>5 DEF FreeUser
  <1> QED
    BY <1>7, <1>8

(* So does an error of a stream. *)
LEMMA StreamMarked ==
    ASSUME NEW d \in OpenStream
    PROVE  \E m \in OpenStream : m = [d EXCEPT !.error = TRUE] /\ m.sock = d.sock
  <1>1. [d EXCEPT !.error = TRUE] \in OpenStream /\ [d EXCEPT !.error = TRUE].sock = d.sock
    BY DEF OpenStream
  <1> QED
    BY <1>1, Zenon

(* A stream that keeps its socket keeps it alone. *)
LEMMA StreamChanged ==
    ASSUME NEW P, NEW D, NEW T, NEW O, NEW A, OwnedOnce(P, D, T, O, A),
           NEW i \in DOMAIN D, NEW d \in OpenStream, d.sock = D[i].sock
    PROVE  OwnedOnce(P, [D EXCEPT ![i] = d], T, O, A)
  <1>1. P \in Seq(Pending) /\ D \in Seq(OpenStream)
    BY DEF OwnedOnce
  <1>2. PICK D2 : D2 = [D EXCEPT ![i] = d]
    OBVIOUS
  <1>3. D2 \in Seq(OpenStream)
    BY <1>1, <1>2, ExceptSeq, LenProperties
  <1>4. SameSockets(D, D2) /\ SameSockets(P, P)
    BY <1>2 DEF SameSockets
  <1> QED
    BY <1>1, <1>2, <1>3, <1>4, StillOwned

(* Each open socket is in the list of pending connections, in a stream or  *)
(* with a client behind qizmo: in one of them, once; and a closed one in   *)
(* none (sv_demo_qtv.c, sv_demo.c 167-195, net.c 490-522).                 *)
THEOREM OneOwnerEach ==
    QtvSpec => []OneOwner
  <1>1. QtvInit => StreamsInv
    BY EmptySeq DEF QtvInit, StreamsInv, OwnedOnce, Once, Owns
  <1>2. StreamsInv /\ [QtvNext]_qtv => StreamsInv'
    <2> SUFFICES ASSUME StreamsInv, [QtvNext]_qtv PROVE StreamsInv'
      OBVIOUS
    <2> DEFINE Now == OwnedOnce(pending, dest, tcpstreams, open, seen)
    <2>0. Now
      BY DEF StreamsInv
    <2>a. pending \in Seq(Pending) /\ dest \in Seq(OpenStream)
      BY <2>0 DEF OwnedOnce
    <2>b. /\ AllMarked(pending) \in Seq(Pending) /\ SameSockets(pending, AllMarked(pending))
          /\ AllMarked(dest) \in Seq(OpenStream) /\ SameSockets(dest, AllMarked(dest))
      BY <2>a, MarkedPending, MarkedStreams
    <2>c. SameSockets(pending, pending) /\ SameSockets(dest, dest)
      BY DEF SameSockets
    <2>1. CASE PortChanges \/ PollClosed
      <3>1. /\ pending' = AllMarked(pending) /\ dest' = AllMarked(dest)
            /\ tcpstreams' = tcpstreams /\ open' = open /\ seen' = seen
        BY <2>1 DEF PortChanges, PollClosed
      <3>2. OwnedOnce(AllMarked(pending), AllMarked(dest), tcpstreams, open, seen)
        BY <2>0, <2>b, StillOwned
      <3> QED
        BY <3>1, <3>2 DEF StreamsInv
    <2>2. CASE Poll
      <3>1. PICK s \in Sock \ seen :
               /\ seen' = seen \union {s}
               /\ dest' = dest /\ tcpstreams' = tcpstreams
               /\ \/ pending' = pending /\ open' = open
                  \/ /\ open' = open \union {s}
                     /\ pending' = <<[sock |-> s, error |-> FALSE, hasauthed |-> FALSE,
                                      must_be_qizmo |-> Full(0), io_time |-> 0,
                                      sent |-> 0]>> \o pending
        BY <2>2 DEF Poll
      <3>2. CASE pending' = pending /\ open' = open
        <4>1. OwnedOnce(pending, dest, tcpstreams, open, seen \union {s})
          BY <2>0 DEF OwnedOnce
        <4> QED
          BY <4>1, <3>1, <3>2 DEF StreamsInv
      <3>3. ASSUME NEW e, e = [sock |-> s, error |-> FALSE, hasauthed |-> FALSE,
                               must_be_qizmo |-> Full(0), io_time |-> 0, sent |-> 0],
                   pending' = <<e>> \o pending, open' = open \union {s}
            PROVE  StreamsInv'
        <4>1. e \in Pending /\ e.sock = s
          BY <3>3, SockAssumption DEF Pending, Full
        <4>2. ~Owns(pending, s) /\ ~Owns(dest, s) /\ s \notin tcpstreams /\ s \notin open
          BY <2>0 DEF OwnedOnce
        <4>3. PICK q : q = <<e>> \o pending
          OBVIOUS
        <4>4. /\ q \in Seq(Pending) /\ Once(q)
              /\ \A x : Owns(q, x) <=> Owns(pending, x) \/ s = x
          BY <2>0, <2>a, <4>1, <4>2, <4>3, Prepended DEF OwnedOnce
        <4>5. OwnedOnce(q, dest, tcpstreams, open \union {s}, seen \union {s})
          BY <2>0, <4>2, <4>4 DEF OwnedOnce
        <4> QED
          BY <4>3, <4>5, <3>1, <3>3 DEF StreamsInv
      <3> QED
        BY <3>1, <3>2, <3>3
    <2>3. CASE RunPendingConnections
      <3>1. PICK left : left = Without(TimedOut(pending), Swept(TimedOut(pending)))
        OBVIOUS
      <3>2. PICK L : L = Later(left)
        OBVIOUS
      <3>3. PICK O : O = open \ (SocketsOf(pending) \ SocketsOf(left))
        OBVIOUS
      <3>4. open' = O /\ seen' = seen /\ (NoneHeard(L) \/ OneHeard(L))
        BY <2>3, <3>1, <3>2, <3>3 DEF RunPendingConnections, SilentFrame, PendingFrame
      <3>5. OwnedOnce(L, dest, tcpstreams, O, seen)
        BY <2>0, <3>1, <3>2, <3>3, SweptOwned
      <3>6. CASE NoneHeard(L)
        BY <3>4, <3>5, <3>6 DEF NoneHeard, StreamsInv
      <3>7. CASE OneHeard(L)
        <4>1. PICK h \in DOMAIN L, in \in Input :
                 /\ pending' = [L EXCEPT ![h] = After(L[h], Answer(L[h], dest, in))]
                 /\ dest' = IF Answer(L[h], dest, in) = "a stream"
                            THEN <<NewStream(L[h], in.header.name)>> \o dest ELSE dest
                 /\ tcpstreams' = IF Answer(L[h], dest, in) = "a qizmo"
                                  THEN tcpstreams \union {L[h].sock} ELSE tcpstreams
          BY <3>7 DEF OneHeard
        <4>2. PICK answer : answer = Answer(L[h], dest, in)
          OBVIOUS
        <4>3. OwnedOnce([L EXCEPT ![h] = After(L[h], answer)], dest', tcpstreams', O, seen)
          BY <4>1, <4>2, <3>5, AnswerOwned
        <4> QED
          BY <4>1, <4>2, <4>3, <3>4 DEF StreamsInv
      <3> QED
        BY <3>4, <3>6, <3>7
    <2>4. CASE ReadInput
      <3>1. PICK i \in DOMAIN dest :
               \/ \E u \in UserId : dest' = [dest EXCEPT ![i] = AddUser(dest[i], u)]
               \/ \E u \in UserId : dest' = [dest EXCEPT ![i] = FreeUser(dest[i], u)]
               \/ dest' = [dest EXCEPT ![i].error = TRUE]
        BY <2>4 DEF ReadInput
      <3>2. dest[i] \in OpenStream
        BY <2>a, ElementOfSeq, LenProperties
      <3>3. PICK d \in OpenStream : d.sock = dest[i].sock /\ dest' = [dest EXCEPT ![i] = d]
        <4>1. CASE \E u \in UserId : dest' = [dest EXCEPT ![i] = AddUser(dest[i], u)]
          BY <4>1, <3>2, UserChanged
        <4>2. CASE \E u \in UserId : dest' = [dest EXCEPT ![i] = FreeUser(dest[i], u)]
          BY <4>2, <3>2, UserChanged
        <4>3. CASE dest' = [dest EXCEPT ![i].error = TRUE]
          <5>1. PICK d \in OpenStream : d = [dest[i] EXCEPT !.error = TRUE] /\ d.sock = dest[i].sock
            BY <3>2, StreamMarked
          <5> QED
            BY <5>1, <4>3
        <4> QED
          BY <3>1, <4>1, <4>2, <4>3
      <3>4. OwnedOnce(pending, [dest EXCEPT ![i] = d], tcpstreams, open, seen)
        BY <2>0, <3>3, StreamChanged
      <3> QED
        BY <3>3, <3>4, <2>4 DEF ReadInput, StreamsInv
    <2>5. CASE Qtv_Close_f
      <3>1. CASE dest' = AllMarked(dest)
        <4>1. OwnedOnce(pending, AllMarked(dest), tcpstreams, open, seen)
          BY <2>0, <2>a, <2>b, <2>c, StillOwned
        <4> QED
          BY <4>1, <3>1, <2>5 DEF Qtv_Close_f, StreamsInv
      <3>2. ASSUME NEW i \in DOMAIN dest, dest' = [dest EXCEPT ![i].error = TRUE]
            PROVE  StreamsInv'
        <4>1. dest[i] \in OpenStream
          BY <2>a, ElementOfSeq, LenProperties
        <4>2. PICK d \in OpenStream : d = [dest[i] EXCEPT !.error = TRUE] /\ d.sock = dest[i].sock
          BY <4>1, StreamMarked
        <4>3. OwnedOnce(pending, [dest EXCEPT ![i] = d], tcpstreams, open, seen)
          BY <2>0, <4>2, StreamChanged
        <4>4. dest' = [dest EXCEPT ![i] = d]
          BY <3>2, <4>2
        <4> QED
          BY <4>3, <4>4, <2>5 DEF Qtv_Close_f, StreamsInv
      <3> QED
        BY <2>5, <3>1, <3>2 DEF Qtv_Close_f
    <2>6. CASE FlushDests \/ StopAll
      <3>1. PICK gone \in SUBSET DOMAIN dest : CloseDests(gone)
        BY <2>6 DEF FlushDests, StopAll
      <3>2. OwnedOnce(pending, Without(dest, gone), tcpstreams,
                      open \ {dest[i].sock : i \in gone}, seen)
        BY <2>0, <3>1, FlushedOwned
      <3> QED
        BY <3>1, <3>2 DEF CloseDests, StreamsInv
    <2>7. CASE QizmoEnds
      <3>1. PICK s \in tcpstreams : tcpstreams' = tcpstreams \ {s} /\ open' = open \ {s}
        BY <2>7 DEF QizmoEnds
      <3>2. OwnedOnce(pending, dest, tcpstreams \ {s}, open \ {s}, seen)
        BY <2>0 DEF OwnedOnce
      <3> QED
        BY <3>1, <3>2, <2>7 DEF QizmoEnds, StreamsInv
    <2>8. CASE UNCHANGED qtv
      BY <2>8 DEF qtv, StreamsInv
    <2> QED
      BY <2>1, <2>2, <2>3, <2>4, <2>5, <2>6, <2>7, <2>8 DEF QtvNext
  <1>3. StreamsInv => OneOwner
    <2> SUFFICES ASSUME StreamsInv, NEW s \in Sock
                 PROVE  Cardinality({i \in DOMAIN pending : pending[i].sock = s})
                        + Cardinality({i \in DOMAIN dest : dest[i].sock = s})
                        + (IF s \in tcpstreams THEN 1 ELSE 0)
                        = IF s \in open THEN 1 ELSE 0
      BY DEF OneOwner
    <2>1. s # Closed
      BY SockAssumption
    <2>2. Cardinality({i \in DOMAIN pending : pending[i].sock = s})
            = IF Owns(pending, s) THEN 1 ELSE 0
      BY <2>1, OwnsOne DEF StreamsInv, OwnedOnce
    <2>3. Cardinality({i \in DOMAIN dest : dest[i].sock = s})
            = IF Owns(dest, s) THEN 1 ELSE 0
      BY <2>1, OwnsOne DEF StreamsInv, OwnedOnce
    <2>4. /\ s \in open <=> Owns(pending, s) \/ Owns(dest, s) \/ s \in tcpstreams
          /\ ~(Owns(pending, s) /\ Owns(dest, s))
          /\ ~(Owns(pending, s) /\ s \in tcpstreams)
          /\ ~(Owns(dest, s) /\ s \in tcpstreams)
      BY DEF StreamsInv, OwnedOnce
    <2> QED
      BY <2>2, <2>3, <2>4
  <1> QED
    BY <1>1, <1>2, <1>3, PTL DEF QtvSpec

-----------------------------------------------------------------------------
(***************************************************************************)
(* The packets of a client behind a qizmo proxy (TcpTunnel).               *)
(*                                                                         *)
(* As long as the connection is not dropped, what the buffer holds and     *)
(* what TCP has still to deliver are, one after the other, exactly what    *)
(* the proxy says from the packet on that comes after those handed over.   *)
(* FramesWhole says only what was handed over already, and is not kept by  *)
(* itself: a buffer that begins in the middle of a packet would break it.  *)
(***************************************************************************)
Unit == Nat \X Nat
Final == Len(Lengths)

(* One step of the recursion of From. *)
SaidBy(f, p) == IF p > Len(Lengths) THEN <<>> ELSE Units(p, Lengths[p]) \o f[p + 1]

(* a begins with c, and what is left of it goes with b to d. *)
CutAt(a, b, c, d) ==
    /\ SubSeq(a, 1, Len(c)) = c
    /\ SubSeq(a, Len(c) + 1, Len(a)) \in Seq(Unit)
    /\ Len(SubSeq(a, Len(c) + 1, Len(a))) = Len(a) - Len(c)
    /\ SubSeq(a, Len(c) + 1, Len(a)) \o b = d

(* Of two ways to cut one sequence, the longer first part begins with the *)
(* shorter.                                                               *)
LEMMA Cut ==
    \A a, b, c, d \in Seq(Unit) :
        a \o b = c \o d /\ Len(c) <= Len(a) => CutAt(a, b, c, d)
  <1> SUFFICES ASSUME NEW a \in Seq(Unit), NEW b \in Seq(Unit),
                      NEW c \in Seq(Unit), NEW d \in Seq(Unit),
                      a \o b = c \o d, Len(c) <= Len(a)
               PROVE  CutAt(a, b, c, d)
    OBVIOUS
  <1>1. /\ Len(a) \in Nat /\ Len(b) \in Nat /\ Len(c) \in Nat /\ Len(d) \in Nat
        /\ \A i \in 1..Len(a) : a[i] \in Unit
    BY LenProperties, ElementOfSeq
  <1>2. Len(a) + Len(b) = Len(c) + Len(d)
    BY ConcatProperties
  <1>3. \A i \in 1..Len(c) : a[i] = c[i]
    <2> TAKE i \in 1..Len(c)
    <2>1. (a \o b)[i] = a[i] /\ (c \o d)[i] = c[i]
      BY <1>1, <1>2, ConcatProperties
    <2> QED
      BY <2>1
  <1>4. PICK r : r = SubSeq(a, Len(c) + 1, Len(a))
    OBVIOUS
  <1>5. PICK t : t = SubSeq(a, 1, Len(c))
    OBVIOUS
  <1>6. t \in Seq(Unit) /\ Len(t) = Len(c) /\ \A i \in 1..Len(c) : t[i] = a[i]
    BY <1>1, <1>5, SubSeqProperties
  <1>7. t = c
    BY <1>1, <1>3, <1>6, SeqEqual
  <1>8. r \in Seq(Unit) /\ Len(r) = Len(a) - Len(c) /\ \A i \in 1..Len(r) : r[i] = a[Len(c) + i]
    BY <1>1, <1>4, SubSeqProperties
  <1>9. r \o b = d
    <2>1. r \o b \in Seq(Unit) /\ Len(r \o b) = Len(d)
      BY <1>1, <1>2, <1>8, ConcatProperties
    <2>2. ASSUME NEW i \in 1..Len(d) PROVE (r \o b)[i] = d[i]
      <3>1. (c \o d)[Len(c) + i] = d[i]
        BY <1>1, ConcatProperties
      <3>2. CASE i <= Len(r)
        <4>1. (r \o b)[i] = a[Len(c) + i]
          BY <3>2, <1>1, <1>2, <1>8, ConcatProperties
        <4>2. (a \o b)[Len(c) + i] = a[Len(c) + i]
          BY <3>2, <1>1, <1>2, <1>8, ConcatProperties
        <4> QED
          BY <4>1, <4>2, <3>1
      <3>3. CASE i > Len(r)
        <4>1. (r \o b)[i] = b[i - Len(r)]
          BY <3>3, <1>1, <1>2, <1>8, ConcatProperties
        <4>2. (a \o b)[Len(c) + i] = b[Len(c) + i - Len(a)]
          BY <3>3, <1>1, <1>2, <1>8, ConcatProperties
        <4>3. i - Len(r) = Len(c) + i - Len(a)
          BY <1>1, <1>8
        <4> QED
          BY <4>1, <4>2, <4>3, <3>1
      <3> QED
        BY <3>2, <3>3, <1>1, <1>8
    <2> QED
      BY <2>1, <2>2, SeqEqual
  <1> QED
    BY <1>4, <1>5, <1>7, <1>8, <1>9 DEF CutAt

(* The units of one packet. *)
LEMMA UnitsAre ==
    ASSUME NEW p \in Nat, NEW n \in Nat
    PROVE  /\ Units(p, n) \in Seq(Unit) /\ Len(Units(p, n)) = n + 1
           /\ Units(p, n)[1] = <<p, 0>>
  <1>1. \A i \in 1..n + 1 : <<p, i - 1>> \in Unit
    BY DEF Unit
  <1> QED
    BY <1>1, IsASeq DEF Units

(* From is the function that says of itself what From does. *)
LEMMA SaidFrom ==
    \A p \in 1..Final + 1 : From[p] = SaidBy(From, p)
  <1>l. Final \in Nat
    BY TcpAssumption, LenProperties DEF Final
  <1> DEFINE Def(f, k) == f = [p \in (Final + 1 - k)..Final + 1 |-> SaidBy(f, p)]
             Bad == {k \in 0..Final : ~\E f : Def(f, k)}
  <1>1. Bad = {}
    <2> SUFFICES ASSUME Bad # {} PROVE FALSE
      OBVIOUS
    <2>1. PICK k \in Bad : \A j \in Bad : k <= j
      <3>1. Bad \in SUBSET Nat
        OBVIOUS
      <3> HIDE DEF Bad
      <3> QED
        BY <3>1, LeastNumber
    <2>2. k \in 0..Final /\ ~\E f : Def(f, k)
      OBVIOUS
    <2>3. CASE k = 0
      <3> DEFINE g == [p \in (Final + 1 - k)..Final + 1 |-> <<>>]
      <3>1. \A p \in (Final + 1 - k)..Final + 1 : SaidBy(g, p) = <<>>
        BY <2>3, <1>l DEF SaidBy, Final
      <3>2. Def(g, k)
        BY <3>1
      <3> QED
        BY <3>2, <2>2
    <2>4. CASE k # 0
      <3>1. k - 1 \in 0..Final /\ k - 1 \notin Bad
        <4> HIDE DEF Bad
        <4> QED
          BY <2>1, <2>2, <2>4, <1>l
      <3>2. PICK f : Def(f, k - 1)
        BY <3>1
      <3> DEFINE first == Final + 1 - k
                 g == [p \in first..Final + 1 |-> IF p = first THEN SaidBy(f, p) ELSE f[p]]
      <3>3. \A p \in first..Final + 1 : g[p] = SaidBy(g, p)
        <4> TAKE p \in first..Final + 1
        <4>1. p <= Final => p + 1 \in first + 1..Final + 1 /\ g[p + 1] = f[p + 1]
          BY <1>l, <2>2
        <4>2. SaidBy(g, p) = SaidBy(f, p)
          BY <4>1, <1>l, <2>2 DEF SaidBy, Final
        <4>3. p # first => f[p] = SaidBy(f, p)
          <5>1. \A q \in (Final + 1 - (k - 1))..Final + 1 : f[q] = SaidBy(f, q)
            BY <3>2, Zenon
          <5>2. p # first => p \in (Final + 1 - (k - 1))..Final + 1
            BY <1>l, <2>2
          <5> QED
            BY <5>1, <5>2
        <4> QED
          BY <4>2, <4>3
      <3>4. Def(g, k)
        BY <3>3
      <3> QED
        BY <3>4, <2>2
    <2> QED
      BY <2>3, <2>4
  <1>2. \E f : f = [p \in 1..Final + 1 |-> SaidBy(f, p)]
    <2>1. Final \in 0..Final /\ Final + 1 - Final = 1
      BY <1>l
    <2>2. \E f : Def(f, Final)
      BY <1>1, <2>1
    <2> QED
      BY <2>1, <2>2
  <1> DEFINE Whole(f) == f = [p \in 1..Len(Lengths) + 1 |->
                 IF p > Len(Lengths) THEN <<>> ELSE Units(p, Lengths[p]) \o f[p + 1]]
             F == CHOOSE f : Whole(f)
  <1>3. From = F
    BY DEF From
  <1>4. \E f : Whole(f)
    BY <1>2 DEF SaidBy, Final
  <1>5. Whole(F)
    <2> HIDE DEF Whole
    <2> QED
      BY <1>4, Zenon
  <1>6. F = [p \in 1..Final + 1 |-> SaidBy(F, p)]
    BY <1>5, Zenon DEF SaidBy, Final
  <1> HIDE DEF F
  <1> QED
    BY <1>3, <1>6

(* What the proxy says is a sequence of units, whatever packet it begins with. *)
LEMMA FromTypes ==
    \A p \in 1..Final + 1 : From[p] \in Seq(Unit)
  <1>l. Final \in Nat /\ \A p \in 1..Final : Lengths[p] \in Nat
    BY TcpAssumption, LenProperties, ElementOfSeq DEF Final
  <1> DEFINE Bad == {k \in 0..Final : From[Final + 1 - k] \notin Seq(Unit)}
  <1>1. Bad = {}
    <2> SUFFICES ASSUME Bad # {} PROVE FALSE
      OBVIOUS
    <2>1. PICK k \in Bad : \A j \in Bad : k <= j
      <3>1. Bad \in SUBSET Nat
        OBVIOUS
      <3> HIDE DEF Bad
      <3> QED
        BY <3>1, LeastNumber
    <2>2. k \in 0..Final /\ From[Final + 1 - k] \notin Seq(Unit)
      OBVIOUS
    <2>3. PICK p \in 1..Final + 1 : p = Final + 1 - k
      BY <1>l, <2>2
    <2>4. From[p] = IF p > Final THEN <<>> ELSE Units(p, Lengths[p]) \o From[p + 1]
      BY SaidFrom DEF SaidBy, Final
    <2>5. CASE p > Final
      BY <2>2, <2>3, <2>4, <2>5, EmptySeq
    <2>6. CASE p <= Final
      <3>1. k - 1 \in 0..Final /\ k - 1 \notin Bad
        <4> HIDE DEF Bad
        <4> QED
          BY <2>1, <2>2, <2>3, <2>6, <1>l
      <3>2. From[Final + 1 - (k - 1)] \in Seq(Unit)
        BY <3>1
      <3>3. Final + 1 - (k - 1) = p + 1
        BY <2>3, <2>2, <1>l
      <3>4. Units(p, Lengths[p]) \in Seq(Unit)
        <4>1. p \in Nat /\ Lengths[p] \in Nat
          BY <1>l, <2>6
        <4> QED
          BY <4>1, UnitsAre
      <3>5. From[p + 1] \in Seq(Unit)
        BY <3>2, <3>3
      <3>6. Units(p, Lengths[p]) \o From[p + 1] \in Seq(Unit)
        BY <3>4, <3>5, ConcatProperties
      <3> QED
        BY <2>2, <2>3, <2>4, <2>6, <3>6, <1>l
    <2> QED
      BY <2>5, <2>6, <1>l
  <1>2. ASSUME NEW p \in 1..Final + 1 PROVE From[p] \in Seq(Unit)
    <2>1. PICK k \in 0..Final : Final + 1 - k = p
      <3>1. Final + 1 - p \in 0..Final /\ Final + 1 - (Final + 1 - p) = p
        BY <1>l
      <3> QED
        BY <3>1
    <2>2. k \notin Bad
      BY <1>1
    <2> QED
      BY <2>1, <2>2
  <1> QED
    BY <1>2

(* Parts of the invariant. *)
StreamType ==
    [in : Seq(Unit), out : Seq(Unit), waiting : BOOLEAN, drop : BOOLEAN, open : BOOLEAN]

HandedWhole ==
    /\ received \in Seq(Seq(Unit)) /\ Len(received) <= Final
    /\ \A i \in 1..Len(received) : received[i] = Units(i, Lengths[i])

StillToCome(in, w) ==
    in \o w = IF stream.waiting THEN <<Greeting>> \o From[1] ELSE From[Len(received) + 1]

TunnelInv ==
    /\ wire \in Seq(Unit) /\ stream \in StreamType /\ replied \in Nat
    /\ returned \in Seq(Unit) /\ accepted \in Seq(Unit)
    /\ HandedWhole
    /\ ~stream.drop => StillToCome(stream.in, wire)
    /\ stream.waiting => received = <<>>
    /\ returned \o stream.out = accepted

(* Once the greeting is off. *)
LEMMA Greeted ==
    ASSUME HandedWhole, stream.waiting => received = <<>>,
           NEW in \in Seq(Unit), in # <<>>, NEW w \in Seq(Unit), StillToCome(in, w),
           NEW rest, rest = IF stream.waiting THEN Tail(in) ELSE in
    PROVE  rest \in Seq(Unit) /\ rest \o w = From[Len(received) + 1]
  <1>1. CASE stream.waiting
    <2>1. <<Greeting>> \in Seq(Unit) /\ Len(<<Greeting>>) = 1
      BY DEF Greeting, Unit
    <2>2. From[1] \in Seq(Unit)
      <3>1. Final \in Nat
        BY TcpAssumption, LenProperties DEF Final
      <3>2. 1 \in 1..Final + 1
        BY <3>1
      <3> QED
        BY <3>2, FromTypes
    <2>3. in \o w = <<Greeting>> \o From[1]
      BY <1>1 DEF StillToCome
    <2>4. Len(in) \in Nat /\ 1 <= Len(in)
      BY EmptySeq
    <2>5. PICK g \in Seq(Unit) : g = <<Greeting>> /\ Len(g) = 1
      BY <2>1
    <2>a. PICK d \in Seq(Unit) : d = From[1]
      BY <2>2
    <2>b. in \o w = g \o d /\ Len(g) <= Len(in)
      BY <2>3, <2>4, <2>5, <2>a
    <2>c. /\ SubSeq(in, Len(g) + 1, Len(in)) \in Seq(Unit)
          /\ SubSeq(in, Len(g) + 1, Len(in)) \o w = d
      <3>1. CutAt(in, w, g, d)
        BY <2>b, Cut
      <3> QED
        BY <3>1 DEF CutAt
    <2>d. Len(g) + 1 = 2
      BY <2>5
    <2>6. rest = SubSeq(in, 2, Len(in))
      BY <1>1, TailIsSubSeq
    <2>7. Len(received) + 1 = 1
      <3>1. Len(received) = 0
        BY <1>1, EmptySeq
      <3> QED
        BY <3>1
    <2> QED
      BY <2>a, <2>c, <2>d, <2>6, <2>7, Zenon
  <1>2. CASE ~stream.waiting
    BY <1>2 DEF StillToCome
  <1> QED
    BY <1>1, <1>2

(* What is next is a packet that the proxy has sent. *)
LEMMA PacketNext ==
    ASSUME NEW k \in Nat, k <= Final,
           NEW rest \in Seq(Unit), rest # <<>>, NEW w \in Seq(Unit), rest \o w = From[k + 1]
    PROVE  /\ k + 1 <= Final /\ rest[1][1] = k + 1 /\ Lengths[k + 1] \in Nat
           /\ Complete(Lengths[k + 1], rest) =>
                 /\ SubSeq(rest, 1, Lengths[k + 1] + 1) = Units(k + 1, Lengths[k + 1])
                 /\ SubSeq(rest, Lengths[k + 1] + 2, Len(rest)) \in Seq(Unit)
                 /\ Len(SubSeq(rest, Lengths[k + 1] + 2, Len(rest)))
                       = Len(rest) - (Lengths[k + 1] + 1)
                 /\ SubSeq(rest, Lengths[k + 1] + 2, Len(rest)) \o w = From[k + 2]
  <1>l. Final \in Nat /\ \A p \in 1..Final : Lengths[p] \in Nat
    BY TcpAssumption, LenProperties, ElementOfSeq DEF Final
  <1>1. /\ Len(rest) \in Nat /\ 1 <= Len(rest) /\ Len(w) \in Nat
        /\ rest \o w \in Seq(Unit) /\ Len(rest \o w) = Len(rest) + Len(w)
        /\ (rest \o w)[1] = rest[1]
    <2>1. Len(rest) \in Nat /\ Len(w) \in Nat
      BY LenProperties
    <2>2. 1 <= Len(rest)
      BY <2>1, EmptySeq
    <2>3. /\ rest \o w \in Seq(Unit) /\ Len(rest \o w) = Len(rest) + Len(w)
          /\ \A i \in 1..Len(rest) + Len(w) : i <= Len(rest) => (rest \o w)[i] = rest[i]
      BY <2>1, ConcatProperties
    <2> QED
      BY <2>1, <2>2, <2>3
  <1>2. From[k + 1] = IF k + 1 > Final THEN <<>>
                      ELSE Units(k + 1, Lengths[k + 1]) \o From[k + 2]
    <2>1. k + 1 \in 1..Final + 1 /\ k + 1 + 1 = k + 2
      BY <1>l
    <2> QED
      BY <2>1, SaidFrom DEF SaidBy, Final
  <1>3. k + 1 <= Final
    <2>1. From[k + 1] # <<>>
      BY <1>1, EmptySeq
    <2> QED
      BY <1>2, <2>1, <1>l
  <1>4. PICK n \in Nat : n = Lengths[k + 1]
    BY <1>3, <1>l
  <1>5. PICK u \in Seq(Unit) : u = Units(k + 1, n) /\ Len(u) = n + 1 /\ u[1] = <<k + 1, 0>>
    <2>1. PICK p \in Nat : p = k + 1
      OBVIOUS
    <2>2. Units(p, n) \in Seq(Unit) /\ Len(Units(p, n)) = n + 1 /\ Units(p, n)[1] = <<p, 0>>
      BY <1>4, UnitsAre
    <2> QED
      BY <2>1, <2>2
  <1>6. PICK d \in Seq(Unit) : d = From[k + 2]
    <2>1. k + 2 \in 1..Final + 1
      BY <1>3, <1>l
    <2> QED
      BY <2>1, FromTypes
  <1>7. rest \o w = u \o d
    <2>1. ~(k + 1 > Final)
      BY <1>3, <1>l
    <2>2. From[k + 1] = Units(k + 1, Lengths[k + 1]) \o From[k + 2]
      BY <1>2, <2>1
    <2> QED
      BY <2>2, <1>4, <1>5, <1>6, Zenon
  <1>8. (u \o d)[1] = u[1]
    BY <1>5, LenProperties, ConcatProperties
  <1>9. rest[1][1] = k + 1
    <2>1. rest[1] = <<k + 1, 0>>
      BY <1>1, <1>5, <1>7, <1>8
    <2> QED
      BY <2>1
  <1>10. ASSUME n + 1 <= Len(rest)
         PROVE  /\ SubSeq(rest, 1, n + 1) = u
                /\ SubSeq(rest, n + 2, Len(rest)) \in Seq(Unit)
                /\ Len(SubSeq(rest, n + 2, Len(rest))) = Len(rest) - (n + 1)
                /\ SubSeq(rest, n + 2, Len(rest)) \o w = d
    <2>1. /\ SubSeq(rest, 1, Len(u)) = u
          /\ SubSeq(rest, Len(u) + 1, Len(rest)) \in Seq(Unit)
          /\ Len(SubSeq(rest, Len(u) + 1, Len(rest))) = Len(rest) - Len(u)
          /\ SubSeq(rest, Len(u) + 1, Len(rest)) \o w = d
      <3>1. Len(u) <= Len(rest)
        BY <1>5, <1>10
      <3>2. CutAt(rest, w, u, d)
        BY <3>1, <1>7, Cut
      <3> QED
        BY <3>2 DEF CutAt
    <2>2. Len(u) = n + 1 /\ Len(u) + 1 = n + 2
      BY <1>5
    <2> QED
      BY <2>1, <2>2
  <1> QED
    BY <1>3, <1>4, <1>5, <1>6, <1>9, <1>10 DEF Complete

(* A sequence is what TCP takes of it and what it leaves. *)
Parted(s, n) ==
    /\ SubSeq(s, 1, n) \in Seq(Unit) /\ SubSeq(s, n + 1, Len(s)) \in Seq(Unit)
    /\ SubSeq(s, 1, n) \o SubSeq(s, n + 1, Len(s)) = s

(* TCP may take any part of what there is. *)
LEMMA Parts ==
    \A s \in Seq(Unit) : \A n \in 0..Len(s) : Parted(s, n)
  <1> SUFFICES ASSUME NEW s \in Seq(Unit), NEW n \in 0..Len(s)
               PROVE  Parted(s, n)
    OBVIOUS
  <1>1. Len(s) \in Nat /\ \A i \in 1..Len(s) : s[i] \in Unit
    BY LenProperties, ElementOfSeq
  <1>2. SubSeq(s, 1, n) \in Seq(Unit)
    BY <1>1, SubSeqProperties
  <1>3. SubSeq(s, n + 1, Len(s)) \in Seq(Unit)
    BY <1>1, SubSeqProperties
  <1>4. SubSeq(s, 1, n) \o SubSeq(s, n + 1, Len(s)) = SubSeq(s, 1, Len(s))
    <2>1. PICK m \in 1..Len(s) + 1 : m = 1
      BY <1>1
    <2>2. n \in m - 1..Len(s) /\ Len(s) \in n..Len(s)
      BY <1>1, <2>1
    <2>3. SubSeq(s, m, n) \o SubSeq(s, n + 1, Len(s)) = SubSeq(s, m, Len(s))
      BY <2>2, ConcatAdjacentSubSeq
    <2> QED
      BY <2>1, <2>3, Zenon
  <1>5. SubSeq(s, 1, Len(s)) = s
    BY SubSeqFull
  <1> QED
    BY <1>2, <1>3, <1>4, <1>5 DEF Parted

(* s, t and u one after another, whichever two are joined first. *)
Regrouped(s, t, u) ==
    /\ s \o t \in Seq(Unit) /\ t \o u \in Seq(Unit)
    /\ (s \o t) \o u = s \o (t \o u)

(* It makes no difference which two are joined first. *)
LEMMA Joined ==
    \A s, t, u \in Seq(Unit) : Regrouped(s, t, u)
  BY ConcatProperties, ConcatAssociative DEF Regrouped

(* The history of GetPacket when recv has left in in the buffer. *)
GotBy(in, st) ==
    IF st.drop \/ in = <<>> \/ Handed(in, st.in) = <<>>
    THEN received ELSE Append(received, Handed(in, st.in))

(* The invariant for a connection st, packets got and a rest w to come. *)
WellTaken(st, got, w) ==
    /\ st \in StreamType /\ st.out = stream.out
    /\ got \in Seq(Seq(Unit)) /\ Len(got) <= Final
    /\ \A i \in 1..Len(got) : got[i] = Units(i, Lengths[i])
    /\ ~st.drop => st.in \o w = IF st.waiting THEN <<Greeting>> \o From[1]
                                ELSE From[Len(got) + 1]
    /\ st.waiting => got = <<>>

(* NET_GetTCPPacket_SV hands over the next packet whole or nothing, and     *)
(* what it leaves in the buffer is followed by what has still to come.     *)
LEMMA Unpacked ==
    ASSUME stream \in StreamType, ~stream.drop, HandedWhole,
           stream.waiting => received = <<>>,
           NEW in \in Seq(Unit), NEW w \in Seq(Unit), StillToCome(in, w),
           NEW st, st = Unpack(in), NEW got, got = GotBy(in, st)
    PROVE  WellTaken(st, got, w)
  <1> USE DEF WellTaken
  <1> DEFINE rest == IF stream.waiting THEN Tail(in) ELSE in
             length == Lengths[rest[1][1]]
  <1>1. CASE in = <<>>
    <2>1. st = [stream EXCEPT !.in = in]
      BY <1>1 DEF Unpack
    <2>2. got = received
      BY <1>1 DEF GotBy
    <2> QED
      BY <2>1, <2>2 DEF StreamType, StillToCome, HandedWhole
  <1>2. CASE in # <<>> /\ st = [stream EXCEPT !.drop = TRUE]
    <2>1. got = received
      BY <1>2 DEF GotBy, StreamType
    <2> QED
      BY <1>2, <2>1 DEF StreamType, HandedWhole
  <1>3. CASE /\ in # <<>>
             /\ st = [stream EXCEPT !.waiting = FALSE,
                         !.in = IF rest # <<>> /\ Complete(length, rest)
                                THEN SubSeq(rest, length + 2, Len(rest)) ELSE rest]
    <2>1. PICK r \in Seq(Unit) : r = rest /\ r \o w = From[Len(received) + 1]
      BY <1>3, Greeted
    <2>2. PICK left : left = IF r # <<>> /\ Complete(length, r)
                             THEN SubSeq(r, length + 2, Len(r)) ELSE r
      OBVIOUS
    <2>3. /\ ~st.waiting /\ ~st.drop /\ st.in = left
          /\ st.out = stream.out /\ st.open = stream.open
          /\ left \in Seq(Unit) => st \in StreamType
      BY <1>3, <2>1, <2>2 DEF StreamType
    <2>4. Handed(in, st.in) = SubSeq(r, 1, Len(r) - Len(left))
      BY <2>1, <2>3 DEF Handed
    <2>5. Len(r) \in Nat /\ Len(received) \in Nat
      BY LenProperties DEF HandedWhole
    <2>6. CASE left = r
      <3>1. SubSeq(r, 1, Len(r) - Len(left)) = <<>>
        <4>1. Len(r) - Len(left) = 0
          BY <2>5, <2>6
        <4> QED
          BY <4>1, SubSeqEmpty
      <3>2. got = received
        BY <2>4, <3>1 DEF GotBy
      <3> QED
        BY <2>1, <2>3, <2>6, <3>2 DEF HandedWhole
    <2>7. CASE r # <<>> /\ Complete(length, r)
      <3>1. PICK k \in Nat : k = Len(received)
        BY <2>5
      <3>2. /\ k + 1 <= Final /\ r[1][1] = k + 1 /\ Lengths[k + 1] \in Nat
            /\ Complete(Lengths[k + 1], r) =>
                  /\ SubSeq(r, 1, Lengths[k + 1] + 1) = Units(k + 1, Lengths[k + 1])
                  /\ SubSeq(r, Lengths[k + 1] + 2, Len(r)) \in Seq(Unit)
                  /\ Len(SubSeq(r, Lengths[k + 1] + 2, Len(r)))
                        = Len(r) - (Lengths[k + 1] + 1)
                  /\ SubSeq(r, Lengths[k + 1] + 2, Len(r)) \o w = From[k + 2]
        <4>1. k <= Final
          BY <3>1 DEF HandedWhole
        <4>2. r \o w = From[k + 1]
          BY <2>1, <3>1
        <4> QED
          BY <4>1, <4>2, <2>7, PacketNext
      <3>3. length = Lengths[k + 1]
        BY <2>1, <3>2
      <3>4. PICK n \in Nat : n = Lengths[k + 1]
        BY <3>2
      <3>5. /\ SubSeq(r, 1, n + 1) = Units(k + 1, n)
            /\ left \in Seq(Unit) /\ Len(left) = Len(r) - (n + 1)
            /\ left \o w = From[k + 2]
        BY <2>2, <2>7, <3>2, <3>3, <3>4
      <3>6. Handed(in, st.in) = Units(k + 1, n)
        <4>1. Len(r) - Len(left) = n + 1
          BY <2>5, <3>5
        <4> QED
          BY <4>1, <2>4, <3>5
      <3>7. Units(k + 1, n) \in Seq(Unit) /\ Len(Units(k + 1, n)) = n + 1
        <4>1. k + 1 \in Nat
          OBVIOUS
        <4> QED
          BY <4>1, UnitsAre
      <3>8. PICK u \in Seq(Unit) : u = Units(k + 1, n) /\ u # <<>>
        <4>1. Units(k + 1, n) # <<>>
          BY <3>7, EmptySeq
        <4> QED
          BY <3>7, <4>1
      <3>9. got = Append(received, u)
        BY <1>3, <2>3, <3>6, <3>8 DEF GotBy
      <3>10. /\ got \in Seq(Seq(Unit)) /\ Len(got) = k + 1
             /\ \A i \in 1..k : got[i] = received[i]
             /\ got[k + 1] = u
        BY <3>1, <3>9, AppendProperties DEF HandedWhole
      <3>11. ASSUME NEW i \in 1..Len(got) PROVE got[i] = Units(i, Lengths[i])
        <4>1. CASE i = k + 1
          BY <4>1, <3>10, <3>8, <3>4
        <4>2. CASE i # k + 1
          <5>1. i \in 1..k
            BY <4>2, <3>10
          <5> QED
            BY <5>1, <3>1, <3>10 DEF HandedWhole
        <4> QED
          BY <4>1, <4>2
      <3>12. Len(got) + 1 = k + 2
        BY <3>10
      <3>13. st.in \o w = From[Len(got) + 1]
        BY <2>3, <3>5, <3>12
      <3> QED
        BY <2>3, <3>2, <3>5, <3>10, <3>11, <3>13
    <2> QED
      BY <2>2, <2>6, <2>7
  <1> QED
    <2>1. in = <<>> \/ st = [stream EXCEPT !.drop = TRUE]
            \/ st = [stream EXCEPT !.waiting = FALSE,
                         !.in = IF rest # <<>> /\ Complete(length, rest)
                                THEN SubSeq(rest, length + 2, Len(rest)) ELSE rest]
      BY Zenon DEF Unpack
    <2> HIDE DEF rest, length, WellTaken
    <2> QED
      BY <2>1, <1>1, <1>2, <1>3

(* The greeting has come, and any part of the rest with it. *)
LEMMA TunnelInit == TcpInit => TunnelInv
  <1> SUFFICES ASSUME TcpInit PROVE TunnelInv
    OBVIOUS
  <1>1. From[1] \in Seq(Unit)
    <2>1. Final \in Nat
      BY TcpAssumption, LenProperties DEF Final
    <2>2. 1 \in 1..Final + 1
      BY <2>1
    <2> QED
      BY <2>2, FromTypes
  <1>2. PICK all \in Seq(Unit) : all = <<Greeting>> \o From[1]
    <2>1. <<Greeting>> \in Seq(Unit)
      BY DEF Greeting, Unit
    <2>2. PICK g \in Seq(Unit), f \in Seq(Unit) : g = <<Greeting>> /\ f = From[1]
      BY <2>1, <1>1
    <2>3. g \o f \in Seq(Unit)
      BY ConcatProperties
    <2> QED
      BY <2>2, <2>3
  <1>3. PICK n \in 1..Len(all) :
            /\ wire = SubSeq(all, n + 1, Len(all))
            /\ stream = [in |-> SubSeq(all, 1, n), out |-> <<>>,
                         waiting |-> TRUE, drop |-> FALSE, open |-> TRUE]
            /\ received = <<>> /\ returned = <<>>
            /\ replied = 0 /\ accepted = <<>>
    BY <1>2, Zenon DEF TcpInit
  <1>4. Parted(all, n)
    <2>1. n \in 0..Len(all)
      BY <1>3, LenProperties
    <2> QED
      BY <2>1, Parts
  <1>5. /\ SubSeq(all, 1, n) \in Seq(Unit) /\ wire \in Seq(Unit)
        /\ SubSeq(all, 1, n) \o wire = <<Greeting>> \o From[1]
    BY <1>2, <1>3, <1>4 DEF Parted
  <1>6. PICK got \in Seq(Unit) : got = SubSeq(all, 1, n)
    BY <1>5
  <1>7. /\ stream \in StreamType /\ stream.waiting /\ stream.in = got
        /\ stream.out = <<>>
    <2>1. <<>> \in Seq(Unit)
      BY EmptySeq
    <2> QED
      BY <1>3, <1>6, <2>1 DEF StreamType
  <1>8. HandedWhole
    <2>1. Final \in Nat
      BY TcpAssumption, LenProperties DEF Final
    <2>2. received \in Seq(Seq(Unit)) /\ Len(received) = 0
      BY <1>3, EmptySeq
    <2> QED
      BY <2>1, <2>2 DEF HandedWhole
  <1>9. StillToCome(stream.in, wire)
    BY <1>5, <1>6, <1>7, Zenon DEF StillToCome
  <1>10. returned \o stream.out = accepted /\ returned \in Seq(Unit) /\ accepted \in Seq(Unit)
    BY <1>3, <1>7, EmptySeq, ConcatEmptySeq
  <1> QED
    BY <1>3, <1>5, <1>7, <1>8, <1>9, <1>10 DEF TunnelInv

(* recv brings any part of what there is; Unpacked says the rest. *)
LEMMA TunnelGet ==
    ASSUME TunnelInv, GetPacket
    PROVE  TunnelInv'
  <1> USE DEF TunnelInv
  <1>1. PICK n \in 0..Len(wire) :
            LET in == stream.in \o SubSeq(wire, 1, n)
            IN /\ stream' = Unpack(in)
               /\ wire' = SubSeq(wire, n + 1, Len(wire))
               /\ received' = GotBy(in, Unpack(in))
    BY Zenon DEF GetPacket, GotBy
  <1>2. Parted(wire, n)
    BY Parts
  <1>3. PICK a \in Seq(Unit), w \in Seq(Unit) :
            a = SubSeq(wire, 1, n) /\ w = SubSeq(wire, n + 1, Len(wire)) /\ a \o w = wire
    BY <1>2 DEF Parted
  <1>4. PICK i0 \in Seq(Unit) : i0 = stream.in
    BY DEF StreamType
  <1>5. PICK in \in Seq(Unit) : in = i0 \o a /\ in \o w = i0 \o wire
    <2>1. Regrouped(i0, a, w)
      BY Joined
    <2> QED
      BY <2>1, <1>3 DEF Regrouped
  <1>6. PICK st, got : st = Unpack(in) /\ got = GotBy(in, st)
    OBVIOUS
  <1>7. stream' = st /\ wire' = w /\ received' = got
    BY <1>1, <1>3, <1>4, <1>5, <1>6
  <1>8. ~stream.drop /\ StillToCome(in, w)
    BY <1>4, <1>5 DEF GetPacket, Alive, StillToCome
  <1>9. WellTaken(st, got, w)
    <2>1. /\ stream \in StreamType /\ HandedWhole
          /\ stream.waiting => received = <<>>
      OBVIOUS
    <2> HIDE DEF TunnelInv
    <2> QED
      BY <2>1, <1>6, <1>8, Unpacked
  <1>10. HandedWhole'
    BY <1>7, <1>9 DEF WellTaken, HandedWhole, Final
  <1>11. (~stream.drop => StillToCome(stream.in, wire))'
    BY <1>7, <1>9 DEF WellTaken, StillToCome
  <1>12. UNCHANGED <<returned, replied, accepted>>
    BY DEF GetPacket
  <1> QED
    BY <1>3, <1>7, <1>9, <1>10, <1>11, <1>12 DEF WellTaken, StreamType

(* A reply goes to the end of the buffer, and TCP takes from its front. *)
LEMMA TunnelSend ==
    ASSUME TunnelInv, SendPacket
    PROVE  TunnelInv'
  <1> USE DEF TunnelInv
  <1>1. PICK units : units = Units(replied', Replies[replied'])
    OBVIOUS
  <1>2. PICK o \in Seq(Unit) : o = stream.out
    BY DEF StreamType
  <1>3. replied' \in Nat /\ units \in Seq(Unit)
    <2>1. replied' = replied + 1 /\ replied < Len(Replies)
      BY DEF SendPacket
    <2>2. Len(Replies) \in Nat /\ \A i \in 1..Len(Replies) : Replies[i] \in Nat
      BY TcpAssumption, LenProperties, ElementOfSeq
    <2>3. replied' \in Nat /\ Replies[replied'] \in Nat
      BY <2>1, <2>2
    <2>4. Units(replied', Replies[replied']) \in Seq(Unit)
      BY <2>3, UnitsAre
    <2> QED
      BY <2>3, <2>4, <1>1
  <1>4. PICK out \in Seq(Unit) : out = o \o units /\ accepted \o units = returned \o out
    <2>1. PICK t \in Seq(Unit), u \in Seq(Unit) : t = returned /\ u = units
      BY <1>3
    <2>2. Regrouped(t, o, u)
      BY Joined
    <2>3. t \o o = accepted
      BY <1>2, <2>1
    <2> QED
      BY <2>1, <2>2, <2>3 DEF Regrouped
  <1>5. UNCHANGED <<wire, received>>
    BY DEF SendPacket
  <1>6. HandedWhole'
    BY <1>5 DEF HandedWhole, Final
  <1>7. ASSUME stream'.in = stream.in, stream'.waiting = stream.waiting,
               stream'.drop = stream.drop \/ stream'.drop
        PROVE  /\ (~stream.drop => StillToCome(stream.in, wire))'
               /\ (stream.waiting => received = <<>>)'
    BY <1>5, <1>7 DEF StillToCome
  <1>8. CASE UNCHANGED <<stream, returned, accepted>>
    BY <1>3, <1>5, <1>6, <1>7, <1>8
  <1>9. ASSUME accepted' = accepted \o units, NEW n \in 0..Len(out),
               stream' = [stream EXCEPT !.out = SubSeq(out, n + 1, Len(out))],
               returned' = returned \o SubSeq(out, 1, n)
        PROVE  TunnelInv'
    <2>1. Parted(out, n)
      BY Parts
    <2>2. PICK a \in Seq(Unit), b \in Seq(Unit) :
              a = SubSeq(out, 1, n) /\ b = SubSeq(out, n + 1, Len(out)) /\ a \o b = out
      BY <2>1 DEF Parted
    <2>3. /\ stream' \in StreamType /\ stream'.out = b /\ stream'.in = stream.in
          /\ stream'.waiting = stream.waiting /\ stream'.drop = stream.drop
      BY <2>2, <1>9 DEF StreamType
    <2>4. /\ returned' \in Seq(Unit) /\ accepted' \in Seq(Unit)
          /\ returned' \o b = accepted'
      <3>1. returned' = returned \o a /\ accepted' = returned \o out
        BY <1>4, <1>9, <2>2
      <3>2. /\ returned \o a \in Seq(Unit) /\ returned \o out \in Seq(Unit)
            /\ (returned \o a) \o b = returned \o (a \o b)
        <4>1. PICK t \in Seq(Unit) : t = returned
          OBVIOUS
        <4>2. Regrouped(t, a, b) /\ Regrouped(t, out, b)
          BY Joined
        <4> QED
          BY <4>1, <4>2 DEF Regrouped
      <3> QED
        BY <3>1, <3>2, <2>2
    <2> QED
      BY <1>3, <1>5, <1>6, <1>7, <2>3, <2>4
  <1>10. CASE /\ accepted' = accepted \o units
              /\ stream' = [[stream EXCEPT !.out = out] EXCEPT !.drop = TRUE]
              /\ returned' = returned
    <2>1. /\ stream' \in StreamType /\ stream'.out = out /\ stream'.in = stream.in
          /\ stream'.waiting = stream.waiting /\ stream'.drop
      BY <1>10 DEF StreamType
    <2>2. accepted' = returned \o out /\ accepted' \in Seq(Unit)
      <3>1. returned \o out \in Seq(Unit)
        <4>1. Regrouped(returned, out, out)
          BY Joined
        <4> QED
          BY <4>1 DEF Regrouped
      <3> QED
        BY <3>1, <1>4, <1>10
    <2> QED
      BY <1>3, <1>5, <1>6, <1>7, <1>10, <2>1, <2>2
  <1> QED
    <2>1. out = stream.out \o Units(replied', Replies[replied'])
      BY <1>1, <1>2, <1>4
    <2>2. \/ UNCHANGED <<stream, returned, accepted>>
          \/ /\ accepted' = accepted \o units
             /\ \/ \E n \in 0..Len(out) :
                      /\ stream' = [stream EXCEPT !.out = SubSeq(out, n + 1, Len(out))]
                      /\ returned' = returned \o SubSeq(out, 1, n)
                \/ /\ stream' = [stream EXCEPT !.out = out, !.drop = TRUE]
                   /\ UNCHANGED returned
      BY <1>1, <2>1, Zenon DEF SendPacket
    <2>3. [stream EXCEPT !.out = out, !.drop = TRUE]
            = [[stream EXCEPT !.out = out] EXCEPT !.drop = TRUE]
      BY Zenon
    <2> QED
      BY <2>2, <2>3, <1>8, <1>9, <1>10, Zenon

(* However TCP cuts up what the proxy and the server send (net.c), the     *)
(* packets handed to the server are those that were sent, each whole and   *)
(* in order, and the proxy gets the accepted replies as far as they have   *)
(* come: for any packets, replies and sizes of the buffers.                *)
THEOREM TunnelFramesWhole == TcpSpec => []FramesWhole
  <1>1. TunnelInv /\ [TcpNext]_tcp => TunnelInv'
    <2> SUFFICES ASSUME TunnelInv, [TcpNext]_tcp PROVE TunnelInv'
      OBVIOUS
    <2>1. CASE GetPacket
      BY <2>1, TunnelGet
    <2>2. CASE SendPacket
      BY <2>2, TunnelSend
    <2>3. ASSUME stream'.in = stream.in, stream'.out = stream.out,
                 stream'.waiting = stream.waiting, stream.drop => stream'.drop,
                 stream' \in StreamType,
                 UNCHANGED <<wire, received, returned, replied, accepted>>
          PROVE  TunnelInv'
      <3>1. HandedWhole'
        BY <2>3 DEF TunnelInv, HandedWhole, Final
      <3>2. (~stream.drop => StillToCome(stream.in, wire))'
        BY <2>3 DEF TunnelInv, StillToCome
      <3> QED
        BY <2>3, <3>1, <3>2 DEF TunnelInv
    <2>4. CASE Broken
      BY <2>3, <2>4 DEF Broken, TunnelInv, StreamType
    <2>5. CASE Free
      BY <2>3, <2>5 DEF Free, TunnelInv, StreamType
    <2>6. CASE UNCHANGED tcp
      BY <2>3, <2>6 DEF tcp, TunnelInv
    <2> QED
      BY <2>1, <2>2, <2>4, <2>5, <2>6 DEF TcpNext
  <1>2. TunnelInv => FramesWhole
    <2> SUFFICES ASSUME TunnelInv PROVE FramesWhole
      OBVIOUS
    <2>1. \A i \in DOMAIN received : received[i] = Units(i, Lengths[i])
      <3>1. DOMAIN received = 1..Len(received)
        BY LenProperties DEF TunnelInv, HandedWhole
      <3> QED
        BY <3>1 DEF TunnelInv, HandedWhole
    <2>2. PICK o \in Seq(Unit), none \in Seq(Unit), a \in Seq(Unit), r \in Seq(Unit) :
              o = stream.out /\ none = <<>> /\ a = accepted /\ r = returned
      BY EmptySeq DEF TunnelInv, StreamType
    <2>3. r \o o = a
      BY <2>2 DEF TunnelInv
    <2>4. a \o none = r \o o
      BY <2>2, <2>3, ConcatEmptySeq
    <2>5. Len(r) <= Len(a)
      BY <2>3, ConcatProperties, LenProperties
    <2>6. CutAt(a, none, r, o)
      BY <2>4, <2>5, Cut
    <2>7. SubSeq(a, 1, Len(r)) = r
      BY <2>6 DEF CutAt
    <2> QED
      BY <2>1, <2>2, <2>5, <2>7 DEF FramesWhole
  <1> QED
    BY <1>1, <1>2, TunnelInit, PTL DEF TcpSpec

-----------------------------------------------------------------------------
(***************************************************************************)
(* What is recorded (MvdRecorder).                                         *)
(*                                                                         *)
(* A destination has the blocks of the frames that have gone out, each     *)
(* once and in order, and each update in them is made from the one before. *)
(* NothingMissing says so of what is written; RecorderInv says it of what  *)
(* waits as well: the frames kept back in the ring are one run of blocks   *)
(* that begins where the destinations end.                                 *)
(***************************************************************************)

(* One step of the recursion of FlattenSeq. *)
JoinStep(p, f, i) == IF i = 1 THEN p[i] ELSE f[i - 1] \o p[i]

(* Up to each place of a list, the function of FlattenSeq exists. *)
LEMMA JoinedUpTo ==
    ASSUME NEW S, NEW p \in Seq(S)
    PROVE  \A n \in 1..Len(p) : \E f : f = [i \in 1..n |-> JoinStep(p, f, i)]
  <1> DEFINE Bad == {n \in 1..Len(p) : ~\E f : f = [i \in 1..n |-> JoinStep(p, f, i)]}
  <1> SUFFICES ASSUME Bad # {} PROVE FALSE
    OBVIOUS
  <1>a. Bad \in SUBSET Nat /\ Len(p) \in Nat
    BY LenProperties
  <1>1. PICK n \in Bad : \A m \in Bad : n <= m
    <2> HIDE DEF Bad
    <2> QED
      BY <1>a, LeastNumber
  <1>2. n \in 1..Len(p)
    OBVIOUS
  <1>3. CASE n = 1
    <2> DEFINE g == [i \in 1..n |-> p[i]]
    <2>1. g = [i \in 1..n |-> JoinStep(p, g, i)]
      BY <1>3 DEF JoinStep
    <2> QED
      BY <2>1
  <1>4. CASE n # 1
    <2>1. n - 1 \in 1..Len(p) /\ n - 1 \notin Bad
      <3>1. PICK len \in Nat : len = Len(p)
        BY <1>a
      <3> HIDE DEF Bad
      <3> QED
        BY <1>1, <1>2, <1>4, <3>1
    <2>2. PICK f : f = [i \in 1..n - 1 |-> JoinStep(p, f, i)]
      BY <2>1
    <2> DEFINE g == [i \in 1..n |-> IF i < n THEN f[i] ELSE JoinStep(p, f, n)]
    <2>3. \A i \in 1..n : g[i] = JoinStep(p, g, i)
      <3> TAKE i \in 1..n
      <3>1. i # 1 => i - 1 \in 1..n - 1 /\ g[i - 1] = f[i - 1]
        BY <1>2, <1>a
      <3>2. JoinStep(p, g, i) = JoinStep(p, f, i)
        BY <3>1 DEF JoinStep
      <3>3. i < n => f[i] = JoinStep(p, f, i)
        <4>1. i < n => i \in 1..n - 1
          BY <1>2, <1>a
        <4> QED
          BY <2>2, <4>1
      <3> QED
        BY <3>2, <3>3, <1>2, <1>a
    <2>4. g = [i \in 1..n |-> JoinStep(p, g, i)]
      BY <2>3
    <2> QED
      BY <2>4
  <1> QED
    BY <1>3, <1>4

(* FlattenSeq is made place by place. *)
LEMMA JoinedInSteps ==
    ASSUME NEW S, NEW p \in Seq(S), Len(p) # 0
    PROVE  \E f : /\ f = [i \in 1..Len(p) |-> JoinStep(p, f, i)]
                  /\ FlattenSeq(p) = f[Len(p)]
  <1> DEFINE Def(f) == f = [i \in 1..Len(p) |->
                  IF i = 1 THEN p[i] ELSE f[i - 1] \o p[i]]
             F == CHOOSE f : Def(f)
  <1>1. FlattenSeq(p) = F[Len(p)]
    BY DEF FlattenSeq
  <1>a. Len(p) \in 1..Len(p)
    BY LenProperties
  <1>2. \E f : f = [i \in 1..Len(p) |-> JoinStep(p, f, i)]
    BY <1>a, JoinedUpTo, Zenon
  <1>3. \E f : Def(f)
    BY <1>2 DEF JoinStep
  <1>4. Def(F)
    <2> HIDE DEF Def
    <2> QED
      BY <1>3, Zenon
  <1>5. F = [i \in 1..Len(p) |-> JoinStep(p, F, i)]
    BY <1>4, Zenon DEF JoinStep
  <1> HIDE DEF F
  <1> QED
    BY <1>1, <1>5

LEMMA JoinedNone == FlattenSeq(<<>>) = <<>>
  BY EmptySeq DEF FlattenSeq

(* What is joined is a sequence of the same. *)
LEMMA JoinedTypes ==
    ASSUME NEW U, NEW p \in Seq(Seq(U))
    PROVE  FlattenSeq(p) \in Seq(U)
  <1>l. Len(p) \in Nat /\ \A i \in 1..Len(p) : p[i] \in Seq(U)
    BY LenProperties, ElementOfSeq
  <1>1. CASE Len(p) = 0
    <2>1. p = <<>>
      BY <1>1, EmptySeq
    <2> QED
      BY <2>1, JoinedNone, EmptySeq
  <1>2. CASE Len(p) # 0
    <2>1. PICK f : /\ f = [i \in 1..Len(p) |-> JoinStep(p, f, i)]
                   /\ FlattenSeq(p) = f[Len(p)]
      BY <1>2, JoinedInSteps
    <2>2. \A i \in 1..Len(p) : f[i] = JoinStep(p, f, i)
      BY <2>1
    <2> DEFINE Bad == {i \in 1..Len(p) : f[i] \notin Seq(U)}
    <2>3. Bad = {}
      <3> SUFFICES ASSUME Bad # {} PROVE FALSE
        OBVIOUS
      <3>1. PICK n \in Bad : \A m \in Bad : n <= m
        <4>1. Bad \in SUBSET Nat
          BY <1>l
        <4> HIDE DEF Bad
        <4> QED
          BY <4>1, LeastNumber
      <3>2. n \in 1..Len(p) /\ f[n] \notin Seq(U) /\ f[n] = JoinStep(p, f, n)
        BY <2>2
      <3>3. CASE n = 1
        BY <3>2, <3>3, <1>l DEF JoinStep
      <3>4. CASE n # 1
        <4> HIDE DEF Bad
        <4>a. n \in 1..Len(p) /\ n # 1 /\ Len(p) \in Nat
          BY <3>2, <3>4, <1>l
        <4>b. n - 1 \in 1..Len(p) /\ ~(n <= n - 1)
          BY <4>a
        <4>c. n - 1 \notin Bad
          BY <3>1, <4>b
        <4> USE DEF Bad
        <4>1. n - 1 \in 1..Len(p) /\ n - 1 \notin Bad
          BY <4>b, <4>c
        <4>2. f[n - 1] \in Seq(U) /\ p[n] \in Seq(U)
          BY <4>1, <3>2, <1>l
        <4>3. f[n - 1] \o p[n] \in Seq(U)
          BY <4>2, ConcatProperties
        <4> QED
          BY <3>2, <3>4, <4>3 DEF JoinStep
      <3> QED
        BY <3>3, <3>4
    <2>4. Len(p) \in 1..Len(p)
      BY <1>2, <1>l
    <2> QED
      BY <2>1, <2>3, <2>4
  <1> QED
    BY <1>1, <1>2


-----------------------------------------------------------------------------
(* Entries of a list are the list's entries.                               *)
LEMMA ThoseAre ==
    ASSUME NEW S, NEW list \in Seq(S), NEW places
    PROVE  Those(list, places) \in Seq({list[i] : i \in places \intersect DOMAIN list})
  <1> DEFINE U == {list[i] : i \in places \intersect DOMAIN list}
             p == [i \in DOMAIN list |-> IF i \in places THEN <<list[i]>> ELSE <<>>]
  <1>1. DOMAIN list = 1..Len(list) /\ Len(list) \in Nat
    BY LenProperties
  <1>2. ASSUME NEW i \in 1..Len(list) PROVE p[i] \in Seq(U)
    <2>1. CASE i \in places
      <3>1. list[i] \in U
        BY <1>1, <2>1
      <3>2. PICK x \in U : x = list[i]
        BY <3>1
      <3> HIDE DEF U
      <3>3. <<x>> \in Seq(U)
        OBVIOUS
      <3> QED
        BY <3>2, <3>3, <1>1, <2>1
    <2>2. CASE i \notin places
      <3> HIDE DEF U
      <3> QED
        BY <1>1, <2>2, EmptySeq
    <2> QED
      BY <2>1, <2>2
  <1>3. p \in Seq(Seq(U))
    <2>1. p \in [1..Len(list) -> Seq(U)]
      <3> HIDE DEF U
      <3> QED
        BY <1>1, <1>2
    <2> HIDE DEF U, p
    <2> QED
      BY <2>1, <1>1
  <1>4. FlattenSeq(p) \in Seq(U)
    <2> HIDE DEF U, p
    <2> QED
      BY <1>3, JoinedTypes
  <1> QED
    BY <1>4 DEF Those

LEMMA ThoseIn ==
    ASSUME NEW S, NEW list \in Seq(S), NEW places, NEW T,
           \A i \in 1..Len(list) : i \in places => list[i] \in T
    PROVE  Those(list, places) \in Seq(T)
  <1>1. DOMAIN list = 1..Len(list)
    BY LenProperties
  <1> DEFINE U == {list[i] : i \in places \intersect DOMAIN list}
  <1>2. U \subseteq T
    BY <1>1
  <1>3. Those(list, places) \in Seq(U)
    BY ThoseAre
  <1> HIDE DEF U
  <1> QED
    BY <1>2, <1>3, SeqMonotonic

(* A function on the places of a list is a list. *)
LEMMA ListMade ==
    ASSUME NEW n \in Nat, NEW S, NEW f, f \in [1..n -> S]
    PROVE  f \in Seq(S) /\ Len(f) = n
  OBVIOUS

-----------------------------------------------------------------------------
(* What a destination holds.                                               *)
Items == [n : Nat, base : Int]

(* What may come after what. *)
Follows(a, b) ==
    IF b.base = Gamestate THEN b.n >= a.n
    ELSE IF a.base = Gamestate THEN b.n <= a.n + 1
    ELSE b.n = a.n + 1
Whole(c) ==
    /\ c # <<>> => c[1].base = Gamestate
    /\ \A i \in 2..Len(c) : Follows(c[i - 1], c[i])

(* One more item. *)
LEMMA WholeAppended ==
    ASSUME NEW c \in Seq(Items), NEW x \in Items, Whole(c),
           c = <<>> => x.base = Gamestate,
           c # <<>> => Follows(c[Len(c)], x)
    PROVE  /\ Append(c, x) \in Seq(Items) /\ Whole(Append(c, x)) /\ Append(c, x) # <<>>
           /\ Append(c, x)[Len(Append(c, x))] = x
  <1>1. PICK a : a = Append(c, x)
    OBVIOUS
  <1>2. /\ a \in Seq(Items) /\ Len(a) = Len(c) + 1 /\ Len(c) \in Nat
        /\ \A i \in 1..Len(c) : a[i] = c[i]
        /\ a[Len(c) + 1] = x
    BY <1>1, AppendProperties, LenProperties
  <1>3. a # <<>> /\ (c = <<>> <=> Len(c) = 0)
    BY <1>2, EmptySeq
  <1>4. a[1].base = Gamestate
    <2>1. CASE c = <<>>
      BY <2>1, <1>2, <1>3
    <2>2. CASE c # <<>>
      BY <2>2, <1>2, <1>3 DEF Whole
    <2> QED
      BY <2>1, <2>2
  <1>5. ASSUME NEW i \in 2..Len(a) PROVE Follows(a[i - 1], a[i])
    <2>1. CASE i = Len(a)
      <3>1. i - 1 = Len(c) /\ i - 1 \in 1..Len(c) /\ i = Len(c) + 1
        BY <1>2, <1>5, <2>1
      <3> QED
        BY <3>1, <1>2, <1>3
    <2>2. CASE i # Len(a)
      <3>1. i \in 2..Len(c) /\ i - 1 \in 1..Len(c) /\ i \in 1..Len(c)
        BY <1>2, <1>5, <2>2
      <3> QED
        BY <3>1, <1>2 DEF Whole
    <2> QED
      BY <2>1, <2>2
  <1>6. a[Len(a)] = x
    BY <1>2
  <1> QED
    BY <1>1, <1>2, <1>3, <1>4, <1>5, <1>6 DEF Whole

-----------------------------------------------------------------------------
(* A destination.                                                          *)
DestType == [id : Dest, type : {"file", "buffered", "stream"}, error : BOOLEAN,
             cache : Seq(Items), out : Seq(Items)]
Held(e) == e.out \o e.cache

(* What it holds is whole, of blocks up to b. *)
Sound(e, b) ==
    /\ e \in DestType
    /\ e.type = "file" => e.cache = <<>>
    /\ Whole(e.out)
    /\ ~e.error => /\ Whole(Held(e))
                   /\ Held(e) # <<>> => Held(e)[Len(Held(e))].n <= b

(* It may go on with block m. *)
Ready(c, m) ==
    /\ c # <<>>
    /\ m <= c[Len(c)].n + 1
    /\ c[Len(c)].base # Gamestate => m = c[Len(c)].n + 1
UpToDate(e, m, b) == Sound(e, b) /\ (~e.error => Ready(Held(e), m))

LEMMA HeldIs ==
    ASSUME NEW e \in DestType
    PROVE  /\ e.out \in Seq(Items) /\ e.cache \in Seq(Items) /\ Held(e) \in Seq(Items)
           /\ e.cache = <<>> => Held(e) = e.out
           /\ Held(e) # <<>> => Held(e)[Len(Held(e))] \in Items
  <1>1. PICK o \in Seq(Items), k \in Seq(Items) : o = e.out /\ k = e.cache
    BY DEF DestType
  <1>2. o \o k \in Seq(Items) /\ o \o <<>> = o
    BY ConcatProperties, ConcatEmptySeq
  <1>3. PICK h \in Seq(Items) : h = Held(e)
    BY <1>1, <1>2 DEF Held
  <1>4. h # <<>> => h[Len(h)] \in Items
    <2>1. h # <<>> => Len(h) \in 1..Len(h)
      BY LenProperties, EmptySeq
    <2> QED
      BY <2>1, ElementOfSeq
  <1> QED
    BY <1>1, <1>2, <1>3, <1>4 DEF Held

(* DemoWriteDest adds the item at the end, or the destination has failed. *)
AddedTo(e, x, r) ==
    /\ r \in DestType /\ r.type = e.type
    /\ r.type = "file" => r.cache = <<>>
    /\ \/ r.error /\ r.out = e.out
       \/ /\ ~r.error /\ ~e.error /\ Held(r) = Append(Held(e), x)
          /\ r.out = e.out \/ r.out = Held(r)

LEMMA DemoWriteDestAdds ==
    ASSUME NEW e \in DestType, e.type = "file" => e.cache = <<>>, NEW x \in Items, NEW io,
           NEW r, r = DemoWriteDest(e, x, io)
    PROVE  AddedTo(e, x, r)
  <1>1. PICK o \in Seq(Items), k \in Seq(Items) : o = e.out /\ k = e.cache
    BY DEF DestType
  <1>2. /\ Append(o, x) \in Seq(Items) /\ Append(k, x) \in Seq(Items)
        /\ o \o Append(k, x) = Append(o \o k, x)
        /\ o \o <<>> = o /\ Append(o, x) \o <<>> = Append(o, x)
    <2>1. Append(o, x) \in Seq(Items) /\ Append(k, x) \in Seq(Items)
      BY AppendProperties
    <2>2. o \o Append(k, x) = Append(o \o k, x)
      <3>a. o \o k \in Seq(Items)
        BY ConcatProperties
      <3>b. <<x>> \in Seq(Items)
        OBVIOUS
      <3>1. PICK u \in Seq(Items), v \in Seq(Items), w \in Seq(Items) :
                u = <<x>> /\ v = o \o k /\ w = Append(k, x)
        BY <2>1, <3>a, <3>b
      <3>2. w = k \o u /\ Append(v, x) = v \o u
        BY <3>1, AppendIsConcat
      <3>3. (o \o k) \o u = o \o (k \o u)
        BY ConcatAssociative
      <3> QED
        BY <3>1, <3>2, <3>3
    <2>3. PICK y \in Seq(Items) : y = Append(o, x)
      BY <2>1
    <2>4. o \o <<>> = o /\ y \o <<>> = y
      BY ConcatEmptySeq
    <2> QED
      BY <2>1, <2>2, <2>3, <2>4
  <1>3. CASE e.error
    BY <1>3 DEF AddedTo, DemoWriteDest
  <1>4. CASE ~e.error /\ r = [e EXCEPT !.error = TRUE]
    BY <1>4 DEF AddedTo, DestType
  <1>5. CASE ~e.error /\ e.type = "file" /\ r = [e EXCEPT !.out = Append(@, x)]
    <2>1. r = [e EXCEPT !.out = Append(o, x)]
      BY <1>1, <1>5
    <2>2. /\ r \in DestType /\ r.type = e.type /\ r.cache = <<>> /\ ~r.error
          /\ r.out = Append(o, x) /\ e.cache = <<>>
      BY <1>1, <1>2, <1>5, <2>1 DEF DestType
    <2> QED
      BY <1>1, <1>2, <1>5, <2>2 DEF AddedTo, Held
  <1>6. CASE ~e.error /\ e.type # "file" /\ r = [e EXCEPT !.cache = Append(@, x)]
    <2>1. r = [e EXCEPT !.cache = Append(k, x)]
      BY <1>1, <1>6
    <2>2. /\ r \in DestType /\ r.type = e.type /\ r.cache = Append(k, x) /\ ~r.error
          /\ r.out = o
      BY <1>1, <1>2, <1>6, <2>1 DEF DestType
    <2> QED
      BY <1>1, <1>2, <1>6, <2>2 DEF AddedTo, Held
  <1> QED
    BY <1>3, <1>4, <1>5, <1>6 DEF DemoWriteDest

(* The mark of a gamestate. *)
LEMMA GamestateWritten ==
    ASSUME NEW b \in Nat, NEW m \in Nat, m <= b + 1, NEW e, Sound(e, b), NEW io,
           NEW r, r = DemoWriteDest(e, Item(b, Gamestate), io)
    PROVE  UpToDate(r, m, b)
  <1>1. PICK x \in Items : x = Item(b, Gamestate) /\ x.n = b /\ x.base = Gamestate
    BY DEF Item, Items, Gamestate
  <1>2. AddedTo(e, x, r)
    BY <1>1, DemoWriteDestAdds DEF Sound
  <1>3. CASE r.error
    BY <1>2, <1>3 DEF AddedTo, UpToDate, Sound
  <1>4. CASE ~r.error
    <2>1. PICK c \in Seq(Items) : c = Held(e)
      BY HeldIs DEF Sound
    <2>2. Whole(c) /\ (c # <<>> => c[Len(c)] \in Items /\ c[Len(c)].n <= b)
      BY <1>2, <1>4, <2>1, HeldIs DEF Sound, AddedTo
    <2>3. c # <<>> => Follows(c[Len(c)], x)
      <3>1. ASSUME c # <<>> PROVE Follows(c[Len(c)], x)
        <4>1. PICK y \in Items : y = c[Len(c)] /\ y.n <= b
          BY <2>2, <3>1
        <4>2. y.n \in Nat
          BY DEF Items
        <4>a. x.n >= y.n
          BY <1>1, <4>1, <4>2
        <4>3. Follows(y, x)
          BY <1>1, <4>a DEF Follows
        <4> QED
          BY <4>1, <4>3
      <3> QED
        BY <3>1
    <2>4. PICK h \in Seq(Items) : /\ h = Append(c, x) /\ Whole(h) /\ h # <<>> /\ h[Len(h)] = x
      <3>1. c = <<>> => x.base = Gamestate
        BY <1>1
      <3> QED
        BY <2>2, <2>3, <3>1, WholeAppended
    <2>5. Held(r) = h
      BY <1>2, <1>4, <2>1, <2>4 DEF AddedTo
    <2>6. Ready(h, m)
      BY <1>1, <2>4 DEF Ready
    <2>7. Sound(r, b)
      <3>1. Whole(e.out)
        BY DEF Sound
      <3>2. Whole(r.out)
        BY <1>2, <1>4, <2>4, <2>5, <3>1 DEF AddedTo
      <3>3. Held(r)[Len(Held(r))].n <= b
        BY <1>1, <2>4, <2>5
      <3>4. r \in DestType /\ (r.type = "file" => r.cache = <<>>)
        BY <1>2 DEF AddedTo
      <3> QED
        BY <2>4, <2>5, <3>2, <3>3, <3>4 DEF Sound
    <2> QED
      BY <2>5, <2>6, <2>7 DEF UpToDate
  <1> QED
    BY <1>3, <1>4

(* The next block. *)
LEMMA BlockWritten ==
    ASSUME NEW b \in Nat, NEW m \in Nat, m <= b, NEW e, UpToDate(e, m, b), NEW io,
           NEW x \in Items, x.n = m, x.base # Gamestate,
           NEW r, r = DemoWriteDest(e, x, io)
    PROVE  UpToDate(r, m + 1, b)
  <1>2. AddedTo(e, x, r)
    BY DemoWriteDestAdds DEF Sound, UpToDate
  <1>3. CASE r.error
    BY <1>2, <1>3 DEF AddedTo, UpToDate, Sound
  <1>4. CASE ~r.error
    <2>1. PICK c \in Seq(Items) : c = Held(e)
      BY HeldIs DEF Sound, UpToDate
    <2>2. Whole(c) /\ c # <<>> /\ c[Len(c)] \in Items /\ Ready(c, m)
      BY <1>2, <1>4, <2>1, HeldIs DEF Sound, AddedTo, UpToDate, Ready
    <2>3. Follows(c[Len(c)], x)
      <3>1. PICK y \in Items : y = c[Len(c)]
        BY <2>2
      <3>2. y.n \in Nat /\ m <= y.n + 1 /\ (y.base # Gamestate => m = y.n + 1)
        BY <2>2, <3>1 DEF Items, Ready
      <3>3. Follows(y, x)
        BY <3>2 DEF Follows
      <3> QED
        BY <3>1, <3>3
    <2>4. PICK h \in Seq(Items) : /\ h = Append(c, x) /\ Whole(h) /\ h # <<>> /\ h[Len(h)] = x
      BY <2>2, <2>3, WholeAppended
    <2>5. Held(r) = h
      BY <1>2, <1>4, <2>1, <2>4 DEF AddedTo
    <2>6. Ready(h, m + 1)
      BY <2>4 DEF Ready
    <2>7. Sound(r, b)
      <3>1. Whole(e.out)
        BY DEF Sound, UpToDate
      <3>2. Whole(r.out)
        BY <1>2, <1>4, <2>4, <2>5, <3>1 DEF AddedTo
      <3>3. Held(r)[Len(Held(r))].n <= b
        BY <2>4, <2>5
      <3>4. r \in DestType /\ (r.type = "file" => r.cache = <<>>)
        BY <1>2 DEF AddedTo
      <3> QED
        BY <2>4, <2>5, <3>2, <3>3, <3>4 DEF Sound
    <2> QED
      BY <2>5, <2>6, <2>7 DEF UpToDate
  <1> QED
    BY <1>3, <1>4

(* More blocks. *)
LEMMA SoundLonger ==
    ASSUME NEW b \in Nat, NEW w \in Nat, b <= w, NEW e, Sound(e, b)
    PROVE  Sound(e, w)
  <1>1. e \in DestType /\ (Held(e) # <<>> => Held(e)[Len(Held(e))] \in Items)
    BY HeldIs DEF Sound
  <1>2. Held(e) # <<>> => Held(e)[Len(Held(e))].n \in Nat
    BY <1>1 DEF Items
  <1> QED
    BY <1>2 DEF Sound

(* A flush writes what is in the cache, or the destination has failed.     *)
LEMMA FlushedDest ==
    ASSUME NEW b, NEW m, NEW e, UpToDate(e, m, b), ~e.error,
           NEW complete, NEW io, NEW r, r = FlushDest(e, complete, io)
    PROVE  /\ UpToDate(r, m, b) /\ r.type = e.type
           /\ complete /\ r.type # "stream" /\ ~r.error => r.cache = <<>>
  <1>1. PICK o \in Seq(Items), k \in Seq(Items), h \in Seq(Items) :
            o = e.out /\ k = e.cache /\ h = o \o k /\ h = Held(e) /\ h \o <<>> = h
    BY HeldIs, ConcatEmptySeq DEF Sound, UpToDate, Held
  <1>2. e \in DestType /\ Whole(h) /\ Whole(o) /\ <<>> \in Seq(Items)
    BY <1>1, EmptySeq DEF Sound, UpToDate
  <1>w. PICK written, lost, failed :
            /\ written = [[e EXCEPT !.out = h] EXCEPT !.cache = <<>>]
            /\ lost = [[e EXCEPT !.cache = <<>>] EXCEPT !.error = TRUE]
            /\ failed = [e EXCEPT !.error = TRUE]
    OBVIOUS
  <1>e. e.error = FALSE /\ (e.type = "file" => e.cache = <<>>)
    BY <1>2 DEF DestType, UpToDate, Sound
  <1>c. PICK f, v :
                   /\ r = [f EXCEPT !.error = v]
                   /\ v \in BOOLEAN /\ (f.error => v)
                   /\ f \in {e, written, lost, failed}
                   /\ complete /\ e.type = "buffered" => f \in {written, lost}
                   /\ e.type = "file" => f = e
    <2>1. [e EXCEPT !.out = @ \o e.cache, !.cache = <<>>] = written
      <3>1. [e EXCEPT !.out = @ \o e.cache, !.cache = <<>>]
                = [[e EXCEPT !.out = e.out \o e.cache] EXCEPT !.cache = <<>>]
        BY <1>2 DEF DestType
      <3> QED
        BY <1>w, <1>1, <3>1
    <2>2. [e EXCEPT !.cache = <<>>, !.error = TRUE] = lost
      BY <1>w, <1>2 DEF DestType
    <2>3. e.type \in {"file", "buffered", "stream"}
      BY <1>2 DEF DestType
    <2>4. PICK large : large = (/\ e.type # "stream" /\ MaxSize > 0
                                /\ Len(e.out) + Len(e.cache) > MaxSize)
      OBVIOUS
    <2>5. PICK f :
                   /\ r = [f EXCEPT !.error = (f.error \/ large)]
                   /\ f \in {e, written, lost, failed}
                   /\ complete /\ e.type = "buffered" => f \in {written, lost}
                   /\ e.type = "file" => f = e
      <3>1. CASE e.type = "file"
        BY <1>w, <2>4, <3>1 DEF FlushDest
      <3>2. CASE e.type = "buffered"
        BY <1>w, <2>1, <2>2, <2>4, <3>2 DEF FlushDest
      <3>3. CASE e.type = "stream"
        BY <1>w, <2>1, <2>4, <3>3 DEF FlushDest
      <3> QED
        BY <2>3, <3>1, <3>2, <3>3
    <2>6. PICK v : v = (f.error \/ large) /\ v \in BOOLEAN
      OBVIOUS
    <2>7. r = [f EXCEPT !.error = v]
      BY <2>5, <2>6
    <2> QED
      BY <2>5, <2>6, <2>7
  <1>4. f \in DestType /\ f.type = e.type /\ f.id = e.id
    <2>1. CASE f = e
      BY <1>w, <1>2, <2>1
    <2>2. CASE f = written
      BY <1>w, <1>1, <1>2, <2>2 DEF DestType
    <2>3. CASE f = lost \/ f = failed
      BY <1>w, <1>2, <2>3 DEF DestType
    <2> QED
      BY <1>c, <2>1, <2>2, <2>3
  <1>5. /\ r \in DestType /\ r.type = e.type /\ r.cache = f.cache /\ r.out = f.out
        /\ f.error => r.error
    BY <1>c, <1>4 DEF DestType
  <1>6. f.error \/ (f.error = FALSE /\ Held(f) = h)
    <2>1. CASE f = written
      <3>1. f.out = h /\ f.cache = <<>> /\ f.error = FALSE
        BY <1>w, <1>1, <1>2, <1>e, <2>1 DEF DestType
      <3> QED
        BY <1>1, <3>1 DEF Held
    <2>2. CASE f = e
      BY <1>w, <1>1, <2>2, <1>e
    <2>3. CASE f = lost
      BY <1>w, <2>3, <1>2 DEF DestType
    <2>4. CASE f = failed
      BY <1>w, <2>4, <1>2 DEF DestType
    <2> QED
      BY <2>1, <2>2, <2>3, <2>4, <1>c
  <1>7. /\ f.out \in {o, h} /\ (f.type = "file" => f.cache = <<>>)
        /\ (complete /\ f.type # "stream" /\ ~f.error => f.cache = <<>>)
    <2>1. CASE f = written
      BY <1>w, <2>1, <1>1, <1>2 DEF DestType
    <2>2. CASE f = lost
      BY <1>w, <2>2, <1>1, <1>2 DEF DestType
    <2>3. CASE f = failed
      BY <1>w, <2>3, <1>1, <1>2, <1>e DEF DestType
    <2>4. CASE f = e /\ f # written
      <3>1. complete => e.type # "buffered"
        BY <1>w, <1>c, <2>2, <2>4, <1>6, <1>e, <1>2 DEF DestType
      <3>2. e.type \in {"file", "buffered", "stream"}
        BY <1>2 DEF DestType
      <3> QED
        BY <2>4, <3>1, <3>2, <1>e, <1>1
    <2> QED
      BY <2>1, <2>2, <2>3, <2>4, <1>c
  <1>8. Whole(r.out)
    BY <1>2, <1>5, <1>7
  <1>9. ~r.error => Held(r) = h
    BY <1>5, <1>6 DEF Held
  <1>10. UpToDate(r, m, b)
    <2>1. h # <<>> => h[Len(h)].n <= b
      BY <1>1 DEF Sound, UpToDate
    <2>2. Ready(h, m)
      BY <1>1 DEF UpToDate
    <2> QED
      BY <1>2, <1>4, <1>5, <1>7, <1>8, <1>9, <2>1, <2>2 DEF UpToDate, Sound
  <1> QED
    BY <1>5, <1>7, <1>10, <1>4

-----------------------------------------------------------------------------
(* The recorder: its destinations and frames.                              *)
Ended == {"failed", "removed", "stopped", "cut"}
WellClosed ==
    {c \in [id : Dest, out : Seq(Items), how : Ended, error : BOOLEAN, blocks : Nat] :
        /\ Whole(c.out)
        /\ c.how = "stopped" /\ ~c.error => c.out # <<>> /\ c.out[Len(c.out)].n = c.blocks}
Frame == [blocks : Seq(Items), overflowed : BOOLEAN]
Places == 0..Backup - 1
DemoType ==
    [recording : BOOLEAN, dest : Seq(DestType), closing : Seq(WellClosed), blocks : Nat,
     parsecount : Nat, lastwritten : Nat, frames : [Places -> Frame],
     delta : Nat, incoming : Nat, updates : [Places -> Nat \cup {Unwritten}]]

Sounds(b) == {e \in DestType : Sound(e, b)}
UpToDates(m, b) == {e \in DestType : UpToDate(e, m, b)}

SameFrames(r, d) ==
    /\ r.blocks = d.blocks /\ r.parsecount = d.parsecount /\ r.lastwritten = d.lastwritten
    /\ r.frames = d.frames
Attended(d) == d.dest # <<>> => d.recording

(* Destinations are closed. *)
LEMMA CloseKeeps ==
    ASSUME NEW d \in DemoType, NEW es \in Seq(DestType), NEW how \in Ended,
           \A i \in 1..Len(es) :
               /\ Whole(es[i].out)
               /\ how = "stopped" /\ ~es[i].error
                    => es[i].out # <<>> /\ es[i].out[Len(es[i].out)].n = d.blocks,
           NEW r, r = Close(d, es, how)
    PROVE  /\ r \in DemoType /\ SameFrames(r, d)
           /\ r.dest = d.dest /\ r.recording = d.recording
  <1> DEFINE F(i) == [id |-> es[i].id, out |-> es[i].out, how |-> how,
                      error |-> es[i].error, blocks |-> d.blocks]
             more == [i \in DOMAIN es |-> F(i)]
  <1>1. DOMAIN es = 1..Len(es) /\ Len(es) \in Nat
    BY LenProperties
  <1>2. ASSUME NEW i \in 1..Len(es) PROVE F(i) \in WellClosed
    <2>1. PICK e \in DestType : e = es[i]
      BY ElementOfSeq
    <2>2. d.blocks \in Nat
      BY DEF DemoType
    <2>3. /\ Whole(e.out)
          /\ how = "stopped" /\ ~e.error => e.out # <<>> /\ e.out[Len(e.out)].n = d.blocks
      BY <2>1
    <2>4. PICK c : c = [id |-> e.id, out |-> e.out, how |-> how,
                        error |-> e.error, blocks |-> d.blocks]
      OBVIOUS
    <2>5. c \in [id : Dest, out : Seq(Items), how : Ended, error : BOOLEAN, blocks : Nat]
      BY <2>2, <2>4 DEF DestType
    <2>6. c.out = e.out /\ c.how = how /\ c.error = e.error /\ c.blocks = d.blocks
      BY <2>4
    <2>7. c \in WellClosed
      BY <2>3, <2>5, <2>6 DEF WellClosed
    <2> QED
      BY <2>1, <2>4, <2>7
  <1>3. more \in Seq(WellClosed)
    <2>1. more \in [1..Len(es) -> WellClosed]
      <3> HIDE DEF F
      <3> QED
        BY <1>1, <1>2
    <2> HIDE DEF more
    <2> QED
      BY <2>1, <1>1
  <1>4. PICK cs \in Seq(WellClosed) : cs = d.closing \o more
    <2>1. d.closing \in Seq(WellClosed)
      BY DEF DemoType
    <2> HIDE DEF more
    <2> QED
      BY <2>1, <1>3, ConcatProperties
  <1>5. r = [d EXCEPT !.closing = cs]
    BY <1>4 DEF Close
  <1> QED
    BY <1>5 DEF DemoType, SameFrames

(* A flush of all. *)
LEMMA DestFlushKeeps ==
    ASSUME NEW d \in DemoType, NEW m, d.dest \in Seq(UpToDates(m, d.blocks)), Attended(d),
           NEW complete, NEW io, NEW r, r = DestFlush(d, complete, io)
    PROVE  /\ r \in DemoType /\ SameFrames(r, d)
           /\ r.dest \in Seq(UpToDates(m, r.blocks)) /\ Attended(r)
           /\ r.recording => d.recording
           /\ complete => \A i \in 1..Len(r.dest) :
                  r.dest[i].type # "stream" /\ ~r.dest[i].error => r.dest[i].cache = <<>>
  <1> DEFINE U == UpToDates(m, d.blocks)
  <1>1. PICK list \in Seq(U) : list = d.dest /\ DOMAIN list = 1..Len(list)
    BY LenProperties
  <1>2. PICK failed : failed = {i \in DOMAIN d.dest : d.dest[i].error}
    OBVIOUS
  <1> DEFINE L == {e \in U : ~e.error}
  <1>3. PICK gone \in Seq(U) : gone = Those(d.dest, failed)
    <2>1. \A i \in 1..Len(list) : list[i] \in U
      BY ElementOfSeq
    <2> HIDE DEF U
    <2> QED
      BY <1>1, <2>1, ThoseIn
  <1>4. PICK live \in Seq(L) : live = Those(d.dest, DOMAIN d.dest \ failed)
    <2>1. \A i \in 1..Len(list) : i \in DOMAIN d.dest \ failed => list[i] \in L
      BY <1>1, <1>2, ElementOfSeq
    <2> HIDE DEF U, L
    <2> QED
      BY <1>1, <2>1, ThoseIn
  <1>5. live = <<>> \/ d.recording
    <2>1. CASE d.dest = <<>>
      <3>1. list = <<>> /\ Len(list) = 0
        BY <1>1, <2>1, EmptySeq
      <3>2. \A i \in 1..Len(list) : i \in DOMAIN d.dest \ failed => list[i] \in {}
        BY <3>1
      <3>3. live \in Seq({})
        <4> HIDE DEF U, L
        <4> QED
          BY <1>1, <1>4, <3>2, ThoseIn
      <3>4. Len(live) = 0
        <4>1. Len(live) \in Nat /\ (Len(live) # 0 => 1 \in 1..Len(live))
          BY <3>3, LenProperties
        <4>2. 1 \in 1..Len(live) => live[1] \in {}
          BY <3>3, ElementOfSeq
        <4> QED
          BY <4>1, <4>2
      <3> QED
        BY <3>3, <3>4, EmptySeq
    <2>2. CASE d.dest # <<>>
      BY <2>2 DEF Attended
    <2> QED
      BY <2>1, <2>2
  <1>6. PICK c : c = Close(d, gone, "failed")
    OBVIOUS
  <1>7. c \in DemoType /\ SameFrames(c, d) /\ c.dest = d.dest /\ c.recording = d.recording
    <2>1. \A i \in 1..Len(gone) : gone[i] \in U
      BY ElementOfSeq
    <2>2. \A i \in 1..Len(gone) : Whole(gone[i].out)
      BY <2>1 DEF UpToDates, UpToDate, Sound
    <2>3. gone \in Seq(DestType)
      <3>1. U \subseteq DestType
        BY DEF UpToDates
      <3> HIDE DEF U
      <3> QED
        BY <3>1, SeqMonotonic
    <2>4. "failed" \in Ended /\ "failed" # "stopped"
      BY DEF Ended
    <2> QED
      BY <1>6, <2>2, <2>3, <2>4, CloseKeeps
  <1> DEFINE new == [i \in DOMAIN live |-> FlushDest(live[i], complete, io[live[i].id])]
             Written(e) == complete => (e.type # "stream" /\ ~e.error => e.cache = <<>>)
             V == {e \in U : Written(e)}
  <1>8. /\ new \in Seq(V) /\ Len(new) = Len(live)
    <2>1. DOMAIN live = 1..Len(live) /\ Len(live) \in Nat
      BY LenProperties
    <2>2. ASSUME NEW i \in 1..Len(live) PROVE new[i] \in V
      <3>1. live[i] \in L
        BY ElementOfSeq
      <3>2. PICK e : e = live[i] /\ UpToDate(e, m, d.blocks) /\ ~e.error
        BY <3>1 DEF UpToDates
      <3>3. PICK f : f = FlushDest(e, complete, io[e.id]) /\ f = new[i]
        BY <3>2, <2>1
      <3>4. UpToDate(f, m, d.blocks) /\ Written(f)
        BY <3>2, <3>3, FlushedDest
      <3>5. f \in DestType
        BY <3>4 DEF UpToDate, Sound
      <3> QED
        BY <3>3, <3>4, <3>5 DEF UpToDates
    <2>3. new \in [1..Len(live) -> V]
      <3> HIDE DEF V
      <3> QED
        BY <2>1, <2>2
    <2> HIDE DEF new, V
    <2> QED
      BY <2>1, <2>3, ListMade
  <1>9. new \in Seq(U) /\ new \in Seq(DestType) /\ (\A i \in 1..Len(new) : Written(new[i]))
    <2>1. V \subseteq U /\ V \subseteq DestType
      BY DEF UpToDates
    <2>2. \A i \in 1..Len(new) : new[i] \in V
      <3> HIDE DEF new, V
      <3> QED
        BY <1>8, ElementOfSeq
    <2>3. new \in Seq(U) /\ new \in Seq(DestType)
      <3> HIDE DEF new, V, U
      <3> QED
        BY <1>8, <2>1, SeqMonotonic
    <2> HIDE DEF new
    <2> QED
      BY <2>2, <2>3
  <1>10. PICK fresh : fresh = new
    OBVIOUS
  <1>11. PICK on \in BOOLEAN : on = (d.recording /\ live # <<>>)
    OBVIOUS
  <1>12. r = [[c EXCEPT !.dest = fresh] EXCEPT !.recording = on]
    <2>1. r = [c EXCEPT !.dest = fresh, !.recording = (c.recording /\ live # <<>>)]
      BY <1>2, <1>3, <1>4, <1>6, <1>10, Zenon DEF DestFlush
    <2>2. r = [c EXCEPT !.dest = fresh, !.recording = on]
      BY <2>1, <1>7, <1>11
    <2> QED
      BY <2>2, <1>7 DEF DemoType
  <1>13. live = <<>> <=> fresh = <<>>
    <2>1. Len(fresh) = Len(live) /\ fresh \in Seq(V)
      BY <1>8, <1>10
    <2> HIDE DEF new, V, L
    <2> QED
      BY <2>1, EmptySeq
  <1>14. r \in DemoType /\ r.dest = fresh /\ r.recording = on /\ SameFrames(r, c)
         /\ r.blocks = d.blocks
    <2>1. fresh \in Seq(DestType)
      BY <1>9, <1>10
    <2> QED
      BY <1>7, <1>12, <2>1 DEF DemoType, SameFrames
  <1>15. Attended(r)
    BY <1>5, <1>11, <1>13, <1>14 DEF Attended
  <1>16. SameFrames(r, d)
    BY <1>7, <1>14 DEF SameFrames
  <1> HIDE DEF new
  <1>17. fresh \in Seq(U) /\ \A i \in 1..Len(fresh) : Written(fresh[i])
    BY <1>9, <1>10
  <1>18. r.dest \in Seq(UpToDates(m, r.blocks))
    BY <1>14, <1>17
  <1>19. complete => \A i \in 1..Len(r.dest) :
                  r.dest[i].type # "stream" /\ ~r.dest[i].error => r.dest[i].cache = <<>>
    BY <1>14, <1>17
  <1>20. r.recording => d.recording
    BY <1>11, <1>14
  <1> QED
    BY <1>14, <1>15, <1>16, <1>18, <1>19, <1>20

(* All are flushed and closed, but for the streams if only files are meant. *)
LEMMA DestCloseAllFlushKeeps ==
    ASSUME NEW d \in DemoType, NEW m \in Nat, d.dest \in Seq(UpToDates(m, d.blocks)),
           Attended(d), NEW how \in Ended, NEW mvdonly \in BOOLEAN,
           how = "stopped" => m = d.blocks + 1 /\ mvdonly,
           NEW io, NEW r, r = DestCloseAllFlush(d, how, mvdonly, io)
    PROVE  /\ r \in DemoType /\ SameFrames(r, d)
           /\ r.dest \in Seq(UpToDates(m, r.blocks))
           /\ ~mvdonly => r.dest = <<>>
  <1>1. PICK e : e = DestFlush(d, TRUE, io)
    OBVIOUS
  <1>2. /\ e \in DemoType /\ SameFrames(e, d) /\ e.blocks = d.blocks
        /\ e.dest \in Seq(UpToDates(m, d.blocks))
        /\ \A i \in 1..Len(e.dest) :
              e.dest[i].type # "stream" /\ ~e.dest[i].error => e.dest[i].cache = <<>>
    <2>1. /\ e \in DemoType /\ SameFrames(e, d)
          /\ e.dest \in Seq(UpToDates(m, e.blocks))
          /\ \A i \in 1..Len(e.dest) :
                e.dest[i].type # "stream" /\ ~e.dest[i].error => e.dest[i].cache = <<>>
      BY <1>1, DestFlushKeeps
    <2> QED
      BY <2>1 DEF SameFrames
  <1> DEFINE U == UpToDates(m, d.blocks)
             stay == {i \in DOMAIN e.dest : mvdonly /\ e.dest[i].type = "stream"}
             G == {x \in U : how = "stopped" /\ ~x.error => x.cache = <<>>}
  <1>3. PICK list \in Seq(U) : list = e.dest /\ DOMAIN list = 1..Len(list)
    BY <1>2, LenProperties
  <1>4. PICK gone \in Seq(G) : gone = Those(e.dest, DOMAIN e.dest \ stay)
    <2>1. ASSUME NEW i \in 1..Len(list), i \in DOMAIN e.dest \ stay PROVE list[i] \in G
      <3>1. list[i] \in U
        BY ElementOfSeq
      <3>2. how = "stopped" => e.dest[i].type # "stream"
        BY <1>3, <2>1
      <3> QED
        BY <1>2, <1>3, <3>1, <3>2
    <2> HIDE DEF U, G
    <2> QED
      BY <1>3, <2>1, ThoseIn
  <1>5. PICK left \in Seq(U) : left = Those(e.dest, stay)
    <2>1. \A i \in 1..Len(list) : list[i] \in U
      BY ElementOfSeq
    <2> HIDE DEF U
    <2> QED
      BY <1>3, <2>1, ThoseIn
  <1>6. ~mvdonly => left = <<>>
    <2> SUFFICES ASSUME ~mvdonly PROVE left = <<>>
      OBVIOUS
    <2>1. stay = {}
      OBVIOUS
    <2>2. \A i \in 1..Len(list) : i \in stay => list[i] \in {}
      BY <2>1
    <2>3. left \in Seq({})
      <3> HIDE DEF U, stay
      <3> QED
        BY <1>3, <1>5, <2>2, ThoseIn
    <2>4. Len(left) = 0
      <3>1. Len(left) \in Nat /\ (Len(left) # 0 => 1 \in 1..Len(left))
        BY <2>3, LenProperties
      <3>2. 1 \in 1..Len(left) => left[1] \in {}
        BY <2>3, ElementOfSeq
      <3> QED
        BY <3>1, <3>2
    <2> QED
      BY <2>3, <2>4, EmptySeq
  <1>7. PICK c : c = Close(e, gone, how)
    OBVIOUS
  <1>8. c \in DemoType /\ SameFrames(c, e)
    <2>1. \A i \in 1..Len(gone) : gone[i] \in G
      <3> HIDE DEF G
      <3> QED
        BY ElementOfSeq
    <2>2. gone \in Seq(DestType)
      <3>1. G \subseteq DestType
        BY DEF UpToDates
      <3> HIDE DEF G
      <3> QED
        BY <3>1, SeqMonotonic
    <2>3. ASSUME NEW i \in 1..Len(gone)
          PROVE  /\ Whole(gone[i].out)
                 /\ how = "stopped" /\ ~gone[i].error
                      => gone[i].out # <<>> /\ gone[i].out[Len(gone[i].out)].n = e.blocks
      <3>1. PICK x : x = gone[i] /\ x \in G
        BY <2>1
      <3>2. UpToDate(x, m, d.blocks) /\ x \in DestType
        BY <3>1 DEF UpToDates
      <3>3. Whole(x.out)
        BY <3>2 DEF UpToDate, Sound
      <3>4. ASSUME how = "stopped", ~x.error
            PROVE  x.out # <<>> /\ x.out[Len(x.out)].n = e.blocks
        <4>1. Held(x) = x.out /\ (x.out # <<>> => x.out[Len(x.out)] \in Items)
          BY <3>1, <3>2, <3>4, HeldIs
        <4>2. x.out # <<>> /\ Ready(x.out, m) /\ x.out[Len(x.out)].n <= d.blocks
          BY <4>1, <3>2, <3>4 DEF UpToDate, Sound, Ready
        <4>3. PICK y \in Items : y = x.out[Len(x.out)]
          BY <4>1, <4>2
        <4>4. y.n \in Nat /\ y.n <= d.blocks /\ m <= y.n + 1
          BY <4>2, <4>3 DEF Items, Ready
        <4>5. m = d.blocks + 1 /\ d.blocks \in Nat
          BY <3>4 DEF DemoType
        <4>6. y.n = d.blocks
          BY <4>4, <4>5
        <4> QED
          BY <1>2, <4>2, <4>3, <4>6
      <3> QED
        BY <3>1, <3>3, <3>4
    <2> QED
      BY <1>2, <1>7, <2>2, <2>3, CloseKeeps
  <1>9. r = [c EXCEPT !.dest = left]
    <2>1. c.dest = e.dest
      BY <1>2, <1>7 DEF Close, DemoType
    <2>2. r = [c EXCEPT !.dest = Those(@, stay)]
      BY <1>1, <1>4, <1>7, Zenon DEF DestCloseAllFlush
    <2> QED
      BY <1>5, <2>1, <2>2
  <1>10. left \in Seq(DestType)
    <2>1. U \subseteq DestType
      BY DEF UpToDates
    <2> HIDE DEF U
    <2> QED
      BY <2>1, SeqMonotonic
  <1>11. r \in DemoType /\ r.dest = left /\ SameFrames(r, c)
    BY <1>8, <1>9, <1>10 DEF DemoType, SameFrames
  <1>12. SameFrames(r, d) /\ r.blocks = d.blocks
    BY <1>2, <1>8, <1>11 DEF SameFrames
  <1> QED
    BY <1>6, <1>11, <1>12

(* All recording is stopped, for an error or because it was cancelled. *)
LEMMA StopAndRemoveKeeps ==
    ASSUME NEW d \in DemoType, NEW m \in Nat, d.dest \in Seq(UpToDates(m, d.blocks)),
           Attended(d), NEW mvdonly \in BOOLEAN,
           NEW io, NEW r, r = StopAndRemove(d, mvdonly, io)
    PROVE  /\ r \in DemoType /\ SameFrames(r, d)
           /\ r.dest \in Seq(UpToDates(m, r.blocks)) /\ Attended(r)
           /\ ~mvdonly => r.dest = <<>> /\ ~r.recording
  <1>1. CASE ~d.recording
    <2>1. r = d
      BY <1>1 DEF StopAndRemove
    <2> QED
      BY <1>1, <2>1 DEF SameFrames, Attended
  <1>2. CASE d.recording
    <2>1. PICK e : e = DestCloseAllFlush(d, "removed", mvdonly, io)
      OBVIOUS
    <2>2. /\ e \in DemoType /\ SameFrames(e, d)
          /\ e.dest \in Seq(UpToDates(m, e.blocks))
          /\ ~mvdonly => e.dest = <<>>
      <3>1. "removed" \in Ended /\ "removed" # "stopped"
        BY DEF Ended
      <3> QED
        BY <2>1, <3>1, DestCloseAllFlushKeeps
    <2>3. PICK on \in BOOLEAN : on = (e.dest # <<>>)
      OBVIOUS
    <2>4. r = [e EXCEPT !.recording = on]
      BY <1>2, <2>1, <2>3 DEF StopAndRemove
    <2>5. r \in DemoType /\ SameFrames(r, e) /\ r.dest = e.dest /\ r.recording = on
          /\ r.blocks = e.blocks
      BY <2>2, <2>4 DEF DemoType, SameFrames
    <2>6. SameFrames(r, d)
      BY <2>2, <2>5 DEF SameFrames
    <2>7. r.dest \in Seq(UpToDates(m, r.blocks)) /\ Attended(r)
          /\ (~mvdonly => r.dest = <<>> /\ ~r.recording)
      BY <2>2, <2>3, <2>5 DEF Attended
    <2> QED
      BY <2>5, <2>6, <2>7
  <1> QED
    BY <1>1, <1>2

-----------------------------------------------------------------------------
(* Blocks in a row.                                                        *)
Run(c, m) == \A i \in 1..Len(c) : c[i].n = m + i - 1 /\ c[i].base # Gamestate

LEMMA RunsInARow ==
    ASSUME NEW c \in Seq(Items), NEW e \in Seq(Items), NEW m \in Nat, Run(c, m),
           Run(e, m + Len(c))
    PROVE  /\ c \o e \in Seq(Items) /\ Run(c \o e, m)
           /\ Len(c \o e) = Len(c) + Len(e)
  <1>1. /\ Len(c) \in Nat /\ Len(e) \in Nat
        /\ \A i \in 1..Len(c) + Len(e) :
              (c \o e)[i] = IF i <= Len(c) THEN c[i] ELSE e[i - Len(c)]
    BY LenProperties, ConcatProperties
  <1>2. c \o e \in Seq(Items) /\ Len(c \o e) = Len(c) + Len(e)
    BY ConcatProperties
  <1>3. ASSUME NEW i \in 1..Len(c) + Len(e)
        PROVE  (c \o e)[i].n = m + i - 1 /\ (c \o e)[i].base # Gamestate
    <2>1. CASE i <= Len(c)
      BY <1>1, <2>1 DEF Run
    <2>2. CASE i > Len(c)
      <3>1. PICK j \in 1..Len(e) : j = i - Len(c)
        BY <1>1, <2>2
      <3>2. e[j].n = m + Len(c) + j - 1 /\ e[j].base # Gamestate
        BY DEF Run
      <3>3. m + Len(c) + j - 1 = m + i - 1
        BY <1>1, <3>1
      <3> QED
        BY <1>1, <2>2, <3>1, <3>2, <3>3
    <2> QED
      BY <1>1, <2>1, <2>2
  <1> QED
    BY <1>2, <1>3 DEF Run

LEMMA RunsJoined ==
    ASSUME NEW p \in Seq(Seq(Items)), NEW t \in [Nat -> Nat],
           \A i \in 1..Len(p) : Run(p[i], t[i - 1]) /\ t[i] = t[i - 1] + Len(p[i])
    PROVE  /\ FlattenSeq(p) \in Seq(Items) /\ Run(FlattenSeq(p), t[0])
           /\ t[Len(p)] = t[0] + Len(FlattenSeq(p))
  <1>l. Len(p) \in Nat /\ \A i \in 1..Len(p) : p[i] \in Seq(Items) /\ Len(p[i]) \in Nat
    BY LenProperties, ElementOfSeq
  <1>1. CASE Len(p) = 0
    <2>1. p = <<>>
      BY <1>1, EmptySeq
    <2>2. PICK b \in Nat, j \in Seq(Items) : b = t[0] /\ j = <<>> /\ Len(j) = 0
      BY EmptySeq
    <2>3. Run(j, b) /\ t[Len(p)] = b + Len(j)
      BY <1>1, <2>2 DEF Run
    <2>4. FlattenSeq(p) = j
      BY <2>1, <2>2, JoinedNone
    <2> QED
      BY <2>2, <2>3, <2>4
  <1>2. CASE Len(p) # 0
    <2>1. PICK f :
              /\ f = [i \in 1..Len(p) |-> JoinStep(p, f, i)]
              /\ FlattenSeq(p) = f[Len(p)]
      BY <1>2, JoinedInSteps
    <2>2. \A i \in 1..Len(p) : f[i] = JoinStep(p, f, i)
      BY <2>1
    <2> DEFINE Fine(i) == /\ f[i] \in Seq(Items) /\ Run(f[i], t[0])
                          /\ t[i] = t[0] + Len(f[i])
               Bad == {i \in 1..Len(p) : ~Fine(i)}
    <2>3. Bad = {}
      <3> SUFFICES ASSUME Bad # {} PROVE FALSE
        OBVIOUS
      <3>1. PICK n \in Bad : \A k \in Bad : n <= k
        <4>1. Bad \in SUBSET Nat
          BY <1>l
        <4> HIDE DEF Bad
        <4> QED
          BY <4>1, LeastNumber
      <3>2. n \in 1..Len(p) /\ ~Fine(n) /\ f[n] = JoinStep(p, f, n)
        BY <2>2
      <3>3. CASE n = 1
        <4>1. f[n] = p[n]
          BY <3>2, <3>3 DEF JoinStep
        <4>2. Run(p[n], t[0]) /\ t[n] = t[0] + Len(p[n])
          <5>1. Run(p[n], t[n - 1]) /\ t[n] = t[n - 1] + Len(p[n])
            BY <3>2
          <5>2. n - 1 = 0
            BY <3>3
          <5> QED
            BY <5>1, <5>2
        <4> QED
          BY <3>2, <4>1, <4>2, <1>l
      <3>4. CASE n # 1
        <4> HIDE DEF Bad
        <4>a. n \in 1..Len(p) /\ n # 1 /\ Len(p) \in Nat
          BY <3>2, <3>4, <1>l
        <4>b. n - 1 \in 1..Len(p) /\ ~(n <= n - 1)
          BY <4>a
        <4>c. n - 1 \notin Bad
          BY <3>1, <4>b
        <4> USE DEF Bad
        <4>1. n - 1 \in 1..Len(p) /\ n - 1 \notin Bad
          BY <4>b, <4>c
        <4>2. Fine(n - 1)
          BY <4>1
        <4>3. PICK c \in Seq(Items), e \in Seq(Items) : c = f[n - 1] /\ e = p[n]
          BY <4>2, <3>2, <1>l
        <4>4. PICK b \in Nat : b = t[0]
          OBVIOUS
        <4>5. Run(c, b) /\ Run(e, b + Len(c)) /\ t[n] = b + Len(c) + Len(e)
          BY <3>2, <4>2, <4>3, <4>4
        <4>6. /\ c \o e \in Seq(Items) /\ Run(c \o e, b) /\ Len(c \o e) = Len(c) + Len(e)
          BY <4>5, RunsInARow
        <4>7. f[n] = c \o e
          BY <3>2, <3>4, <4>3 DEF JoinStep
        <4>8. Len(c) \in Nat /\ Len(e) \in Nat
          BY LenProperties
        <4> QED
          BY <3>2, <4>4, <4>5, <4>6, <4>7, <4>8
      <3> QED
        BY <3>3, <3>4
    <2>4. Len(p) \in 1..Len(p)
      BY <1>2, <1>l
    <2>5. Fine(Len(p))
      BY <2>3, <2>4
    <2> QED
      BY <2>1, <2>5
  <1> QED
    BY <1>1, <1>2

-----------------------------------------------------------------------------
(* A block goes to all destinations. *)
Attends(d, m, r) ==
    /\ r \in DemoType /\ SameFrames(r, d)
    /\ r.dest \in Seq(UpToDates(m, d.blocks)) /\ Attended(r)

LEMMA DemoWriteKeeps ==
    ASSUME NEW d \in DemoType, NEW m \in Nat, NEW c, Attends(d, m, c), m <= d.blocks,
           NEW x \in Items, x.n = m, x.base # Gamestate, NEW io,
           NEW r, r = DemoWrite(c, x, Dest, io)
    PROVE  Attends(d, m + 1, r)
  <1> DEFINE U == UpToDates(m, d.blocks)
             W == UpToDates(m + 1, d.blocks)
  <1>0. d.blocks \in Nat
    BY DEF DemoType
  <1>1. PICK list \in Seq(U) : list = c.dest /\ DOMAIN list = 1..Len(list) /\ Len(list) \in Nat
    BY LenProperties DEF Attends
  <1> DEFINE new == [i \in DOMAIN list |-> IF list[i].id \in Dest
                                          THEN DemoWriteDest(list[i], x, io[list[i].id])
                                          ELSE list[i]]
  <1>2. ASSUME NEW i \in 1..Len(list) PROVE new[i] \in W
    <2>1. PICK e : e = list[i] /\ e \in DestType /\ UpToDate(e, m, d.blocks)
      BY ElementOfSeq DEF UpToDates
    <2>2. PICK f : f = DemoWriteDest(e, x, io[e.id])
      OBVIOUS
    <2>3. UpToDate(f, m + 1, d.blocks)
      BY <1>0, <2>1, <2>2, BlockWritten
    <2>4. f \in DestType
      BY <2>3 DEF UpToDate, Sound
    <2>5. new[i] = f
      BY <1>1, <2>1, <2>2 DEF DestType
    <2> QED
      BY <2>3, <2>4, <2>5 DEF UpToDates
  <1>3. new \in Seq(W) /\ Len(new) = Len(list)
    <2>1. new \in [1..Len(list) -> W]
      <3> HIDE DEF W
      <3> QED
        BY <1>1, <1>2
    <2> HIDE DEF W, new
    <2> QED
      BY <1>1, <2>1, ListMade
  <1>4. PICK fresh : fresh = new
    OBVIOUS
  <1>5. r = [c EXCEPT !.dest = fresh]
    BY <1>1, <1>4 DEF DemoWrite, Attends, DemoType
  <1>6. fresh \in Seq(W) /\ fresh \in Seq(DestType)
    <2>1. W \subseteq DestType
      BY DEF UpToDates
    <2> HIDE DEF W, new
    <2> QED
      BY <1>3, <1>4, <2>1, SeqMonotonic
  <1>7. fresh = <<>> => c.dest = <<>>
    <2> HIDE DEF U, W, new
    <2> QED
      BY <1>1, <1>3, <1>4, EmptySeq
  <1>8. /\ r \in DemoType /\ r.dest = fresh /\ r.recording = c.recording /\ SameFrames(r, c)
    BY <1>5, <1>6 DEF Attends, DemoType, SameFrames
  <1>9. fresh # <<>> => c.dest # <<>>
    <2> HIDE DEF U, W, new
    <2> QED
      BY <1>1, <1>3, <1>4, EmptySeq
  <1> HIDE DEF new
  <1> QED
    BY <1>6, <1>8, <1>9 DEF Attends, SameFrames, Attended

(* Block after block goes to all destinations. *)
WriteStep(d, items, io, f, i) ==
    IF i = 0 THEN d ELSE DemoWrite(f[i - 1], items[i], Dest, io)

WritesTo(d, items, io, n) == \E f : f = [i \in 0..n |-> WriteStep(d, items, io, f, i)]

LEMMA WrittenUpTo ==
    ASSUME NEW d, NEW items, NEW N \in Nat, NEW io
    PROVE  \A n \in 0..N : WritesTo(d, items, io, n)
  <1> USE DEF WritesTo
  <1> DEFINE Bad == {n \in 0..N : ~\E f : f = [i \in 0..n |-> WriteStep(d, items, io, f, i)]}
  <1> SUFFICES ASSUME Bad # {} PROVE FALSE
    OBVIOUS
  <1>a. Bad \in SUBSET Nat
    OBVIOUS
  <1>1. PICK n \in Bad : \A k \in Bad : n <= k
    <2> HIDE DEF Bad
    <2> QED
      BY <1>a, LeastNumber
  <1>2. n \in 0..N
    OBVIOUS
  <1>3. CASE n = 0
    <2> DEFINE g == [i \in 0..n |-> d]
    <2>1. g = [i \in 0..n |-> WriteStep(d, items, io, g, i)]
      BY <1>3 DEF WriteStep
    <2> QED
      BY <2>1
  <1>4. CASE n # 0
    <2>1. n - 1 \in 0..N /\ n - 1 \notin Bad
      <3> HIDE DEF Bad
      <3> QED
        BY <1>1, <1>2, <1>4
    <2>2. PICK f : f = [i \in 0..n - 1 |-> WriteStep(d, items, io, f, i)]
      BY <2>1
    <2> DEFINE g == [i \in 0..n |-> IF i < n THEN f[i] ELSE WriteStep(d, items, io, f, n)]
    <2>3. \A i \in 0..n : g[i] = WriteStep(d, items, io, g, i)
      <3> TAKE i \in 0..n
      <3>1. i # 0 => i - 1 \in 0..n - 1 /\ g[i - 1] = f[i - 1]
        BY <1>2
      <3>2. WriteStep(d, items, io, g, i) = WriteStep(d, items, io, f, i)
        BY <3>1 DEF WriteStep
      <3>3. i < n => f[i] = WriteStep(d, items, io, f, i)
        <4>1. i < n => i \in 0..n - 1
          BY <1>2
        <4> QED
          BY <2>2, <4>1
      <3> QED
        BY <3>2, <3>3, <1>2
    <2>4. g = [i \in 0..n |-> WriteStep(d, items, io, g, i)]
      BY <2>3
    <2> QED
      BY <2>4
  <1> QED
    BY <1>3, <1>4

LEMMA DemoWriteAllKeeps ==
    ASSUME NEW d \in DemoType, NEW m \in Nat, d.dest \in Seq(UpToDates(m, d.blocks)),
           Attended(d), NEW items \in Seq(Items), Run(items, m),
           m + Len(items) <= d.blocks + 1, NEW io,
           NEW r, r = DemoWriteAll(d, items, io)
    PROVE  Attends(d, m + Len(items), r)
  <1>l. Len(items) \in Nat /\ d.blocks \in Nat
    BY LenProperties DEF DemoType
  <1> DEFINE Def(f) == f = [i \in 0..Len(items) |->
                          IF i = 0 THEN d ELSE DemoWrite(f[i - 1], items[i], Dest, io)]
             F == CHOOSE f : Def(f)
  <1>1. r = F[Len(items)]
    BY DEF DemoWriteAll
  <1>2. \E f : f = [i \in 0..Len(items) |-> WriteStep(d, items, io, f, i)]
    <2>1. PICK N \in Nat : N = Len(items) /\ N \in 0..N
      BY <1>l
    <2>2. WritesTo(d, items, io, N)
      BY <2>1, WrittenUpTo
    <2> QED
      BY <2>1, <2>2, Zenon DEF WritesTo
  <1>3. \E f : Def(f)
    BY <1>2 DEF WriteStep
  <1>4. Def(F)
    <2> HIDE DEF Def
    <2> QED
      BY <1>3, Zenon
  <1>5. PICK g : g = F /\ Def(g)
    BY <1>4, Zenon
  <1> HIDE DEF F
  <1>6. \A i \in 0..Len(items) : g[i] = WriteStep(d, items, io, g, i)
    BY <1>5 DEF WriteStep
  <1> HIDE DEF Def
  <1> DEFINE Bad == {i \in 0..Len(items) : ~Attends(d, m + i, g[i])}
  <1>7. Bad = {}
    <2> SUFFICES ASSUME Bad # {} PROVE FALSE
      OBVIOUS
    <2>1. PICK n \in Bad : \A k \in Bad : n <= k
      <3>1. Bad \in SUBSET Nat
        BY <1>l
      <3> HIDE DEF Bad
      <3> QED
        BY <3>1, LeastNumber
    <2>2. n \in 0..Len(items) /\ ~Attends(d, m + n, g[n]) /\ g[n] = WriteStep(d, items, io, g, n)
      BY <1>6
    <2>3. CASE n = 0
      <3>1. g[n] = d /\ m + n = m
        BY <2>2, <2>3 DEF WriteStep
      <3>2. Attends(d, m, d)
        BY DEF Attends, SameFrames
      <3> QED
        BY <2>2, <3>1, <3>2
    <2>4. CASE n # 0
      <3>1. n - 1 \in 0..Len(items) /\ n - 1 \notin Bad /\ n \in 1..Len(items)
        <4> HIDE DEF Bad
        <4> QED
          BY <2>1, <2>2, <2>4, <1>l
      <3>2. PICK k, c, x : k \in Nat /\ k = m + (n - 1) /\ c = g[n - 1] /\ x = items[n]
        BY <3>1
      <3>3. Attends(d, k, c)
        BY <3>1, <3>2
      <3>4. x \in Items /\ x.n = k /\ x.base # Gamestate
        <4>1. x \in Items
          BY <3>1, <3>2, ElementOfSeq
        <4>2. x.n = m + n - 1 /\ x.base # Gamestate
          BY <3>1, <3>2 DEF Run
        <4> QED
          BY <3>1, <3>2, <4>1, <4>2
      <3>5. k <= d.blocks /\ k + 1 = m + n
        BY <1>l, <3>1, <3>2
      <3>6. g[n] = DemoWrite(c, x, Dest, io)
        BY <2>2, <2>4, <3>2 DEF WriteStep
      <3>7. Attends(d, k + 1, g[n])
        BY <3>2, <3>3, <3>4, <3>5, <3>6, DemoWriteKeeps
      <3> QED
        BY <2>2, <3>5, <3>7
    <2> QED
      BY <2>3, <2>4
  <1>8. Len(items) \in 0..Len(items)
    BY <1>l
  <1> QED
    BY <1>1, <1>5, <1>7, <1>8

-----------------------------------------------------------------------------
(* Places of the ring. *)
LEMMA SamePlace ==
    ASSUME NEW K \in Nat \ {0}, NEW a \in Nat, NEW b \in Nat, a < b, a % K = b % K
    PROVE  b - a >= K
  <1>1. PICK r \in 0..(K - 1) : r = a % K /\ r = b % K
    OBVIOUS
  <1>2. PICK p \in Nat : a = K * p + r
    <2>1. a = K * (a \div K) + (a % K) /\ a \div K \in Nat
      OBVIOUS
    <2> QED
      BY <1>1, <2>1
  <1>3. PICK q \in Nat : b = K * q + r
    <2>1. b = K * (b \div K) + (b % K) /\ b \div K \in Nat
      OBVIOUS
    <2> QED
      BY <1>1, <2>1
  <1>4. p < q
    BY <1>2, <1>3
  <1>5. K * q - K * p >= K
    BY <1>4
  <1> QED
    BY <1>2, <1>3, <1>5

LEMMA PlaceOf ==
    ASSUME NEW k \in Nat
    PROVE  k % Backup \in Places /\ Backup \in Nat \ {0}
  BY RecorderAssumption DEF Places

LEMMA OwnPlace ==
    ASSUME NEW a \in Nat, NEW b \in Nat, a # b, a - b <= Lag + 1, b - a <= Lag + 1
    PROVE  a % Backup # b % Backup
  <1>1. Backup \in Nat \ {0} /\ Lag \in Nat /\ Lag + 2 <= Backup
    BY RecorderAssumption
  <1>2. CASE a < b
    <2>1. ~(b - a >= Backup)
      BY <1>1
    <2> QED
      BY <1>1, <1>2, <2>1, SamePlace
  <1>3. CASE b < a
    <2>1. ~(a - b >= Backup)
      BY <1>1
    <2> QED
      BY <1>1, <1>3, <2>1, SamePlace
  <1> QED
    BY <1>2, <1>3

LEMMA LeastOf ==
    ASSUME NEW S \in SUBSET Nat, S # {}
    PROVE  Min(S) \in S /\ \A y \in S : Min(S) <= y
  BY LeastNumber DEF Min

LEMMA LeastOfTwo ==
    ASSUME NEW a \in Nat, NEW b \in Nat
    PROVE  Min({a, b}) \in Nat /\ Min({a, b}) = IF a <= b THEN a ELSE b
  <1>1. PICK x : x = Min({a, b})
    OBVIOUS
  <1>2. x \in {a, b} /\ x <= a /\ x <= b
    BY <1>1, LeastOf
  <1> QED
    BY <1>1, <1>2

-----------------------------------------------------------------------------
(* The frames hold the blocks from m on, in the order they were written:   *)
(* t[k] is the first block of frame k.                                     *)
FrameFits(d, t, k) ==
    ~d.frames[k % Backup].overflowed
        => /\ Run(d.frames[k % Backup].blocks, t[k])
           /\ t[k + 1] = t[k] + Len(d.frames[k % Backup].blocks)
Started(d, t, m) ==
    /\ t \in [Nat -> Nat]
    /\ t[d.lastwritten] = m
    /\ t[d.parsecount + 1] = d.blocks + 1
    /\ \A k \in d.lastwritten..d.parsecount + 1 : t[k] <= d.blocks + 1
    /\ \A k \in d.lastwritten..d.parsecount : FrameFits(d, t, k)
Ring(d) ==
    /\ d.lastwritten <= d.parsecount
    /\ d.parsecount - d.lastwritten <= Lag + 1
    /\ \A s \in Places :
          (\A k \in d.lastwritten..d.parsecount : k % Backup # s) => d.frames[s] = EmptyFrame
FramesInv(d, m) == Ring(d) /\ \E t : Started(d, t, m)

(* The recorder with block m the next for its destinations. *)
Good(d, m) ==
    /\ d \in DemoType /\ m \in Nat
    /\ d.dest \in Seq(UpToDates(m, d.blocks)) /\ Attended(d)
    /\ FramesInv(d, m)

LEMMA FramesStay ==
    ASSUME NEW d, NEW r, NEW m, SameFrames(r, d), FramesInv(d, m)
    PROVE  FramesInv(r, m)
  BY DEF SameFrames, FramesInv, Ring, Started, FrameFits

LEMMA FrameAt ==
    ASSUME NEW d \in DemoType, NEW k \in Nat
    PROVE  /\ d.frames[k % Backup] \in Frame /\ d.frames[k % Backup].blocks \in Seq(Items)
           /\ Len(d.frames[k % Backup].blocks) \in Nat
  <1>1. PICK f \in Frame : f = d.frames[k % Backup]
    BY PlaceOf DEF DemoType
  <1>2. f.blocks \in Seq(Items)
    BY DEF Frame
  <1> QED
    BY <1>1, <1>2, LenProperties

LEMMA EmptyFrameIs == EmptyFrame \in Frame /\ EmptyFrame.blocks = <<>> /\ ~EmptyFrame.overflowed
  <1>1. <<>> \in Seq(Items)
    BY EmptySeq
  <1> QED
    BY <1>1 DEF EmptyFrame, Frame

LEMMA InTurn ==
    ASSUME NEW w \in Nat, NEW c \in Nat, NEW N \in Nat, w + N <= c + 1, NEW i \in 1..N
    PROVE  \E k \in Nat :
              k = w + i - 1 /\ k \in w..(w + N) - 1 /\ k \in w..c /\ k + 1 = w + i
  OBVIOUS

FrameBlocks(d, end) ==
    [i \in 1..(end - d.lastwritten) |-> d.frames[(d.lastwritten + i - 1) % Backup].blocks]

(* The blocks of frames in a row are in a row. *)
LEMMA FramesJoined ==
    ASSUME NEW d \in DemoType, NEW m \in Nat, NEW t, Started(d, t, m),
           d.lastwritten <= d.parsecount,
           NEW end \in d.lastwritten..d.parsecount + 1,
           \A k \in d.lastwritten..end - 1 : ~d.frames[k % Backup].overflowed,
           NEW items, items = FlattenSeq(FrameBlocks(d, end))
    PROVE  items \in Seq(Items) /\ Run(items, m) /\ t[end] = m + Len(items)
  <1>1. PICK lw \in Nat, pc \in Nat : lw = d.lastwritten /\ pc = d.parsecount /\ lw <= pc
    BY DEF DemoType
  <1>2. PICK N \in Nat : N = end - lw /\ end = lw + N /\ lw + N <= pc + 1
    BY <1>1
  <1> DEFINE p == [i \in 1..N |-> d.frames[(lw + i - 1) % Backup].blocks]
             u == [i \in Nat |-> t[lw + i]]
  <1>3. t \in [Nat -> Nat]
    BY DEF Started
  <1>4. u \in [Nat -> Nat]
    <2>1. ASSUME NEW i \in Nat PROVE t[lw + i] \in Nat
      <3>1. lw + i \in Nat
        BY <1>1
      <3> QED
        BY <1>3, <3>1
    <2> QED
      BY <2>1
  <1>5. p \in Seq(Seq(Items)) /\ Len(p) = N
    <2>1. ASSUME NEW i \in 1..N PROVE p[i] \in Seq(Items)
      <3>1. lw + i - 1 \in Nat
        BY <1>1
      <3> QED
        BY <3>1, FrameAt
    <2>2. p \in [1..N -> Seq(Items)]
      BY <2>1
    <2> HIDE DEF p
    <2> QED
      BY <2>2, ListMade
  <1>6. ASSUME NEW i \in 1..N
        PROVE  Run(p[i], u[i - 1]) /\ u[i] = u[i - 1] + Len(p[i])
    <2>1. PICK k \in Nat :
              k = lw + i - 1 /\ k \in lw..end - 1 /\ k \in lw..pc /\ k + 1 = lw + i
      <3>1. \E k \in Nat :
               k = lw + i - 1 /\ k \in lw..(lw + N) - 1 /\ k \in lw..pc /\ k + 1 = lw + i
        BY <1>2, InTurn
      <3> QED
        BY <1>2, <3>1
    <2>2. FrameFits(d, t, k) /\ ~d.frames[k % Backup].overflowed
      BY <1>1, <2>1 DEF Started
    <2>3. Run(d.frames[k % Backup].blocks, t[k])
          /\ t[k + 1] = t[k] + Len(d.frames[k % Backup].blocks)
      BY <2>2 DEF FrameFits
    <2>4. i - 1 \in Nat /\ i \in Nat /\ lw + (i - 1) = k
      BY <2>1
    <2>5. u[i - 1] = t[k] /\ u[i] = t[k + 1] /\ p[i] = d.frames[k % Backup].blocks
      BY <2>1, <2>4
    <2> QED
      BY <2>3, <2>5
  <1>7. u[0] = m /\ u[N] = t[end]
    <2>1. t[lw] = m
      BY <1>1 DEF Started
    <2>2. lw + 0 = lw
      BY <1>1
    <2> QED
      BY <1>2, <2>1, <2>2
  <1>8. items = FlattenSeq(p)
    BY <1>1, <1>2 DEF FrameBlocks
  <1> HIDE DEF p, u
  <1>9. /\ FlattenSeq(p) \in Seq(Items) /\ Run(FlattenSeq(p), u[0])
        /\ u[Len(p)] = u[0] + Len(FlattenSeq(p))
    BY <1>4, <1>5, <1>6, RunsJoined
  <1> QED
    BY <1>5, <1>7, <1>8, <1>9

(* SV_MVDWritePacketsEx: what is left are the frames from end on, and the  *)
(* last one even when it has been written.                                 *)
FramesLeft(d, r, end) ==
    /\ r.blocks = d.blocks /\ r.parsecount = d.parsecount
    /\ r.lastwritten = (IF end <= d.parsecount THEN end ELSE d.parsecount)
    /\ \A s \in Places :
          r.frames[s] = IF \E k \in d.lastwritten..end - 1 : s = k % Backup
                        THEN EmptyFrame ELSE d.frames[s]

LEMMA FramesLeftGood ==
    ASSUME NEW d \in DemoType, Ring(d), NEW m \in Nat, NEW t, Started(d, t, m),
           NEW end \in d.lastwritten..d.parsecount + 1,
           NEW r \in DemoType, FramesLeft(d, r, end)
    PROVE  FramesInv(r, t[end])
  <1>1. PICK lw \in Nat, pc \in Nat, b \in Nat, e \in Nat, q \in Nat :
            /\ lw = d.lastwritten /\ pc = d.parsecount /\ b = d.blocks /\ e = end
            /\ q = r.lastwritten
    <2>1. d.lastwritten \in Nat /\ d.parsecount \in Nat /\ d.blocks \in Nat /\ r.lastwritten \in Nat
      BY DEF DemoType
    <2>2. end \in Nat
      BY <2>1
    <2> QED
      BY <2>1, <2>2
  <1>2. /\ lw <= pc /\ pc - lw <= Lag + 1 /\ lw <= e /\ e <= pc + 1
        /\ r.parsecount = pc /\ r.blocks = b
        /\ q = IF e <= pc THEN e ELSE pc
    BY <1>1 DEF Ring, FramesLeft
  <1>3. lw <= q /\ q <= pc /\ pc - q <= Lag + 1
    <2>1. Lag \in Nat
      BY RecorderAssumption
    <2> QED
      BY <1>2, <2>1
  <1>4. Ring(r)
    <2>1. ASSUME NEW s \in Places, \A k \in q..pc : k % Backup # s
          PROVE  r.frames[s] = EmptyFrame
      <3>1. CASE \E k \in lw..e - 1 : s = k % Backup
        BY <1>1, <3>1 DEF FramesLeft
      <3>2. CASE ~\E k \in lw..e - 1 : s = k % Backup
        <4>1. ASSUME NEW k \in lw..pc PROVE k % Backup # s
          <5>1. k \in lw..e - 1 \/ k \in q..pc
            BY <1>2, <4>1
          <5> QED
            BY <2>1, <3>2, <5>1
        <4>2. d.frames[s] = EmptyFrame
          BY <1>1, <4>1 DEF Ring
        <4> QED
          BY <1>1, <3>2, <4>2 DEF FramesLeft
      <3> QED
        BY <3>1, <3>2
    <2> QED
      BY <1>1, <1>2, <1>3, <2>1 DEF Ring
  <1>5. /\ t \in [Nat -> Nat] /\ t[lw] = m /\ t[pc + 1] = b + 1
        /\ \A k \in lw..pc + 1 : t[k] <= b + 1
        /\ \A k \in lw..pc : FrameFits(d, t, k)
    BY <1>1 DEF Started
  <1>6. CASE e <= pc
    <2>1. q = e
      BY <1>2, <1>6
    <2>2. ASSUME NEW k \in q..pc PROVE FrameFits(r, t, k)
      <3>1. PICK kk \in Nat : kk = k /\ kk \in lw..pc
        BY <1>2, <2>1
      <3>2. ASSUME NEW j \in lw..e - 1 PROVE kk % Backup # j % Backup
        <4>1. /\ j \in Nat /\ kk # j /\ kk - j <= Lag + 1 /\ j - kk <= Lag + 1
          <5>1. Lag \in Nat
            BY RecorderAssumption
          <5>2. kk >= e /\ kk <= pc
            BY <2>1, <2>2, <3>1
          <5> QED
            BY <1>2, <5>1, <5>2
        <4> QED
          BY <4>1, OwnPlace
      <3>3. kk % Backup \in Places
        BY PlaceOf
      <3>4. r.frames[kk % Backup] = d.frames[kk % Backup]
        <4>1. PICK s \in Places : s = kk % Backup
          BY <3>3
        <4>2. ~\E j \in d.lastwritten..end - 1 : s = j % Backup
          BY <1>1, <3>2, <4>1
        <4> QED
          BY <4>1, <4>2 DEF FramesLeft
      <3>5. FrameFits(d, t, kk)
        BY <1>5, <3>1
      <3> QED
        BY <3>1, <3>4, <3>5 DEF FrameFits
    <2>3. Started(r, t, t[end])
      <3>1. \A k \in q..pc + 1 : t[k] <= b + 1
        BY <1>2, <1>5, <2>1
      <3> QED
        BY <1>1, <1>2, <1>5, <2>1, <2>2, <3>1 DEF Started
    <2> QED
      BY <1>4, <2>3 DEF FramesInv
  <1>7. CASE e > pc
    <2>1. e = pc + 1 /\ q = pc /\ t[e] = b + 1
      BY <1>2, <1>5, <1>7
    <2>2. PICK u : u = [t EXCEPT ![pc] = b + 1]
      OBVIOUS
    <2>3. u \in [Nat -> Nat] /\ u[pc] = b + 1 /\ u[pc + 1] = b + 1
      <3>1. pc + 1 \in Nat /\ pc + 1 # pc
        OBVIOUS
      <3> QED
        BY <1>5, <2>2, <3>1
    <2>4. r.frames[pc % Backup] = EmptyFrame
      <3>1. PICK s \in Places : s = pc % Backup
        BY PlaceOf
      <3>2. pc \in d.lastwritten..end - 1
        BY <1>1, <1>2, <2>1
      <3> QED
        BY <3>1, <3>2 DEF FramesLeft
    <2>5. FrameFits(r, u, pc)
      <3>1. Run(<<>>, u[pc]) /\ Len(<<>>) = 0
        BY DEF Run
      <3>2. u[pc + 1] = u[pc] + 0
        BY <2>3
      <3> QED
        BY <2>4, <3>1, <3>2, EmptyFrameIs DEF FrameFits
    <2>6. Started(r, u, b + 1)
      <3>1. \A k \in q..pc + 1 : k = pc \/ k = pc + 1
        BY <2>1
      <3>2. \A k \in q..pc : k = pc
        BY <2>1
      <3>3. \A k \in q..pc + 1 : u[k] <= b + 1
        BY <2>3, <3>1
      <3>4. \A k \in q..pc : FrameFits(r, u, k)
        BY <2>5, <3>2
      <3> QED
        BY <1>1, <1>2, <2>1, <2>3, <3>3, <3>4 DEF Started
    <2> QED
      BY <1>1, <1>4, <2>1, <2>6 DEF FramesInv
  <1> QED
    BY <1>6, <1>7

LEMMA WritePacketsExKeeps ==
    ASSUME NEW d, NEW m, Good(d, m), NEW num \in Nat \ {0}, NEW io,
           NEW w, w = WritePacketsEx(d, num, io)
    PROVE  \E mm \in Nat :
              /\ Good(w.demo, mm)
              /\ w.demo.blocks = d.blocks /\ w.demo.parsecount = d.parsecount
              /\ w.ok /\ num > d.parsecount - d.lastwritten => mm = d.blocks + 1
              /\ w.ok /\ num = 1 /\ d.parsecount > d.lastwritten
                    => w.demo.lastwritten = d.lastwritten + 1
  <1>1. PICK lw \in Nat, pc \in Nat, b \in Nat :
            /\ lw = d.lastwritten /\ pc = d.parsecount /\ b = d.blocks
            /\ d \in DemoType /\ m \in Nat
    BY DEF DemoType, Good
  <1>2. lw <= pc
    BY <1>1 DEF Good, FramesInv, Ring
  <1>3. PICK t : Started(d, t, m)
    BY DEF Good, FramesInv
  <1>4. PICK last \in Nat : /\ last = Min({lw + num - 1, pc})
                           /\ last = IF lw + num - 1 <= pc THEN lw + num - 1 ELSE pc
    <2>1. lw + num - 1 \in Nat
      OBVIOUS
    <2> QED
      BY <2>1, LeastOfTwo
  <1> DEFINE bad == {k \in lw..last : d.frames[k % Backup].overflowed}
             end == IF bad = {} THEN last + 1 ELSE Min(bad)
  <1>5. /\ end \in lw..pc + 1
        /\ \A k \in lw..end - 1 : ~d.frames[k % Backup].overflowed
        /\ bad # {} => end <= pc
    <2>1. bad \in SUBSET Nat
      OBVIOUS
    <2>2. lw <= last /\ last <= pc
      BY <1>2, <1>4
    <2>3. CASE bad = {}
      <3>1. \A k \in lw..last : ~d.frames[k % Backup].overflowed
        BY <2>3
      <3>2. end = last + 1
        BY <2>3
      <3>3. (last + 1) - 1 = last /\ last + 1 \in lw..pc + 1
        BY <2>2
      <3> HIDE DEF end, bad
      <3> QED
        BY <2>3, <3>1, <3>2, <3>3
    <2>4. CASE bad # {}
      <3>1. Min(bad) \in bad /\ \A y \in bad : Min(bad) <= y
        <4> HIDE DEF bad
        <4> QED
          BY <2>1, <2>4, LeastOf
      <3>2. PICK x \in Nat : x = Min(bad) /\ x \in bad /\ \A y \in bad : x <= y
        <4> HIDE DEF bad
        <4> QED
          BY <2>1, <3>1
      <3>3. end = x
        BY <2>4, <3>2
      <3>4. x \in lw..last
        BY <3>2
      <3>5. ASSUME NEW k \in lw..x - 1 PROVE ~d.frames[k % Backup].overflowed
        <4>1. k \in lw..last /\ ~(x <= k)
          BY <3>4
        <4>2. k \notin bad
          <5> HIDE DEF bad
          <5> QED
            BY <3>2, <4>1
        <4> QED
          BY <4>1, <4>2
      <3>6. x \in lw..pc + 1 /\ x <= pc
        BY <2>2, <3>4
      <3> HIDE DEF end, bad
      <3> QED
        BY <3>3, <3>5, <3>6
    <2> QED
      BY <2>3, <2>4
  <1> DEFINE items == FlattenSeq([i \in 1..(end - lw) |->
                                d.frames[(lw + i - 1) % Backup].blocks])
  <1>6. PICK e \in Nat : e = end /\ e \in lw..pc + 1 /\ (bad # {} => e <= pc)
    <2> HIDE DEF end, bad
    <2> QED
      BY <1>5
  <1>7. items \in Seq(Items) /\ Run(items, m) /\ t[e] = m + Len(items)
    <2>1. PICK its : its = items
      OBVIOUS
    <2>2. its = FlattenSeq(FrameBlocks(d, e))
      BY <1>1, <1>6, <2>1 DEF FrameBlocks
    <2>3. \A k \in d.lastwritten..e - 1 : ~d.frames[k % Backup].overflowed
      <3> HIDE DEF end, bad
      <3> QED
        BY <1>1, <1>5, <1>6
    <2>4. e \in d.lastwritten..d.parsecount + 1 /\ d.lastwritten <= d.parsecount
      BY <1>1, <1>2, <1>6
    <2> HIDE DEF end, bad, items
    <2>5. its \in Seq(Items) /\ Run(its, m) /\ t[e] = m + Len(its)
      <3>1. d \in DemoType /\ m \in Nat
        BY <1>1
      <3>2. \A x : Started(d, x, m) =>
                FlattenSeq(FrameBlocks(d, e)) \in Seq(Items)
                /\ Run(FlattenSeq(FrameBlocks(d, e)), m)
                /\ x[e] = m + Len(FlattenSeq(FrameBlocks(d, e)))
        BY <2>3, <2>4, <3>1, FramesJoined
      <3> QED
        BY <1>3, <2>2, <3>2, Zenon
    <2> QED
      BY <2>1, <2>5
  <1>8. PICK its \in Seq(Items) : its = items /\ Run(its, m) /\ t[e] = m + Len(its)
    BY <1>7
  <1>9. t[e] \in Nat /\ t[e] <= b + 1 /\ (e = pc + 1 => t[e] = b + 1)
    BY <1>1, <1>3, <1>6 DEF Started
  <1>10. PICK d1 : d1 = DemoWriteAll(d, its, io)
    OBVIOUS
  <1>11. Attends(d, t[e], d1)
    <2>1. d.dest \in Seq(UpToDates(m, d.blocks)) /\ Attended(d)
      BY DEF Good
    <2>2. m + Len(its) <= d.blocks + 1
      BY <1>1, <1>8, <1>9
    <2>3. Attends(d, m + Len(its), d1)
      BY <1>1, <1>8, <1>10, <2>1, <2>2, DemoWriteAllKeeps
    <2> QED
      BY <1>8, <2>3
  <1>12. PICK q \in Nat : /\ q = (IF bad = {} THEN Min({end, pc}) ELSE end)
                         /\ q = (IF e <= pc THEN e ELSE pc)
    <2>1. Min({e, pc}) = IF e <= pc THEN e ELSE pc
      BY LeastOfTwo
    <2>2. CASE bad = {}
      <3>1. Min({end, pc}) = IF e <= pc THEN e ELSE pc
        BY <1>6, <2>1
      <3> HIDE DEF end, bad
      <3> QED
        BY <2>2, <3>1
    <2>3. CASE bad # {}
      <3> HIDE DEF end, bad
      <3> QED
        BY <1>6, <2>3
    <2> QED
      BY <2>2, <2>3
  <1>13. /\ d1 \in DemoType /\ SameFrames(d1, d) /\ Attended(d1)
         /\ d1.dest \in Seq(UpToDates(t[e], b))
    BY <1>1, <1>11 DEF Attends
  <1> DEFINE fr == [s \in DOMAIN d1.frames |->
                       IF s \in {k % Backup : k \in lw..end - 1} THEN EmptyFrame ELSE d1.frames[s]]
  <1>14. PICK f : f = fr
    OBVIOUS
  <1>15. /\ f \in [Places -> Frame]
         /\ \A s \in Places :
               f[s] = IF \E k \in lw..e - 1 : s = k % Backup THEN EmptyFrame ELSE d.frames[s]
    <2>1. d1.frames \in [Places -> Frame] /\ d1.frames = d.frames
      BY <1>13 DEF DemoType, SameFrames
    <2>2. f = [s \in Places |-> IF \E k \in lw..e - 1 : s = k % Backup
                                THEN EmptyFrame ELSE d.frames[s]]
      <3> HIDE DEF end, bad
      <3> QED
        BY <1>6, <1>14, <2>1
    <2> QED
      BY <2>1, <2>2, EmptyFrameIs
  <1>16. PICK g : g = [[d1 EXCEPT !.frames = f] EXCEPT !.lastwritten = q]
    OBVIOUS
  <1>17. w.demo = g /\ w.ok = (bad = {})
    <2> DEFINE last0 == Min({d.lastwritten + num - 1, d.parsecount})
               bad0 == {k \in d.lastwritten..last0 : d.frames[k % Backup].overflowed}
               end0 == IF bad0 = {} THEN last0 + 1 ELSE Min(bad0)
               items0 == FlattenSeq([i \in 1..(end0 - d.lastwritten) |->
                                d.frames[(d.lastwritten + i - 1) % Backup].blocks])
               dd == DemoWriteAll(d, items0, io)
    <2>1. w = [ok |-> bad0 = {},
               demo |-> [dd EXCEPT
                  !.frames = [s \in DOMAIN @ |->
                      IF s \in {k % Backup : k \in d.lastwritten..end0 - 1}
                      THEN EmptyFrame ELSE @[s]],
                  !.lastwritten = IF bad0 = {} THEN Min({end0, d.parsecount}) ELSE end0]]
      BY Zenon DEF WritePacketsEx
    <2>3. last0 = last
      BY <1>1, <1>4
    <2> HIDE DEF last0
    <2>4. bad0 = bad
      BY <1>1, <2>3
    <2> HIDE DEF bad0, bad
    <2>5. end0 = end
      BY <2>3, <2>4
    <2> HIDE DEF end0, end
    <2>6. items0 = items
      BY <1>1, <2>5
    <2> HIDE DEF items0, items
    <2>7. dd = d1
      BY <1>8, <1>10, <2>6
    <2> HIDE DEF dd
    <2>8. w = [ok |-> bad = {},
               demo |-> [d1 EXCEPT
                  !.frames = [s \in DOMAIN d1.frames |->
                      IF s \in {k % Backup : k \in lw..end - 1}
                      THEN EmptyFrame ELSE d1.frames[s]],
                  !.lastwritten = q]]
      BY <1>1, <1>12, <2>1, <2>4, <2>5, <2>7
    <2>9. w = [ok |-> bad = {}, demo |-> [d1 EXCEPT !.frames = f, !.lastwritten = q]]
      BY <1>14, <2>8
    <2>2. [d1 EXCEPT !.frames = f, !.lastwritten = q] = g
      BY <1>13, <1>16 DEF DemoType
    <2>10. w = [ok |-> bad = {}, demo |-> g]
      BY <2>2, <2>9
    <2> HIDE DEF fr
    <2> QED
      BY <2>10
  <1>18. /\ g \in DemoType /\ g.blocks = b /\ g.parsecount = pc /\ g.lastwritten = q
         /\ g.frames = f /\ g.dest = d1.dest /\ g.recording = d1.recording
    <2>1. d1.blocks = b /\ d1.parsecount = pc
      BY <1>1, <1>13 DEF SameFrames
    <2> HIDE DEF fr, end, bad, items
    <2> QED
      BY <1>13, <1>15, <1>16, <2>1 DEF DemoType
  <1>19. FramesLeft(d, g, e)
    <2> HIDE DEF fr, end, bad, items
    <2> QED
      BY <1>1, <1>12, <1>15, <1>18 DEF FramesLeft
  <1>20. FramesInv(g, t[e])
    <2>1. Ring(d) /\ e \in d.lastwritten..d.parsecount + 1
      BY <1>1, <1>6 DEF Good, FramesInv
    <2> HIDE DEF fr, end, bad, items
    <2> QED
      BY <1>1, <1>3, <1>18, <1>19, <2>1, FramesLeftGood
  <1>21. Good(g, t[e])
    <2> HIDE DEF fr, end, bad, items
    <2> QED
      BY <1>9, <1>13, <1>18, <1>20 DEF Good, Attended
  <1>22. w.ok => e = last + 1
    BY <1>6, <1>17
  <1>23. w.ok /\ num > pc - lw => t[e] = b + 1
    <2> SUFFICES ASSUME w.ok, num > pc - lw PROVE e = pc + 1
      BY <1>9
    <2>1. last = pc
      BY <1>2, <1>4
    <2> HIDE DEF fr, end, bad, items
    <2> QED
      BY <1>22, <2>1
  <1>24. w.ok /\ num = 1 /\ pc > lw => q = lw + 1
    <2> SUFFICES ASSUME w.ok, num = 1, pc > lw PROVE q = lw + 1
      OBVIOUS
    <2>1. last = lw
      BY <1>2, <1>4
    <2> HIDE DEF fr, end, bad, items
    <2> QED
      BY <1>12, <1>22, <2>1
  <1>25. PICK mm \in Nat : mm = t[e]
    BY <1>9
  <1> HIDE DEF fr, end, bad, items
  <1> QED
    BY <1>1, <1>17, <1>18, <1>21, <1>23, <1>24, <1>25

(* What MVDWrite_Begin and the write add to the frame of now. *)
LEMMA LongerUpToDate ==
    ASSUME NEW b \in Nat, NEW m, NEW c, c \in Seq(UpToDates(m, b))
    PROVE  c \in Seq(UpToDates(m, b + 1))
  <1>1. UpToDates(m, b) \subseteq UpToDates(m, b + 1)
    BY SoundLonger DEF UpToDates, UpToDate
  <1> QED
    BY <1>1, SeqMonotonic

LEMMA AddToFrameKeeps ==
    ASSUME NEW d, NEW m, Good(d, m), ~d.frames[Current(d)].overflowed,
           NEW base \in Int, base # Gamestate, NEW r, r = AddToFrame(d, base)
    PROVE  /\ Good(r, m) /\ r.parsecount = d.parsecount /\ r.lastwritten = d.lastwritten
           /\ r.recording = d.recording /\ r.dest = d.dest /\ r.blocks = d.blocks + 1
  <1>1. PICK lw \in Nat, pc \in Nat, b \in Nat :
            /\ lw = d.lastwritten /\ pc = d.parsecount /\ b = d.blocks
            /\ d \in DemoType /\ m \in Nat
    BY DEF DemoType, Good
  <1>2. lw <= pc /\ pc - lw <= Lag + 1 /\ Lag \in Nat
    BY <1>1, RecorderAssumption DEF Good, FramesInv, Ring
  <1>3. PICK t : Started(d, t, m)
    BY DEF Good, FramesInv
  <1>4. /\ t \in [Nat -> Nat] /\ t[lw] = m /\ t[pc + 1] = b + 1
        /\ \A k \in lw..pc + 1 : t[k] <= b + 1
        /\ \A k \in lw..pc : FrameFits(d, t, k)
    BY <1>1, <1>3 DEF Started
  <1>5. PICK s \in Places : s = pc % Backup /\ s = Current(d)
    BY <1>1, PlaceOf DEF Current
  <1>6. PICK f \in Frame, bl \in Seq(Items) : f = d.frames[s] /\ bl = f.blocks /\ ~f.overflowed
    BY <1>1, <1>5, FrameAt
  <1>n. PICK b1 \in Nat, pc1 \in Nat, b2 \in Nat : b1 = b + 1 /\ pc1 = pc + 1 /\ b2 = b + 2
    OBVIOUS
  <1>7. PICK x \in Items : x = Item(b1, base) /\ x.n = b1 /\ x.base # Gamestate
    <2>1. Item(b1, base) \in Items
      BY DEF Item, Items
    <2> QED
      BY <2>1 DEF Item
  <1>8. Append(bl, x) \in Seq(Items)
    BY AppendProperties
  <1> DEFINE new == IF Len(bl) < MaxFrame
                    THEN [f EXCEPT !.blocks = Append(bl, x)]
                    ELSE [blocks |-> <<>>, overflowed |-> TRUE]
  <1>9. new \in Frame
    <2>1. [f EXCEPT !.blocks = Append(bl, x)] \in Frame
      BY <1>8 DEF Frame
    <2>2. [blocks |-> <<>>, overflowed |-> TRUE] \in Frame
      BY EmptySeq DEF Frame
    <2> QED
      BY <2>1, <2>2
  <1>10. PICK n \in Frame : n = new
    BY <1>9
  <1>11. PICK fr : fr = [d.frames EXCEPT ![s] = n]
    OBVIOUS
  <1>12. r = [[d EXCEPT !.blocks = b + 1] EXCEPT !.frames = fr]
    <2>1. r = [d EXCEPT !.blocks = b + 1, !.frames[s] = n]
      <3>1. r = [d EXCEPT !.blocks = d.blocks + 1, !.frames[Current(d)] =
                    IF Len(d.frames[Current(d)].blocks) < MaxFrame
                    THEN [d.frames[Current(d)] EXCEPT !.blocks = Append(@, Item(d.blocks + 1, base))]
                    ELSE [blocks |-> <<>>, overflowed |-> TRUE]]
        BY Zenon DEF AddToFrame
      <3>2. n = IF Len(d.frames[Current(d)].blocks) < MaxFrame
                THEN [d.frames[Current(d)] EXCEPT !.blocks = Append(@, Item(d.blocks + 1, base))]
                ELSE [blocks |-> <<>>, overflowed |-> TRUE]
        BY <1>1, <1>n, <1>5, <1>6, <1>7, <1>10
      <3> HIDE DEF new
      <3> QED
        BY <1>1, <1>5, <3>1, <3>2, Zenon
    <2>2. [d EXCEPT !.blocks = b + 1, !.frames[s] = n]
              = [[d EXCEPT !.blocks = b + 1] EXCEPT !.frames = [d.frames EXCEPT ![s] = n]]
      BY <1>1 DEF DemoType
    <2> QED
      BY <1>11, <2>1, <2>2
  <1> HIDE DEF new
  <1>13. /\ fr \in [Places -> Frame] /\ fr[s] = n
         /\ \A p \in Places : p # s => fr[p] = d.frames[p]
    <2>1. d.frames \in [Places -> Frame]
      BY <1>1 DEF DemoType
    <2> QED
      BY <1>11, <2>1
  <1>14. /\ r \in DemoType /\ r.blocks = b + 1 /\ r.frames = fr /\ r.parsecount = pc
         /\ r.lastwritten = lw /\ r.dest = d.dest /\ r.recording = d.recording
    <2>1. PICK v : v = [d EXCEPT !.blocks = b1]
      OBVIOUS
    <2>2. /\ v \in DemoType /\ v.blocks = b1 /\ v.parsecount = pc /\ v.lastwritten = lw
          /\ v.dest = d.dest /\ v.recording = d.recording
      BY <1>1, <2>1 DEF DemoType
    <2>3. r = [v EXCEPT !.frames = fr]
      BY <1>12, <1>n, <2>1
    <2>4. /\ r \in DemoType /\ r.blocks = b1 /\ r.frames = fr /\ r.parsecount = pc
          /\ r.lastwritten = lw /\ r.dest = d.dest /\ r.recording = d.recording
      BY <1>13, <2>2, <2>3 DEF DemoType
    <2> QED
      BY <1>n, <2>4
  <1>15. Ring(r)
    <2>1. ASSUME NEW p \in Places, \A k \in lw..pc : k % Backup # p
          PROVE  fr[p] = EmptyFrame
      <3>1. p # s
        BY <1>2, <1>5, <2>1
      <3>2. d.frames[p] = EmptyFrame
        BY <1>1, <2>1 DEF Good, FramesInv, Ring
      <3> QED
        BY <1>13, <3>1, <3>2
    <2> QED
      BY <1>2, <1>14, <2>1 DEF Ring
  <1>16. PICK u : u = [t EXCEPT ![pc + 1] = b + 2]
    OBVIOUS
  <1>17. /\ u \in [Nat -> Nat] /\ u[pc + 1] = b + 2
         /\ \A k \in Nat : k # pc + 1 => u[k] = t[k]
    <2>1. u = [t EXCEPT ![pc1] = b2]
      BY <1>n, <1>16
    <2>2. u \in [Nat -> Nat] /\ u[pc1] = b2 /\ \A k \in Nat : k # pc1 => u[k] = t[k]
      BY <1>4, <2>1
    <2> QED
      BY <1>n, <2>2
  <1>18. ASSUME NEW k \in lw..pc PROVE FrameFits(r, u, k)
    <2>1. k \in Nat /\ k # pc + 1 /\ u[k] = t[k] /\ FrameFits(d, t, k)
      <3>1. k \in Nat /\ k # pc + 1
        OBVIOUS
      <3> QED
        BY <1>4, <1>17, <3>1
    <2>2. CASE k = pc
      <3>1. r.frames[k % Backup] = n /\ d.frames[k % Backup] = f
        BY <1>5, <1>6, <1>13, <1>14, <2>2
      <3>2. Run(bl, t[pc]) /\ t[pc + 1] = t[pc] + Len(bl)
        BY <1>6, <2>1, <2>2, <3>1 DEF FrameFits
      <3>3. CASE Len(bl) < MaxFrame
        <4>1. PICK c \in Nat, a \in Seq(Items) : c = t[pc] /\ a = <<x>>
          <5>1. t[pc] \in Nat
            BY <1>4
          <5>2. <<x>> \in Seq(Items)
            OBVIOUS
          <5> QED
            BY <5>1, <5>2
        <4>2. Len(a) = 1 /\ a[1] = x /\ Len(bl) \in Nat /\ c + Len(bl) = b + 1
          BY <1>4, <3>2, <4>1, LenProperties
        <4>3. Run(a, c + Len(bl))
          BY <1>7, <1>n, <4>2 DEF Run
        <4>4. PICK h \in Seq(Items) : h = bl \o a /\ Run(h, c) /\ Len(h) = Len(bl) + 1
          BY <3>2, <4>1, <4>2, <4>3, RunsInARow
        <4>5. Append(bl, x) = h
          BY <4>1, <4>4, AppendIsConcat
        <4>6. n.blocks = h
          BY <1>10, <3>3, <4>5 DEF new, Frame
        <4>7. u[k + 1] = u[k] + Len(h)
          <5>1. u[k + 1] = b + 2 /\ u[k] = c
            BY <1>17, <2>1, <2>2, <4>1
          <5>2. PICK len \in Nat, more \in Nat : len = Len(bl) /\ more = Len(h)
            BY <4>2, <4>4
          <5>3. c + len = b + 1 /\ more = len + 1
            BY <4>2, <4>4, <5>2
          <5>4. c + more = b + 2
            BY <5>3
          <5> QED
            BY <5>1, <5>2, <5>4
        <4> QED
          BY <2>1, <2>2, <3>1, <4>1, <4>4, <4>6, <4>7 DEF FrameFits
      <3>4. CASE ~(Len(bl) < MaxFrame)
        <4>1. n.overflowed
          BY <1>10, <3>4 DEF new
        <4> QED
          BY <3>1, <4>1 DEF FrameFits
      <3> QED
        BY <3>3, <3>4
    <2>3. CASE k # pc
      <3>1. k % Backup # s
        <4>1. k # pc /\ k - pc <= Lag + 1 /\ pc - k <= Lag + 1
          BY <1>2, <2>3
        <4> QED
          BY <1>5, <2>1, <4>1, OwnPlace
      <3>2. k % Backup \in Places
        BY <2>1, PlaceOf
      <3>3. r.frames[k % Backup] = d.frames[k % Backup]
        BY <1>13, <1>14, <3>1, <3>2
      <3>4. k + 1 \in Nat /\ k + 1 # pc + 1
        BY <2>1, <2>3
      <3>5. u[k + 1] = t[k + 1]
        BY <1>17, <3>4
      <3> QED
        BY <2>1, <3>3, <3>5 DEF FrameFits
    <2> QED
      BY <2>2, <2>3
  <1>19. Started(r, u, m)
    <2>1. ASSUME NEW k \in lw..pc + 1 PROVE u[k] <= b + 2
      <3>1. k \in Nat
        BY <1>2
      <3>2. CASE k = pc + 1
        BY <1>17, <3>2
      <3>3. CASE k # pc + 1
        <4>1. t[k] \in Nat /\ t[k] <= b + 1 /\ u[k] = t[k]
          BY <1>4, <1>17, <3>1, <3>3
        <4> QED
          BY <4>1
      <3> QED
        BY <3>2, <3>3
    <2>2. u[lw] = m
      <3>1. lw # pc + 1
        BY <1>2
      <3> QED
        BY <1>4, <1>17, <3>1
    <2>3. (b + 1) + 1 = b + 2
      OBVIOUS
    <2> QED
      BY <1>14, <1>17, <1>18, <2>1, <2>2, <2>3 DEF Started
  <1>20. r.dest \in Seq(UpToDates(m, r.blocks))
    <2>1. d.dest \in Seq(UpToDates(m, b))
      BY <1>1 DEF Good
    <2> QED
      BY <1>14, <2>1, LongerUpToDate
  <1> QED
    BY <1>1, <1>14, <1>15, <1>19, <1>20 DEF Good, FramesInv, Attended

LEMMA GoodDests ==
    ASSUME NEW d, NEW m, Good(d, m)
    PROVE  /\ d \in DemoType /\ m \in Nat /\ d.dest \in Seq(UpToDates(m, d.blocks))
           /\ Attended(d) /\ FramesInv(d, m) /\ d.blocks \in Nat
  BY DEF Good, DemoType

LEMMA StoppedGood ==
    ASSUME NEW d, NEW m, Good(d, m), NEW mvdonly \in BOOLEAN, NEW io,
           NEW r, r = StopAndRemove(d, mvdonly, io)
    PROVE  /\ Good(r, m) /\ SameFrames(r, d)
           /\ ~mvdonly => r.dest = <<>> /\ ~r.recording
  <1>1. /\ r \in DemoType /\ SameFrames(r, d)
        /\ r.dest \in Seq(UpToDates(m, r.blocks)) /\ Attended(r)
        /\ ~mvdonly => r.dest = <<>> /\ ~r.recording
    BY GoodDests, StopAndRemoveKeeps
  <1>2. FramesInv(r, m) /\ m \in Nat
    BY <1>1, GoodDests, FramesStay
  <1> QED
    BY <1>1, <1>2 DEF Good

LEMMA MVDWriteKeeps ==
    ASSUME NEW d, NEW m, Good(d, m), NEW base \in Int, base # Gamestate, NEW io,
           NEW r, r = MVDWrite(d, base, io)
    PROVE  /\ Good(r, m) /\ r.parsecount = d.parsecount /\ r.lastwritten = d.lastwritten
  <1>1. CASE ~d.recording
    BY <1>1 DEF MVDWrite
  <1>2. CASE d.recording /\ d.frames[Current(d)].overflowed
    <2>1. r = StopAndRemove(d, FALSE, io)
      BY <1>2 DEF MVDWrite
    <2>2. Good(r, m) /\ SameFrames(r, d)
      BY <2>1, StoppedGood
    <2> QED
      BY <2>2 DEF SameFrames
  <1>3. CASE d.recording /\ ~d.frames[Current(d)].overflowed
    <2>1. r = AddToFrame(d, base)
      BY <1>3 DEF MVDWrite
    <2> QED
      BY <1>3, <2>1, AddToFrameKeeps
  <1> QED
    BY <1>1, <1>2, <1>3

(* SV_MVDWritePackets of the oldest frame. *)
LEMMA WritePacketsKeeps ==
    ASSUME NEW d, NEW m, Good(d, m), d.parsecount > d.lastwritten, NEW io,
           NEW r, r = WritePackets(d, 1, io)
    PROVE  \E mm \in Nat :
              /\ Good(r, mm) /\ r.parsecount = d.parsecount
              /\ r.recording => r.lastwritten = d.lastwritten + 1
  <1>1. CASE ~d.recording
    <2>1. r = d
      BY <1>1 DEF WritePackets
    <2> QED
      BY <1>1, <2>1, GoodDests
  <1>2. CASE d.recording
    <2>1. PICK w : w = WritePacketsEx(d, 1, io)
      OBVIOUS
    <2>2. 1 \in Nat \ {0}
      OBVIOUS
    <2>3. PICK mm \in Nat :
              /\ Good(w.demo, mm)
              /\ w.demo.blocks = d.blocks /\ w.demo.parsecount = d.parsecount
              /\ w.ok /\ 1 = 1 /\ d.parsecount > d.lastwritten
                    => w.demo.lastwritten = d.lastwritten + 1
      BY <2>1, <2>2, WritePacketsExKeeps
    <2>4. CASE w.ok
      <3>1. r = w.demo
        BY <1>2, <2>1, <2>4 DEF WritePackets
      <3> QED
        BY <2>3, <2>4, <3>1
    <2>5. CASE ~w.ok
      <3>1. r = StopAndRemove(w.demo, FALSE, io)
        BY <1>2, <2>1, <2>5 DEF WritePackets
      <3>2. Good(r, mm) /\ SameFrames(r, w.demo) /\ ~r.recording
        BY <2>3, <3>1, StoppedGood
      <3> QED
        BY <2>3, <3>2 DEF SameFrames
    <2> QED
      BY <2>4, <2>5
  <1> QED
    BY <1>1, <1>2

(* SV_MVDStop for reason 0. *)
LEMMA StopRecordingKeeps ==
    ASSUME NEW d, NEW m, Good(d, m), NEW io, NEW r, r = StopRecording(d, io)
    PROVE  \E mm : Good(r, mm)
  <1>1. CASE ~d.recording
    BY <1>1 DEF StopRecording
  <1>2. CASE d.recording
    <2>1. PICK d1 : d1 = IF d.frames[Current(d)].overflowed THEN d ELSE AddToFrame(d, Event)
      OBVIOUS
    <2>2. Good(d1, m)
      <3>1. Event \in Int /\ Event # Gamestate
        BY DEF Event, Gamestate
      <3> QED
        BY <2>1, <3>1, AddToFrameKeeps
    <2>3. PICK num \in Nat \ {0} : num = d1.parsecount - d1.lastwritten + 1
      <3>1. d1.parsecount \in Nat /\ d1.lastwritten \in Nat /\ d1.lastwritten <= d1.parsecount
        BY <2>2 DEF Good, DemoType, FramesInv, Ring
      <3> QED
        BY <3>1
    <2>4. PICK d2 : d2 = WritePacketsEx(d1, num, io)
      OBVIOUS
    <2>5. PICK mm \in Nat :
              /\ Good(d2.demo, mm) /\ d2.demo.blocks = d1.blocks
              /\ d2.ok /\ num > d1.parsecount - d1.lastwritten => mm = d1.blocks + 1
      BY <2>2, <2>4, WritePacketsExKeeps
    <2>6. num > d1.parsecount - d1.lastwritten
      <3>1. d1.parsecount \in Nat /\ d1.lastwritten \in Nat
        BY <2>2 DEF Good, DemoType
      <3> QED
        BY <2>3, <3>1
    <2>7. PICK how : how = IF d2.ok THEN "stopped" ELSE "cut"
      OBVIOUS
    <2>8. how \in Ended /\ (how = "stopped" => mm = d2.demo.blocks + 1 /\ TRUE)
      BY <2>5, <2>6, <2>7 DEF Ended
    <2>9. PICK d3 : d3 = DestCloseAllFlush(d2.demo, how, TRUE, io)
      OBVIOUS
    <2>10. /\ d3 \in DemoType /\ SameFrames(d3, d2.demo)
           /\ d3.dest \in Seq(UpToDates(mm, d3.blocks))
      BY <2>5, <2>8, <2>9, GoodDests, DestCloseAllFlushKeeps
    <2>11. PICK on \in BOOLEAN : on = (d3.dest # <<>>)
      OBVIOUS
    <2>12. r = [d3 EXCEPT !.recording = on]
      BY <1>2, <2>1, <2>3, <2>4, <2>7, <2>9, <2>11 DEF StopRecording
    <2>13. /\ r \in DemoType /\ r.dest = d3.dest /\ r.recording = on /\ SameFrames(r, d3)
           /\ r.blocks = d3.blocks
      BY <2>10, <2>12 DEF DemoType, SameFrames
    <2>14. FramesInv(r, mm)
      <3>1. SameFrames(r, d2.demo)
        BY <2>10, <2>13 DEF SameFrames
      <3> QED
        BY <2>5, <3>1, GoodDests, FramesStay
    <2> QED
      BY <2>10, <2>11, <2>13, <2>14 DEF Good, Attended
  <1> QED
    BY <1>1, <1>2

-----------------------------------------------------------------------------
(* A gamestate is sent: to those that have none, so that all are ready.    *)
LEMMA GamestateSent ==
    ASSUME NEW d \in DemoType, NEW m \in Nat, m <= d.blocks + 1,
           d.dest \in Seq(Sounds(d.blocks)), NEW only,
           \A i \in 1..Len(d.dest) :
               d.dest[i].id \notin only => UpToDate(d.dest[i], m, d.blocks),
           FramesInv(d, m), NEW io, NEW r, r = SendInitialGamestate(d, only, io)
    PROVE  Good(r, m)
  <1> DEFINE U == UpToDates(m, d.blocks)
  <1>0. d.blocks \in Nat
    BY DEF DemoType
  <1>1. CASE d.dest = <<>>
    <2>1. r = d /\ <<>> \in Seq(U)
      <3> HIDE DEF U
      <3> QED
        BY <1>1, EmptySeq DEF SendInitialGamestate
    <2> QED
      BY <1>1, <2>1 DEF Good, Attended
  <1>2. CASE d.dest # <<>>
    <2>1. PICK c : c = [d EXCEPT !.recording = TRUE]
      OBVIOUS
    <2>2. c \in DemoType /\ c.dest = d.dest /\ c.recording = TRUE /\ SameFrames(c, d)
      BY <2>1 DEF DemoType, SameFrames
    <2>3. PICK list \in Seq(Sounds(d.blocks)) :
              list = d.dest /\ DOMAIN list = 1..Len(list) /\ Len(list) \in Nat
      BY LenProperties
    <2> DEFINE new == [i \in DOMAIN list |->
                          IF list[i].id \in only
                          THEN DemoWriteDest(list[i], Item(d.blocks, Gamestate), io[list[i].id])
                          ELSE list[i]]
    <2>4. ASSUME NEW i \in 1..Len(list) PROVE new[i] \in U
      <3>1. PICK e : e = list[i] /\ e \in DestType /\ Sound(e, d.blocks)
        BY ElementOfSeq DEF Sounds
      <3>2. CASE e.id \in only
        <4>1. PICK f : f = DemoWriteDest(e, Item(d.blocks, Gamestate), io[e.id])
          OBVIOUS
        <4>2. UpToDate(f, m, d.blocks)
          BY <1>0, <3>1, <4>1, GamestateWritten
        <4>3. f \in DestType
          BY <4>2 DEF UpToDate, Sound
        <4>4. new[i] = f
          BY <2>3, <3>1, <3>2, <4>1
        <4> QED
          BY <4>2, <4>3, <4>4 DEF UpToDates
      <3>3. CASE e.id \notin only
        <4>1. new[i] = e /\ UpToDate(e, m, d.blocks)
          BY <2>3, <3>1, <3>3
        <4> QED
          BY <3>1, <4>1 DEF UpToDates
      <3> QED
        BY <3>2, <3>3
    <2>5. new \in Seq(U)
      <3>1. new \in [1..Len(list) -> U]
        <4> HIDE DEF U
        <4> QED
          BY <2>3, <2>4
      <3> HIDE DEF U, new
      <3> QED
        BY <2>3, <3>1, ListMade
    <2>6. PICK fresh : fresh = new
      OBVIOUS
    <2>7. r = [c EXCEPT !.dest = fresh]
      <3>1. r = DemoWrite(c, Item(d.blocks, Gamestate), only, io)
        BY <1>2, <2>1 DEF SendInitialGamestate
      <3> QED
        BY <2>2, <2>3, <2>6, <3>1 DEF DemoWrite
    <2>8. fresh \in Seq(U) /\ fresh \in Seq(DestType)
      <3>1. U \subseteq DestType
        BY DEF UpToDates
      <3> HIDE DEF U, new
      <3> QED
        BY <2>5, <2>6, <3>1, SeqMonotonic
    <2> HIDE DEF new
    <2>9. r \in DemoType /\ r.dest = fresh /\ r.recording = TRUE /\ SameFrames(r, c)
      BY <2>2, <2>7, <2>8 DEF DemoType, SameFrames
    <2>10. SameFrames(r, d) /\ r.blocks = d.blocks
      BY <2>2, <2>9 DEF SameFrames
    <2>11. FramesInv(r, m)
      BY <2>10, FramesStay
    <2> QED
      BY <2>8, <2>9, <2>10, <2>11 DEF Good, Attended
  <1> QED
    BY <1>1, <1>2

(* The frames are empty: the next block is the first for all. *)
LEMMA FreshFrames ==
    ASSUME NEW d \in DemoType, d.parsecount = 0, d.lastwritten = 0,
           \A s \in Places : d.frames[s] = EmptyFrame
    PROVE  FramesInv(d, d.blocks + 1)
  <1>1. PICK b \in Nat : b = d.blocks + 1
    BY DEF DemoType
  <1>2. PICK t : t = [k \in Nat |-> b]
    OBVIOUS
  <1>3. t \in [Nat -> Nat] /\ t[0] = b /\ t[0 + 1] = b
    BY <1>2
  <1>4. \A k \in 0..0 + 1 : t[k] <= b
    BY <1>2
  <1>5. FrameFits(d, t, 0)
    <2>1. PICK s \in Places : s = 0 % Backup
      BY PlaceOf
    <2>2. d.frames[s].blocks = <<>>
      BY EmptyFrameIs
    <2>3. Run(<<>>, t[0]) /\ Len(<<>>) = 0
      BY DEF Run
    <2>4. t[0 + 1] = t[0] + 0
      BY <1>3
    <2> QED
      BY <2>1, <2>2, <2>3, <2>4 DEF FrameFits
  <1>6. \A k \in 0..0 : FrameFits(d, t, k)
    BY <1>5
  <1>7. Started(d, t, b)
    BY <1>1, <1>3, <1>4, <1>6 DEF Started
  <1>8. Ring(d)
    <2>1. 0 <= 0 /\ 0 - 0 <= Lag + 1
      BY RecorderAssumption
    <2> QED
      BY <2>1 DEF Ring
  <1> QED
    BY <1>1, <1>7, <1>8 DEF FramesInv

LEMMA ClearedFrames ==
    ASSUME NEW d \in DemoType, NEW c, c = Cleared(d)
    PROVE  /\ c \in DemoType /\ c.dest = d.dest /\ c.blocks = d.blocks
           /\ c.recording = d.recording /\ FramesInv(c, d.blocks + 1)
  <1>1. PICK f, u : /\ f = [s \in Places |-> EmptyFrame]
                   /\ u = [s \in Places |-> 0]
    OBVIOUS
  <1>2. f \in [Places -> Frame] /\ u \in [Places -> Nat \cup {Unwritten}]
    BY <1>1, EmptyFrameIs
  <1>3. c = [d EXCEPT !.parsecount = 0, !.lastwritten = 0, !.frames = f,
                      !.delta = 0, !.incoming = 0, !.updates = u]
    BY <1>1, Zenon DEF Cleared, Places
  <1>4. PICK v : v = [[[d EXCEPT !.parsecount = 0] EXCEPT !.lastwritten = 0] EXCEPT !.frames = f]
    OBVIOUS
  <1>5. /\ v \in DemoType /\ v.dest = d.dest /\ v.blocks = d.blocks /\ v.recording = d.recording
        /\ v.parsecount = 0 /\ v.lastwritten = 0 /\ v.frames = f
    BY <1>2, <1>4 DEF DemoType
  <1>6. c = [[[v EXCEPT !.delta = 0] EXCEPT !.incoming = 0] EXCEPT !.updates = u]
    BY <1>3, <1>4 DEF DemoType
  <1>7. /\ c \in DemoType /\ c.dest = d.dest /\ c.blocks = d.blocks /\ c.recording = d.recording
        /\ c.parsecount = 0 /\ c.lastwritten = 0 /\ c.frames = f
    BY <1>2, <1>5, <1>6 DEF DemoType
  <1>8. \A s \in Places : c.frames[s] = EmptyFrame
    BY <1>1, <1>7
  <1>9. FramesInv(c, c.blocks + 1)
    BY <1>7, <1>8, FreshFrames
  <1> QED
    BY <1>7, <1>9

(* SV_MVD_Record. *)
LEMMA RecordKeeps ==
    ASSUME NEW d, NEW m, Good(d, m), NEW x \in Dest, NEW type \in {"file", "buffered", "stream"},
           NEW io, NEW r, r = Record(d, NewDest(x, type), io)
    PROVE  \E mm : Good(r, mm)
  <1>1. PICK e : e = NewDest(x, type)
    OBVIOUS
  <1>2. PICK b \in Nat : b = d.blocks
    BY GoodDests
  <1>3. e \in DestType /\ Sound(e, b) /\ e.id = x
    <2>1. <<>> \in Seq(Items) /\ <<>> \o <<>> = <<>>
      BY EmptySeq, ConcatEmptySeq
    <2>2. /\ e \in DestType /\ e.cache = <<>> /\ e.out = <<>> /\ e.id = x /\ e.error = FALSE
      BY <1>1, <2>1 DEF NewDest, DestType
    <2>3. Len(<<>>) = 0
      OBVIOUS
    <2>4. Whole(<<>>)
      BY <2>3 DEF Whole
    <2>5. Held(e) = <<>>
      BY <2>1, <2>2 DEF Held
    <2> QED
      BY <2>2, <2>4, <2>5 DEF Sound
  <1>4. PICK d1 : d1 = IF d.recording THEN d ELSE Cleared(d)
    OBVIOUS
  <1>5. PICK mm \in Nat :
            /\ d1 \in DemoType /\ d1.blocks = b /\ mm <= b + 1 /\ FramesInv(d1, mm)
            /\ d1.dest \in Seq(UpToDates(mm, b))
    <2>1. CASE d.recording
      <3>1. m <= b + 1
        <4>1. PICK t : Started(d, t, m)
          BY DEF Good, FramesInv
        <4>2. d.lastwritten \in Nat /\ d.parsecount \in Nat /\ d.lastwritten <= d.parsecount
          BY DEF Good, FramesInv, Ring, DemoType
        <4>3. d.lastwritten \in d.lastwritten..d.parsecount + 1
          BY <4>2
        <4> QED
          BY <1>2, <4>1, <4>3 DEF Started
      <3> QED
        BY <1>2, <1>4, <2>1, <3>1, GoodDests
    <2>2. CASE ~d.recording
      <3>1. d.dest = <<>>
        BY <2>2 DEF Good, Attended
      <3>2. <<>> \in Seq(UpToDates(b + 1, b))
        BY EmptySeq
      <3>3. d1 = Cleared(d)
        BY <1>4, <2>2
      <3>4. /\ d1 \in DemoType /\ d1.dest = <<>> /\ d1.blocks = b /\ FramesInv(d1, b + 1)
        BY <1>2, <3>1, <3>3, GoodDests, ClearedFrames
      <3>5. b + 1 \in Nat /\ b + 1 <= b + 1
        OBVIOUS
      <3> QED
        BY <3>2, <3>4, <3>5
    <2> QED
      BY <2>1, <2>2
  <1>6. PICK old \in Seq(Sounds(b)), one \in Seq(Sounds(b)) :
            /\ old = d1.dest /\ one = <<e>> /\ Len(one) = 1 /\ one[1] = e
            /\ Len(old) \in Nat
            /\ \A i \in 1..Len(old) : UpToDate(old[i], mm, b)
    <2>1. UpToDates(mm, b) \subseteq Sounds(b)
      BY DEF UpToDates, Sounds, UpToDate
    <2>2. d1.dest \in Seq(Sounds(b))
      BY <1>5, <2>1, SeqMonotonic
    <2>3. \A i \in 1..Len(d1.dest) : d1.dest[i] \in UpToDates(mm, b)
      BY <1>5, ElementOfSeq
    <2>4. e \in Sounds(b)
      BY <1>3 DEF Sounds
    <2>5. <<e>> \in Seq(Sounds(b)) /\ Len(<<e>>) = 1 /\ <<e>>[1] = e
      BY <2>4
    <2>6. \A i \in 1..Len(d1.dest) : UpToDate(d1.dest[i], mm, b)
      BY <2>3 DEF UpToDates
    <2>7. Len(d1.dest) \in Nat
      BY <2>2, LenProperties
    <2> QED
      BY <2>2, <2>5, <2>6, <2>7
  <1>7. PICK all \in Seq(Sounds(b)) :
            /\ all = one \o old /\ Len(all) = 1 + Len(old)
            /\ all[1] = e
            /\ \A i \in 1..Len(old) : all[i + 1] = old[i]
    <2>1. one \o old \in Seq(Sounds(b)) /\ Len(one \o old) = Len(one) + Len(old)
      BY ConcatProperties
    <2>2. \A i \in 1..1 + Len(old) : (one \o old)[i] = IF i <= 1 THEN one[i] ELSE old[i - 1]
      BY <1>6, ConcatProperties
    <2>3. (one \o old)[1] = e
      BY <1>6, <2>2
    <2>4. ASSUME NEW i \in 1..Len(old) PROVE (one \o old)[i + 1] = old[i]
      <3>1. i + 1 \in 1..1 + Len(old) /\ ~(i + 1 <= 1) /\ (i + 1) - 1 = i
        BY <1>6
      <3> QED
        BY <2>2, <3>1
    <2> QED
      BY <1>6, <2>1, <2>3, <2>4
  <1>8. PICK d2 : d2 = [d1 EXCEPT !.dest = all]
    OBVIOUS
  <1>9. d2 \in DemoType /\ d2.dest = all /\ SameFrames(d2, d1) /\ d2.blocks = b
    <2>1. Sounds(b) \subseteq DestType
      BY DEF Sounds
    <2>2. all \in Seq(DestType)
      BY <2>1, SeqMonotonic
    <2> QED
      BY <1>5, <1>8, <2>2 DEF DemoType, SameFrames
  <1>10. r = SendInitialGamestate(d2, {x}, io)
    <2>1. d2 = [d1 EXCEPT !.dest = <<e>> \o @]
      BY <1>6, <1>7, <1>8
    <2> QED
      BY <1>1, <1>3, <1>4, <2>1 DEF Record
  <1>11. ASSUME NEW i \in 1..Len(all), all[i].id \notin {x}
         PROVE  UpToDate(all[i], mm, b)
    <2>1. i # 1
      BY <1>3, <1>7, <1>11
    <2>2. PICK j \in 1..Len(old) : j + 1 = i
      <3>1. i - 1 \in 1..Len(old) /\ (i - 1) + 1 = i
        BY <1>6, <1>7, <2>1
      <3> QED
        BY <3>1
    <2> QED
      BY <1>6, <1>7, <2>2
  <1>12. FramesInv(d2, mm)
    BY <1>5, <1>9, FramesStay
  <1> QED
    BY <1>5, <1>9, <1>10, <1>11, <1>12, GamestateSent

(* The end of SV_SpawnServer. *)
LEMMA RecordMapChangeKeeps ==
    ASSUME NEW d, NEW m, Good(d, m), NEW io, NEW r, r = RecordMapChange(d, io)
    PROVE  \E mm : Good(r, mm)
  <1>1. PICK b \in Nat : b = d.blocks
    BY GoodDests
  <1>2. PICK c : c = Cleared(d)
    OBVIOUS
  <1>3. /\ c \in DemoType /\ c.dest = d.dest /\ c.blocks = b /\ FramesInv(c, b + 1)
    BY <1>1, <1>2, GoodDests, ClearedFrames
  <1>4. c.dest \in Seq(Sounds(b)) /\ \A i \in 1..Len(c.dest) : c.dest[i].id \in Dest
    <2>1. UpToDates(m, b) \subseteq Sounds(b)
      BY DEF UpToDates, Sounds, UpToDate
    <2>2. c.dest \in Seq(Sounds(b))
      BY <1>1, <1>3, <2>1, GoodDests, SeqMonotonic
    <2>3. \A i \in 1..Len(c.dest) : c.dest[i] \in Sounds(b)
      BY <2>2, ElementOfSeq
    <2> QED
      BY <2>2, <2>3 DEF Sounds, DestType
  <1>5. r = SendInitialGamestate(c, Dest, io)
    BY <1>2 DEF RecordMapChange
  <1>6. b + 1 \in Nat /\ b + 1 <= b + 1
    OBVIOUS
  <1> QED
    BY <1>3, <1>4, <1>5, <1>6, GamestateSent

(* An entity update of the recorder, written or not: the fields of the     *)
(* updates are its own.                                                    *)
LEMMA WriteUpdateKeeps ==
    ASSUME NEW d, NEW m, Good(d, m), NEW fits \in BOOLEAN, NEW io,
           NEW r, r = WriteUpdate(d, fits, io)
    PROVE  /\ Good(r, m) /\ r.parsecount = d.parsecount /\ r.lastwritten = d.lastwritten
  <1>0. d \in DemoType
    BY GoodDests
  <1>1. PICK base : base = IF d.delta = 0 THEN None ELSE d.updates[d.delta % Backup]
    OBVIOUS
  <1>2. base \in Int /\ base # Gamestate
    <2>1. d.delta \in Nat
      BY <1>0 DEF DemoType
    <2>2. PICK s \in Places : s = d.delta % Backup
      BY <2>1, PlaceOf
    <2>3. d.updates[s] \in Nat \cup {Unwritten}
      BY <1>0 DEF DemoType
    <2> QED
      BY <1>1, <2>2, <2>3 DEF None, Gamestate, Unwritten
  <1>3. PICK e : e = IF fits THEN MVDWrite(d, base, io) ELSE d
    OBVIOUS
  <1>4. Good(e, m) /\ e.parsecount = d.parsecount /\ e.lastwritten = d.lastwritten
    <2>1. CASE fits
      BY <1>2, <1>3, <2>1, MVDWriteKeeps
    <2>2. CASE ~fits
      BY <1>3, <2>2
    <2> QED
      BY <2>1, <2>2
  <1>5. e \in DemoType
    BY <1>4, GoodDests
  <1>6. PICK s \in Places : s = d.incoming % Backup
    BY <1>0, PlaceOf DEF DemoType
  <1>7. PICK delta \in Nat, incoming \in Nat :
            delta = d.incoming % Byte /\ incoming = e.incoming + 1
    <2>1. Byte \in Nat \ {0} /\ d.incoming \in Nat /\ e.incoming \in Nat
      BY <1>0, <1>5, RecorderAssumption DEF DemoType
    <2>2. d.incoming % Byte \in Nat /\ e.incoming + 1 \in Nat
      BY <2>1
    <2> QED
      BY <2>2
  <1>a. PICK n \in Nat \cup {Unwritten} : n = IF fits THEN e.blocks ELSE Unwritten
    BY <1>5 DEF DemoType
  <1>8. PICK u : u = [e.updates EXCEPT ![s] = n]
    OBVIOUS
  <1>9. u \in [Places -> Nat \cup {Unwritten}]
    BY <1>5, <1>8 DEF DemoType
  <1>10. r = [[[e EXCEPT !.updates = u] EXCEPT !.delta = delta] EXCEPT !.incoming = incoming]
    <2>1. r = UpdateWritten(d, base, fits, io)
      BY <1>1 DEF WriteUpdate
    <2>2. r = [e EXCEPT !.updates[s] = n, !.delta = delta, !.incoming = incoming]
      BY <1>3, <1>5, <1>6, <1>7, <1>a, <2>1 DEF UpdateWritten, DemoType
    <2> QED
      BY <1>5, <1>8, <2>2 DEF DemoType
  <1>11. /\ r \in DemoType /\ SameFrames(r, e) /\ r.dest = e.dest /\ r.recording = e.recording
    BY <1>5, <1>9, <1>10 DEF DemoType, SameFrames
  <1>12. FramesInv(r, m)
    BY <1>4, <1>11, GoodDests, FramesStay
  <1> QED
    BY <1>4, <1>11, <1>12 DEF Good, Attended, SameFrames

(* The next frame. *)
LEMMA NextFrame ==
    ASSUME NEW d, NEW m, Good(d, m), d.parsecount - d.lastwritten <= Lag,
           NEW r, r = [d EXCEPT !.parsecount = d.parsecount + 1]
    PROVE  Good(r, m)
  <1>1. PICK lw \in Nat, pc \in Nat, b \in Nat :
            /\ lw = d.lastwritten /\ pc = d.parsecount /\ b = d.blocks
            /\ d \in DemoType /\ m \in Nat
    BY DEF DemoType, Good
  <1>2. lw <= pc /\ pc - lw <= Lag /\ Lag \in Nat
    BY <1>1, RecorderAssumption DEF Good, FramesInv, Ring
  <1>3. PICK t : Started(d, t, m)
    BY DEF Good, FramesInv
  <1>4. /\ t \in [Nat -> Nat] /\ t[lw] = m /\ t[pc + 1] = b + 1
        /\ \A k \in lw..pc + 1 : t[k] <= b + 1
        /\ \A k \in lw..pc : FrameFits(d, t, k)
    BY <1>1, <1>3 DEF Started
  <1>5. PICK n \in Nat, nn \in Nat, b1 \in Nat : n = pc + 1 /\ nn = n + 1 /\ b1 = b + 1
    <2>1. pc + 1 \in Nat /\ (pc + 1) + 1 \in Nat /\ b + 1 \in Nat
      OBVIOUS
    <2> QED
      BY <2>1
  <1>6. /\ r \in DemoType /\ r.blocks = b /\ r.frames = d.frames /\ r.parsecount = n
        /\ r.lastwritten = lw /\ r.dest = d.dest /\ r.recording = d.recording
    <2>1. r = [d EXCEPT !.parsecount = n]
      BY <1>1, <1>5
    <2> QED
      BY <1>1, <2>1 DEF DemoType
  <1>7. d.frames[n % Backup] = EmptyFrame
    <2>1. ASSUME NEW k \in lw..pc PROVE k % Backup # n % Backup
      <3>1. k \in Nat /\ k # n /\ k - n <= Lag + 1 /\ n - k <= Lag + 1
        BY <1>2, <1>5
      <3> QED
        BY <3>1, OwnPlace
    <2>2. n % Backup \in Places
      BY PlaceOf
    <2> QED
      BY <1>1, <2>1, <2>2 DEF Good, FramesInv, Ring
  <1>8. Ring(r)
    <2>1. lw <= n /\ n - lw <= Lag + 1
      BY <1>2, <1>5
    <2>2. ASSUME NEW s \in Places, \A k \in lw..n : k % Backup # s
          PROVE  d.frames[s] = EmptyFrame
      <3>1. \A k \in lw..pc : k \in lw..n
        BY <1>2, <1>5
      <3>2. \A k \in lw..pc : k % Backup # s
        BY <2>2, <3>1
      <3> QED
        BY <1>1, <3>2 DEF Good, FramesInv, Ring
    <2> QED
      BY <1>6, <2>1, <2>2 DEF Ring
  <1>9. PICK u : u = [t EXCEPT ![nn] = b1]
    OBVIOUS
  <1>10. /\ u \in [Nat -> Nat] /\ u[nn] = b1
         /\ \A k \in Nat : k # nn => u[k] = t[k]
    BY <1>4, <1>9
  <1>11. n # nn /\ lw # nn /\ u[n] = b1 /\ u[lw] = m
    <2>1. n # nn /\ lw # nn
      BY <1>2, <1>5
    <2> QED
      BY <1>4, <1>5, <1>10, <2>1
  <1>12. ASSUME NEW k \in lw..n PROVE FrameFits(r, u, k)
    <2>1. CASE k = n
      <3>1. r.frames[k % Backup].blocks = <<>>
        BY <1>6, <1>7, <2>1, EmptyFrameIs
      <3>2. Run(<<>>, u[k]) /\ Len(<<>>) = 0
        BY DEF Run
      <3>3. u[k + 1] = u[k] + 0
        BY <1>5, <1>10, <1>11, <2>1
      <3> QED
        BY <3>1, <3>2, <3>3 DEF FrameFits
    <2>2. CASE k # n
      <3>1. k \in lw..pc /\ k \in Nat /\ k # nn /\ k + 1 \in Nat /\ k + 1 # nn
        BY <1>2, <1>5, <2>2
      <3>2. u[k] = t[k] /\ u[k + 1] = t[k + 1] /\ FrameFits(d, t, k)
        BY <1>4, <1>10, <3>1
      <3> QED
        BY <1>6, <3>2 DEF FrameFits
    <2> QED
      BY <2>1, <2>2
  <1>13. ASSUME NEW k \in lw..nn PROVE u[k] <= b1
    <2>1. CASE k = nn
      BY <1>10, <2>1
    <2>2. CASE k # nn
      <3>1. k \in lw..pc + 1 /\ k \in Nat
        BY <1>2, <1>5, <2>2
      <3> QED
        BY <1>4, <1>5, <1>10, <2>2, <3>1
    <2> QED
      BY <2>1, <2>2
  <1>14. Started(r, u, m)
    BY <1>5, <1>6, <1>10, <1>11, <1>12, <1>13 DEF Started
  <1> QED
    BY <1>1, <1>6, <1>8, <1>14 DEF Good, FramesInv, Attended

(* SV_SendDemoMessage. *)
LEMMA SendDemoMessageKeeps ==
    ASSUME NEW d, NEW m, Good(d, m), NEW fits \in BOOLEAN, NEW io,
           NEW d1, d1 = WriteUpdate(d, fits, io),
           NEW d2, d2 = IF d1.parsecount - d1.lastwritten > Lag
                        THEN WritePackets(d1, 1, io) ELSE d1,
           NEW d3, d3 = DestFlush(d2, FALSE, io),
           NEW r, r = [d3 EXCEPT !.parsecount = IF d3.recording THEN @ + 1 ELSE @]
    PROVE  \E mm : Good(r, mm)
  <1>1. Good(d1, m)
    BY WriteUpdateKeeps
  <1>2. PICK lw \in Nat, pc \in Nat :
            lw = d1.lastwritten /\ pc = d1.parsecount /\ lw <= pc /\ pc - lw <= Lag + 1
    BY <1>1 DEF Good, DemoType, FramesInv, Ring
  <1>3. Lag \in Nat
    BY RecorderAssumption
  <1>4. PICK mm \in Nat :
            /\ Good(d2, mm)
            /\ d2.recording => d2.parsecount - d2.lastwritten <= Lag
    <2>1. CASE pc - lw > Lag
      <3>1. d2 = WritePackets(d1, 1, io) /\ d1.parsecount > d1.lastwritten
        BY <1>2, <1>3, <2>1
      <3>2. PICK mm \in Nat :
                /\ Good(d2, mm) /\ d2.parsecount = d1.parsecount
                /\ d2.recording => d2.lastwritten = d1.lastwritten + 1
        BY <1>1, <3>1, WritePacketsKeeps
      <3>3. pc - (lw + 1) <= Lag
        BY <1>2, <1>3
      <3> QED
        BY <1>2, <3>2, <3>3
    <2>2. CASE ~(pc - lw > Lag)
      <3>1. d2 = d1 /\ pc - lw <= Lag /\ m \in Nat
        BY <1>2, <1>3, <2>2, GoodDests
      <3> QED
        BY <1>1, <1>2, <3>1
    <2> QED
      BY <2>1, <2>2
  <1>5. /\ d3 \in DemoType /\ SameFrames(d3, d2)
        /\ d3.dest \in Seq(UpToDates(mm, d3.blocks)) /\ Attended(d3)
        /\ d3.recording => d2.recording
    BY <1>4, GoodDests, DestFlushKeeps
  <1>6. Good(d3, mm)
    BY <1>4, <1>5, GoodDests, FramesStay DEF Good
  <1>7. CASE d3.recording
    <2>1. d3.parsecount - d3.lastwritten <= Lag
      BY <1>4, <1>5, <1>7 DEF SameFrames
    <2>2. r = [d3 EXCEPT !.parsecount = d3.parsecount + 1]
      BY <1>7
    <2> QED
      BY <1>6, <2>1, <2>2, NextFrame
  <1>8. CASE ~d3.recording
    <2>1. r = d3
      BY <1>5, <1>8 DEF DemoType
    <2> QED
      BY <1>6, <2>1
  <1> QED
    BY <1>7, <1>8

(* A stream fails. *)
LEMMA StreamFailsKeeps ==
    ASSUME NEW d, NEW m, Good(d, m), NEW i \in DOMAIN d.dest,
           NEW r, r = [d EXCEPT !.dest[i].error = TRUE]
    PROVE  Good(r, m)
  <1> DEFINE U == UpToDates(m, d.blocks)
  <1>1. d \in DemoType /\ d.dest \in Seq(U)
    BY GoodDests
  <1>2. PICK list \in Seq(U) : list = d.dest /\ DOMAIN list = 1..Len(list)
    BY <1>1, LenProperties
  <1>3. PICK e : e = list[i] /\ e \in DestType /\ Sound(e, d.blocks)
    BY <1>2, ElementOfSeq DEF UpToDates, UpToDate
  <1>4. PICK f : f = [e EXCEPT !.error = TRUE]
    OBVIOUS
  <1>5. f \in U
    <2>1. /\ f \in DestType /\ f.type = e.type /\ f.cache = e.cache /\ f.out = e.out
          /\ f.error = TRUE
      BY <1>3, <1>4 DEF DestType
    <2> QED
      BY <1>3, <2>1 DEF UpToDates, UpToDate, Sound
  <1>6. PICK new : new = [list EXCEPT ![i] = f]
    OBVIOUS
  <1>7. new \in Seq(U) /\ Len(new) = Len(list)
    <2> HIDE DEF U
    <2> QED
      BY <1>2, <1>5, <1>6, ExceptSeq
  <1>8. new \in Seq(DestType)
    <2>1. U \subseteq DestType
      BY DEF UpToDates
    <2> HIDE DEF U
    <2> QED
      BY <1>7, <2>1, SeqMonotonic
  <1>9. r = [d EXCEPT !.dest = new]
    <2>1. [d EXCEPT !.dest[i].error = TRUE]
              = [d EXCEPT !.dest = [d.dest EXCEPT ![i] = [d.dest[i] EXCEPT !.error = TRUE]]]
      BY <1>1 DEF DemoType
    <2> QED
      BY <1>2, <1>3, <1>4, <1>6, <2>1
  <1>10. /\ r \in DemoType /\ r.dest = new /\ r.recording = d.recording /\ SameFrames(r, d)
         /\ r.blocks = d.blocks
    BY <1>1, <1>8, <1>9 DEF DemoType, SameFrames
  <1>11. Attended(r)
    <2>1. new # <<>> => d.dest # <<>>
      <3> HIDE DEF U
      <3> QED
        BY <1>2, <1>7, EmptySeq
    <2> QED
      BY <1>10, <2>1, GoodDests DEF Attended
  <1>12. FramesInv(r, m) /\ m \in Nat
    BY <1>10, GoodDests, FramesStay
  <1> QED
    BY <1>7, <1>10, <1>11, <1>12 DEF Good

-----------------------------------------------------------------------------
(* The invariant. *)
RecorderInv ==
    /\ demo.closing = <<>>
    /\ \E m : Good(demo, m)
    /\ closed \in Seq(WellClosed)

LEMMA BecomesGood ==
    ASSUME NEW d, NEW m, Good(d, m), NEW r, r = [d EXCEPT !.closing = <<>>]
    PROVE  r.closing = <<>> /\ Good(r, m) /\ d.closing \in Seq(WellClosed)
  <1>1. d \in DemoType /\ <<>> \in Seq(WellClosed)
    BY GoodDests, EmptySeq
  <1>2. /\ r \in DemoType /\ r.closing = <<>> /\ r.dest = d.dest
        /\ r.recording = d.recording /\ SameFrames(r, d) /\ r.blocks = d.blocks
        /\ d.closing \in Seq(WellClosed)
    BY <1>1 DEF DemoType, SameFrames
  <1>3. FramesInv(r, m) /\ m \in Nat
    BY <1>2, GoodDests, FramesStay
  <1> QED
    BY <1>2, <1>3, GoodDests DEF Good, Attended

LEMMA StepKeeps ==
    ASSUME NEW d, \E m : Good(d, m), Becomes(d)
    PROVE  RecorderInv'
  <1>1. PICK m : Good(d, m)
    OBVIOUS
  <1>2. PICK r : r = [d EXCEPT !.closing = <<>>]
    OBVIOUS
  <1>3. r.closing = <<>> /\ Good(r, m) /\ d.closing \in Seq(WellClosed)
    BY <1>1, <1>2, BecomesGood
  <1>4. PICK dd, cc : dd = demo' /\ cc = closed'
    OBVIOUS
  <1>5. dd = r /\ cc = d.closing
    BY <1>2, <1>4 DEF Becomes
  <1>6. dd.closing = <<>> /\ Good(dd, m) /\ cc \in Seq(WellClosed)
    BY <1>3, <1>5
  <1> QED
    BY <1>4, <1>6 DEF RecorderInv

LEMMA RecorderInitInv == RecorderInit => RecorderInv
  <1> SUFFICES ASSUME RecorderInit PROVE RecorderInv
    OBVIOUS
  <1>1. PICK d : d = demo
    OBVIOUS
  <1>2. PICK f, u : f = [s \in Places |-> EmptyFrame] /\ u = [s \in Places |-> 0]
    OBVIOUS
  <1>3. f \in [Places -> Frame] /\ u \in [Places -> Nat \cup {Unwritten}]
    BY <1>2, EmptyFrameIs
  <1>4. d = [recording |-> FALSE, dest |-> <<>>, closing |-> <<>>, blocks |-> 0,
             parsecount |-> 0, lastwritten |-> 0, frames |-> f,
             delta |-> 0, incoming |-> 0, updates |-> u]
    BY <1>1, <1>2, Zenon DEF RecorderInit, Places
  <1>5. <<>> \in Seq(DestType) /\ <<>> \in Seq(WellClosed)
    BY EmptySeq
  <1>6. /\ d \in DemoType /\ d.dest = <<>> /\ d.closing = <<>> /\ d.blocks = 0
        /\ d.parsecount = 0 /\ d.lastwritten = 0 /\ d.frames = f
    BY <1>3, <1>4, <1>5 DEF DemoType
  <1>7. \A s \in Places : d.frames[s] = EmptyFrame
    BY <1>2, <1>6
  <1>8. FramesInv(d, d.blocks + 1) /\ d.blocks + 1 \in Nat
    BY <1>6, <1>7, FreshFrames
  <1>9. <<>> \in Seq(UpToDates(d.blocks + 1, d.blocks))
    BY EmptySeq
  <1>10. Good(d, d.blocks + 1)
    BY <1>6, <1>8, <1>9 DEF Good, Attended
  <1> QED
    BY <1>1, <1>5, <1>6, <1>10 DEF RecorderInv, RecorderInit

LEMMA RecorderNextInv == RecorderInv /\ [RecorderNext]_recorder => RecorderInv'
  <1> SUFFICES ASSUME RecorderInv, [RecorderNext]_recorder PROVE RecorderInv'
    OBVIOUS
  <1>1. PICK m : Good(demo, m)
    BY DEF RecorderInv
  <1>2. CASE Write
    <2>1. PICK io : Becomes(MVDWrite(demo, Event, io))
      BY <1>2 DEF Write
    <2>2. PICK d : d = MVDWrite(demo, Event, io)
      OBVIOUS
    <2>3. Event \in Int /\ Event # Gamestate
      BY DEF Event, Gamestate
    <2>4. Good(d, m)
      BY <1>1, <2>2, <2>3, MVDWriteKeeps
    <2> QED
      BY <2>1, <2>2, <2>4, StepKeeps
  <1>3. CASE RecordFile
    <2>1. PICK x, type, io :
              /\ x \in Dest /\ type \in {"file", "buffered", "stream"}
              /\ Becomes(Record(demo, NewDest(x, type), io))
      BY <1>3 DEF RecordFile, Dest
    <2>2. PICK d : d = Record(demo, NewDest(x, type), io)
      OBVIOUS
    <2>3. \E n : Good(d, n)
      BY <1>1, <2>1, <2>2, RecordKeeps
    <2> QED
      BY <2>1, <2>2, <2>3, StepKeeps
  <1>4. CASE RecordStream
    <2>1. PICK x, io : x \in Dest /\ Becomes(Record(demo, NewDest(x, "stream"), io))
      BY <1>4 DEF RecordStream, Dest
    <2>2. PICK d : d = Record(demo, NewDest(x, "stream"), io)
      OBVIOUS
    <2>3. \E n : Good(d, n)
      <3>1. "stream" \in {"file", "buffered", "stream"}
        OBVIOUS
      <3> QED
        BY <1>1, <2>1, <2>2, <3>1, RecordKeeps
    <2> QED
      BY <2>1, <2>2, <2>3, StepKeeps
  <1>5. CASE Stop_f
    <2>1. PICK io : Becomes(StopRecording(demo, io))
      BY <1>5 DEF Stop_f
    <2>2. PICK d : d = StopRecording(demo, io)
      OBVIOUS
    <2>3. \E n : Good(d, n)
      BY <1>1, <2>2, StopRecordingKeeps
    <2> QED
      BY <2>1, <2>2, <2>3, StepKeeps
  <1>6. CASE Cancel_f
    <2>1. PICK io : Becomes(StopAndRemove(demo, TRUE, io))
      BY <1>6 DEF Cancel_f
    <2>2. PICK d : d = StopAndRemove(demo, TRUE, io)
      OBVIOUS
    <2>3. Good(d, m)
      BY <1>1, <2>2, StoppedGood
    <2> QED
      BY <2>1, <2>2, <2>3, StepKeeps
  <1>7. CASE Map_f
    <2>1. PICK io : Becomes(RecordMapChange(StopRecording(demo, io), io))
      BY <1>7 DEF Map_f
    <2>2. PICK e, d : e = StopRecording(demo, io) /\ d = RecordMapChange(e, io)
      OBVIOUS
    <2>3. PICK n : Good(e, n)
      BY <1>1, <2>2, StopRecordingKeeps
    <2>4. \E k : Good(d, k)
      BY <2>2, <2>3, RecordMapChangeKeeps
    <2> QED
      BY <2>1, <2>2, <2>4, StepKeeps
  <1>8. CASE LoadGame_f
    <2>1. PICK io : Becomes(RecordMapChange(demo, io))
      BY <1>8 DEF LoadGame_f
    <2>2. PICK d : d = RecordMapChange(demo, io)
      OBVIOUS
    <2>3. \E k : Good(d, k)
      BY <1>1, <2>2, RecordMapChangeKeeps
    <2> QED
      BY <2>1, <2>2, <2>3, StepKeeps
  <1>9. CASE StreamFails
    <2>1. PICK i \in DOMAIN demo.dest : Becomes([demo EXCEPT !.dest[i].error = TRUE])
      BY <1>9 DEF StreamFails
    <2>2. PICK d : d = [demo EXCEPT !.dest[i].error = TRUE]
      OBVIOUS
    <2>3. Good(d, m)
      BY <1>1, <2>2, StreamFailsKeeps
    <2> QED
      BY <2>1, <2>2, <2>3, StepKeeps
  <1>10. CASE SendDemoMessage
    <2>1. PICK io \in IO(Open), fits \in BOOLEAN :
             LET d1 == WriteUpdate(demo, fits, io)
                 d2 == IF d1.parsecount - d1.lastwritten > Lag
                       THEN WritePackets(d1, 1, io) ELSE d1
                 d3 == DestFlush(d2, FALSE, io)
             IN Becomes([d3 EXCEPT !.parsecount = IF d3.recording THEN @ + 1 ELSE @])
      BY <1>10, Zenon DEF SendDemoMessage
    <2>a. PICK d1, d2, d3, d :
              /\ d1 = WriteUpdate(demo, fits, io)
              /\ d2 = IF d1.parsecount - d1.lastwritten > Lag
                      THEN WritePackets(d1, 1, io) ELSE d1
              /\ d3 = DestFlush(d2, FALSE, io)
              /\ d = [d3 EXCEPT !.parsecount = IF d3.recording THEN @ + 1 ELSE @]
      OBVIOUS
    <2>b. Becomes(d)
      BY <2>1, <2>a, Zenon
    <2>2. \E k : Good(d, k)
      BY <1>1, <2>a, SendDemoMessageKeeps
    <2> QED
      BY <2>b, <2>2, StepKeeps
  <1>11. CASE UNCHANGED recorder
    BY <1>11 DEF recorder, RecorderInv
  <1> QED
    BY <1>2, <1>3, <1>4, <1>5, <1>6, <1>7, <1>8, <1>9, <1>10, <1>11 DEF RecorderNext

LEMMA WholeIs ==
    ASSUME NEW c, Whole(c)
    PROVE  /\ c # <<>> => c[1].base = Gamestate
           /\ \A i \in 2..Len(c) :
                 IF c[i].base = Gamestate THEN c[i].n >= c[i - 1].n
                 ELSE IF c[i - 1].base = Gamestate THEN c[i].n <= c[i - 1].n + 1
                 ELSE c[i].n = c[i - 1].n + 1
  BY DEF Whole, Follows

LEMMA RecorderSafe == RecorderInv => NothingMissing
  <1> SUFFICES ASSUME RecorderInv PROVE NothingMissing
    OBVIOUS
  <1>1. PICK m, d : d = demo /\ Good(d, m)
    BY DEF RecorderInv
  <1>2. PICK cs \in Seq(WellClosed) : cs = closed
    BY DEF RecorderInv
  <1>3. DOMAIN cs = 1..Len(cs) /\ \A i \in 1..Len(cs) : cs[i] \in WellClosed
    BY LenProperties, ElementOfSeq
  <1>4. StoppedIsWhole
    BY <1>2, <1>3 DEF StoppedIsWhole, WellClosed, Last
  <1>5. ASSUME NEW i \in DOMAIN d.dest
        PROVE  Whole(d.dest[i].out)
               /\ (~d.dest[i].error => Whole(d.dest[i].out \o d.dest[i].cache))
    <2>1. PICK list \in Seq(UpToDates(m, d.blocks)) :
              list = d.dest /\ DOMAIN list = 1..Len(list)
      BY <1>1, GoodDests, LenProperties
    <2>2. PICK e : e = d.dest[i] /\ Sound(e, d.blocks)
      BY <2>1, ElementOfSeq DEF UpToDates, UpToDate
    <2> QED
      BY <2>2 DEF Sound, Held
  <1>6. \A i \in 1..Len(cs) : Whole(cs[i].out)
    BY <1>3 DEF WellClosed
  <1>7. ASSUME NEW c \in Contents PROVE Whole(c)
    BY <1>1, <1>2, <1>3, <1>5, <1>6 DEF Contents
  <1> QED
    BY <1>4, <1>7, WholeIs DEF NothingMissing

(* No block is missing, repeated or out of place in what a recording has   *)
(* or had when it was closed, however frames are kept back, the level      *)
(* changes and writes fail: no reader is given a delta without its base    *)
(* (SV_MVDWritePacketsEx, DemoWriteDest, DestFlush, SV_MVDStop).           *)
THEOREM RecordingsWhole == RecorderSpec => []NothingMissing
  <1>1. RecorderInit => RecorderInv
    BY RecorderInitInv
  <1>2. RecorderInv /\ [RecorderNext]_recorder => RecorderInv'
    BY RecorderNextInv
  <1>3. RecorderInv => NothingMissing
    BY RecorderSafe
  <1> QED
    BY <1>1, <1>2, <1>3, PTL DEF RecorderSpec
=============================================================================
