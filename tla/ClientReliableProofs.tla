------------------------ MODULE ClientReliableProofs ------------------------
(***************************************************************************)
(* The reliable stream of a client (ClientReliable) loses nothing before   *)
(* svc_disconnect, for blocks and buffers of any size and any number of    *)
(* back buffers.                                                           *)
(***************************************************************************)
EXTENDS ClientReliable, SequenceTheorems, WellFoundedInduction, TLAPS

(* A set of numbers that is not empty has a least one. *)
LEMMA LeastNumber ==
    ASSUME NEW S \in SUBSET Nat, S # {}
    PROVE  \E x \in S : \A y \in S : x <= y
  <1> DEFINE less == {ss \in Nat \X Nat : ss[1] < ss[2]}
  <1>1. IsWellFoundedOn(less, Nat)
      BY NatLessThanWellFounded, Zenon DEF OpToRel
  <1>2. PICK x \in S : \A y \in S : ~(<<y, x>> \in less)
      BY <1>1, WFMin
  <1>3. ASSUME NEW y \in S PROVE x <= y
    <2>1. x \in Nat /\ y \in Nat /\ ~(<<y, x>> \in less)
        BY <1>2, <1>3
    <2>2. ~(y < x)
        BY <2>1
    <2> QED BY <2>1, <2>2
  <1> QED BY <1>3

-----------------------------------------------------------------------------
(* Types: a block, and one that is not svc_disconnect. *)
AnyBlock == [id : Nat, size : Nat, kind : Kinds]
Ordinary == AnyBlock \ {Disconnect}

(* Joining sequences of blocks: what FlattenSeq does, one step at a time. *)
Lists == Seq(Seq(AnyBlock))
StepOf(p, f, i) == IF i = 1 THEN p[i] ELSE f[i - 1] \o p[i]

(* Up to each place of a list, the function of FlattenSeq exists. *)
LEMMA FlattenUpTo ==
    ASSUME NEW p \in Lists
    PROVE  \A n \in 1..Len(p) : \E f : f = [i \in 1..n |-> StepOf(p, f, i)]
  <1> DEFINE Bad == {n \in 1..Len(p) : ~\E f : f = [i \in 1..n |-> StepOf(p, f, i)]}
  <1> SUFFICES ASSUME Bad # {} PROVE FALSE
    OBVIOUS
  <1>a. Bad \in SUBSET Nat /\ Len(p) \in Nat
    BY LenProperties DEF Lists
  <1>1. PICK n \in Bad : \A m \in Bad : n <= m
    <2> HIDE DEF Bad
    <2> QED
      BY <1>a, LeastNumber
  <1>2. n \in 1..Len(p)
    OBVIOUS
  <1>3. CASE n = 1
    <2> DEFINE g == [i \in 1..n |-> p[i]]
    <2>1. g = [i \in 1..n |-> StepOf(p, g, i)]
      BY <1>3 DEF StepOf
    <2> QED
      BY <2>1
  <1>4. CASE n # 1
    <2>1. n - 1 \in 1..Len(p) /\ n - 1 \notin Bad
      BY <1>1, <1>2, <1>4, <1>a
    <2>2. PICK f : f = [i \in 1..n - 1 |-> StepOf(p, f, i)]
      BY <2>1
    <2> DEFINE g == [i \in 1..n |-> IF i < n THEN f[i] ELSE StepOf(p, f, n)]
    <2>3. \A i \in 1..n : g[i] = StepOf(p, g, i)
      <3> TAKE i \in 1..n
      <3>1. i # 1 => i - 1 \in 1..n - 1 /\ g[i - 1] = f[i - 1]
        BY <1>2, <1>a
      <3>2. StepOf(p, g, i) = StepOf(p, f, i)
        BY <3>1 DEF StepOf
      <3>3. i < n => f[i] = StepOf(p, f, i)
        BY <2>2, <1>2, <1>a
      <3> QED
        BY <3>2, <3>3, <1>2, <1>a
    <2>4. g = [i \in 1..n |-> StepOf(p, g, i)]
      BY <2>3
    <2> QED
      BY <2>4
  <1> QED
    BY <1>3, <1>4

(* FlattenSeq is made place by place. *)
LEMMA FlattenSteps ==
    ASSUME NEW p \in Lists, Len(p) # 0
    PROVE  \E f : /\ f = [i \in 1..Len(p) |-> StepOf(p, f, i)]
                  /\ FlattenSeq(p) = f[Len(p)]
  <1> DEFINE Def(f) == f = [i \in 1..Len(p) |->
                  IF i = 1 THEN p[i] ELSE f[i - 1] \o p[i]]
             F == CHOOSE f : Def(f)
  <1>1. FlattenSeq(p) = F[Len(p)]
    BY DEF FlattenSeq
  <1>a. Len(p) \in 1..Len(p)
    BY LenProperties DEF Lists
  <1>2. \E f : f = [i \in 1..Len(p) |-> StepOf(p, f, i)]
    BY <1>a, FlattenUpTo, Zenon
  <1>3. \E f : Def(f)
    BY <1>2 DEF StepOf
  <1>4. Def(F)
    <2> HIDE DEF Def
    <2> QED
      BY <1>3, Zenon
  <1>5. F = [i \in 1..Len(p) |-> StepOf(p, F, i)]
    BY <1>4, Zenon DEF StepOf
  <1> HIDE DEF F
  <1> QED
    BY <1>1, <1>5

LEMMA FlattenNone == FlattenSeq(<<>>) = <<>>
  BY EmptySeq DEF FlattenSeq

(* What is joined is a sequence of blocks. *)
LEMMA FlattenTypes ==
    \A p \in Lists : FlattenSeq(p) \in Seq(AnyBlock)
  <1> SUFFICES ASSUME NEW p \in Lists PROVE FlattenSeq(p) \in Seq(AnyBlock)
    OBVIOUS
  <1>l. Len(p) \in Nat /\ \A i \in 1..Len(p) : p[i] \in Seq(AnyBlock)
    BY LenProperties, ElementOfSeq DEF Lists
  <1>1. CASE Len(p) = 0
    <2>1. p = <<>>
      BY <1>1, EmptySeq DEF Lists
    <2> QED
      BY <2>1, FlattenNone, EmptySeq
  <1>2. CASE Len(p) # 0
    <2>1. PICK f : /\ f = [i \in 1..Len(p) |-> StepOf(p, f, i)]
                   /\ FlattenSeq(p) = f[Len(p)]
      BY <1>2, FlattenSteps
    <2>2. \A i \in 1..Len(p) : f[i] = StepOf(p, f, i)
      BY <2>1
    <2> DEFINE Bad == {i \in 1..Len(p) : f[i] \notin Seq(AnyBlock)}
    <2>3. Bad = {}
      <3> SUFFICES ASSUME Bad # {} PROVE FALSE
        OBVIOUS
      <3>1. PICK n \in Bad : \A m \in Bad : n <= m
        <4>1. Bad \in SUBSET Nat
          BY <1>l
        <4> HIDE DEF Bad
        <4> QED
          BY <4>1, LeastNumber
      <3>2. n \in 1..Len(p) /\ f[n] \notin Seq(AnyBlock) /\ f[n] = StepOf(p, f, n)
        BY <2>2
      <3>3. CASE n = 1
        BY <3>2, <3>3, <1>l DEF StepOf
      <3>4. CASE n # 1
        <4>1. n - 1 \in 1..Len(p) /\ n - 1 \notin Bad
          <5> HIDE DEF Bad
          <5> QED
            BY <3>1, <3>2, <3>4, <1>l
        <4>2. f[n - 1] \in Seq(AnyBlock) /\ p[n] \in Seq(AnyBlock)
          BY <4>1, <3>2, <1>l
        <4>3. f[n - 1] \o p[n] \in Seq(AnyBlock)
          BY <4>2, ConcatProperties
        <4> QED
          BY <3>2, <3>4, <4>3 DEF StepOf
      <3> QED
        BY <3>3, <3>4
    <2>4. Len(p) \in 1..Len(p)
      BY <1>2, <1>l
    <2> QED
      BY <2>1, <2>3, <2>4
  <1> QED
    BY <1>1, <1>2

(* One more at the end. *)
LEMMA FlattenAppend ==
    \A p \in Lists, x \in Seq(AnyBlock) : FlattenSeq(Append(p, x)) = FlattenSeq(p) \o x
  <1> SUFFICES ASSUME NEW p \in Lists, NEW x \in Seq(AnyBlock)
               PROVE  FlattenSeq(Append(p, x)) = FlattenSeq(p) \o x
    OBVIOUS
  <1>1. PICK q : q = Append(p, x)
    OBVIOUS
  <1>2. /\ q \in Lists /\ Len(q) = Len(p) + 1 /\ Len(p) \in Nat
        /\ \A i \in 1..Len(p) : q[i] = p[i]
        /\ q[Len(p) + 1] = x
    BY <1>1, AppendProperties, LenProperties DEF Lists
  <1>3. PICK g : /\ g = [i \in 1..Len(q) |-> StepOf(q, g, i)]
                 /\ FlattenSeq(q) = g[Len(q)]
    BY <1>2, FlattenSteps
  <1>4. \A i \in 1..Len(q) : g[i] = StepOf(q, g, i)
    BY <1>3
  <1>5. CASE Len(p) = 0
    <2>1. p = <<>>
      BY <1>5, EmptySeq DEF Lists
    <2>2. g[1] = x
      BY <1>2, <1>4, <1>5 DEF StepOf
    <2>3. FlattenSeq(p) \o x = x
      BY <2>1, FlattenNone, ConcatEmptySeq
    <2> QED
      BY <1>1, <1>2, <1>3, <1>5, <2>2, <2>3
  <1>6. CASE Len(p) # 0
    <2>1. PICK f : /\ f = [i \in 1..Len(p) |-> StepOf(p, f, i)]
                   /\ FlattenSeq(p) = f[Len(p)]
      BY <1>6, FlattenSteps
    <2>2. \A i \in 1..Len(p) : f[i] = StepOf(p, f, i)
      BY <2>1
    <2> DEFINE Bad == {i \in 1..Len(p) : g[i] # f[i]}
    <2>3. Bad = {}
      <3> SUFFICES ASSUME Bad # {} PROVE FALSE
        OBVIOUS
      <3>1. PICK n \in Bad : \A m \in Bad : n <= m
        <4>1. Bad \in SUBSET Nat
          BY <1>2
        <4> HIDE DEF Bad
        <4> QED
          BY <4>1, LeastNumber
      <3>2. n \in 1..Len(p) /\ g[n] # f[n]
        OBVIOUS
      <3>3. g[n] = StepOf(q, g, n) /\ f[n] = StepOf(p, f, n) /\ q[n] = p[n]
        BY <3>2, <1>2, <1>4, <2>2
      <3>4. n # 1 => g[n - 1] = f[n - 1]
        <4>1. n # 1 => n - 1 \in 1..Len(p) /\ n - 1 \notin Bad
          <5> HIDE DEF Bad
          <5> QED
            BY <3>1, <3>2, <1>2
        <4> QED
          BY <4>1
      <3> QED
        BY <3>2, <3>3, <3>4 DEF StepOf
    <2>4. g[Len(p)] = f[Len(p)]
      BY <2>3, <1>6, <1>2
    <2>5. g[Len(q)] = g[Len(p)] \o x
      <3>1. Len(q) \in 1..Len(q) /\ Len(q) # 1 /\ Len(q) - 1 = Len(p) /\ q[Len(q)] = x
        BY <1>2, <1>6
      <3> QED
        BY <3>1, <1>4 DEF StepOf
    <2> QED
      BY <1>1, <1>3, <2>1, <2>4, <2>5
  <1> QED
    BY <1>5, <1>6

(* What joining two sequences gives, and that three may be joined in any order. *)
JoinedWell(S, s, t) ==
    /\ s \o t \in Seq(S) /\ Len(s \o t) = Len(s) + Len(t)
    /\ \A i \in 1..Len(s) + Len(t) :
          (s \o t)[i] = IF i <= Len(s) THEN s[i] ELSE t[i - Len(s)]
Regrouped(s, t, u) == (s \o t) \o u = s \o (t \o u)

LEMMA JoinBlocks == \A s, t \in Seq(AnyBlock) : JoinedWell(AnyBlock, s, t)
  BY ConcatProperties DEF JoinedWell

LEMMA JoinLists == \A s, t \in Lists : JoinedWell(Seq(AnyBlock), s, t)
  BY ConcatProperties DEF JoinedWell, Lists

LEMMA RegroupBlocks == \A s, t, u \in Seq(AnyBlock) : Regrouped(s, t, u)
  BY ConcatAssociative DEF Regrouped

LEMMA RegroupLists == \A s, t, u \in Lists : Regrouped(s, t, u)
  <1> DEFINE S == Seq(AnyBlock)
  <1> HIDE DEF S
  <1>1. \A s, t, u \in Seq(S) : Regrouped(s, t, u)
    BY ConcatAssociative DEF Regrouped
  <1> QED
    BY <1>1 DEF Lists, S

(* Two lists of sequences, one after the other. *)
LEMMA FlattenConcat ==
    \A p, r \in Lists : FlattenSeq(p \o r) = FlattenSeq(p) \o FlattenSeq(r)
  <1> SUFFICES ASSUME NEW p \in Lists
               PROVE  \A r \in Lists : FlattenSeq(p \o r) = FlattenSeq(p) \o FlattenSeq(r)
    OBVIOUS
  <1> DEFINE Fails(r) == FlattenSeq(p \o r) # FlattenSeq(p) \o FlattenSeq(r)
             Bad == {n \in Nat : \E r \in Lists : Len(r) = n /\ Fails(r)}
  <1>1. Bad = {}
    <2> SUFFICES ASSUME Bad # {} PROVE FALSE
      OBVIOUS
    <2>1. PICK n \in Bad : \A m \in Bad : n <= m
      <3>1. Bad \in SUBSET Nat
        OBVIOUS
      <3> HIDE DEF Bad
      <3> QED
        BY <3>1, LeastNumber
    <2>2. PICK r \in Lists : Len(r) = n /\ Fails(r)
      OBVIOUS
    <2>3. r # <<>>
      <3>1. FlattenSeq(p) \in Seq(AnyBlock)
        BY FlattenTypes
      <3>2. p \o <<>> = p
        BY ConcatEmptySeq DEF Lists
      <3>3. FlattenSeq(p) \o <<>> = FlattenSeq(p)
        BY <3>1, ConcatEmptySeq
      <3> QED
        BY <2>2, <3>2, <3>3, FlattenNone
    <2>4. PICK s \in Lists, e \in Seq(AnyBlock) : r = Append(s, e)
      BY <2>3, SequenceEmptyOrAppend DEF Lists
    <2>5. Len(r) = Len(s) + 1 /\ Len(s) \in Nat
      BY <2>4, AppendProperties, LenProperties DEF Lists
    <2>6. ~Fails(s)
      <3>1. Len(s) < n
        BY <2>2, <2>5
      <3>2. Len(s) \notin Bad
        <4> HIDE DEF Bad
        <4> QED
          BY <2>1, <2>5, <3>1, <2>2
      <3> QED
        BY <2>5, <3>2
    <2>7. p \o r = Append(p \o s, e) /\ p \o s \in Lists
      <3>1. p \o s \in Lists
        BY ConcatProperties DEF Lists
      <3>2. r = s \o <<e>> /\ <<e>> \in Lists
        BY <2>4, AppendIsConcat DEF Lists
      <3>3. Append(p \o s, e) = (p \o s) \o <<e>>
        BY <3>1, AppendIsConcat DEF Lists
      <3>4. PICK one \in Lists : one = <<e>>
        BY <3>2
      <3>5. (p \o s) \o one = p \o (s \o one)
        BY RegroupLists DEF Regrouped
      <3> QED
        BY <3>1, <3>2, <3>3, <3>4, <3>5
    <2>8. FlattenSeq(p \o r) = (FlattenSeq(p) \o FlattenSeq(s)) \o e
      BY <2>6, <2>7, FlattenAppend
    <2>9. FlattenSeq(r) = FlattenSeq(s) \o e
      BY <2>4, FlattenAppend
    <2>10. PICK a \in Seq(AnyBlock), b \in Seq(AnyBlock) : a = FlattenSeq(p) /\ b = FlattenSeq(s)
      BY FlattenTypes
    <2>11. (a \o b) \o e = a \o (b \o e)
      BY RegroupBlocks DEF Regrouped
    <2> QED
      BY <2>2, <2>8, <2>9, <2>10, <2>11
  <1>2. ASSUME NEW r \in Lists PROVE ~Fails(r)
    <2>1. Len(r) \in Nat /\ Len(r) \notin Bad
      BY <1>1, LenProperties DEF Lists
    <2> QED
      BY <2>1
  <1> QED
    BY <1>2

(* The first of the back buffers, and what is added to the last. *)
LEMMA FlattenOne == \A x \in Seq(AnyBlock) : FlattenSeq(<<x>>) = x
  <1> TAKE x \in Seq(AnyBlock)
  <1>1. <<>> \in Lists /\ Append(<<>>, x) = <<x>>
    BY EmptySeq DEF Lists
  <1>2. FlattenSeq(Append(<<>>, x)) = FlattenSeq(<<>>) \o x
    BY <1>1, FlattenAppend
  <1>3. <<>> \o x = x
    BY ConcatEmptySeq
  <1> QED
    BY <1>1, <1>2, <1>3, FlattenNone

LEMMA FlattenHead ==
    \A p \in Lists : p # <<>> =>
        /\ Head(p) \in Seq(AnyBlock) /\ Tail(p) \in Lists
        /\ FlattenSeq(p) = Head(p) \o FlattenSeq(Tail(p))
  <1> SUFFICES ASSUME NEW p \in Lists, p # <<>>
               PROVE  /\ Head(p) \in Seq(AnyBlock) /\ Tail(p) \in Lists
                      /\ FlattenSeq(p) = Head(p) \o FlattenSeq(Tail(p))
    OBVIOUS
  <1>1. PICK h, t : h = Head(p) /\ t = Tail(p)
    OBVIOUS
  <1>2. /\ h \in Seq(AnyBlock) /\ t \in Lists /\ Len(p) \in Nat /\ Len(p) # 0
        /\ Len(t) = Len(p) - 1 /\ h = p[1] /\ \A i \in 1..Len(t) : t[i] = p[i + 1]
    <2>1. Len(p) \in Nat /\ Len(p) # 0
      BY LenProperties, EmptySeq DEF Lists
    <2>2. h \in Seq(AnyBlock) /\ t \in Lists /\ Len(t) = Len(p) - 1
      BY <1>1, HeadTailProperties DEF Lists
    <2>3. h = p[1] /\ \A i \in 1..Len(t) : t[i] = p[i + 1]
      BY <1>1, <2>1, <2>2, HeadTailProperties DEF Lists
    <2> QED
      BY <2>1, <2>2, <2>3
  <1>3. PICK one \in Lists : one = <<h>> /\ Len(one) = 1 /\ one[1] = h
    <2>1. PICK hh \in Seq(AnyBlock) : hh = h
      BY <1>2
    <2>2. <<hh>> \in Lists
      BY DEF Lists
    <2>3. Len(<<hh>>) = 1 /\ <<hh>>[1] = hh
      OBVIOUS
    <2> QED
      BY <2>1, <2>2, <2>3
  <1>4. one \o t = p
    <2>1. JoinedWell(Seq(AnyBlock), one, t)
      BY <1>2, JoinLists
    <2>2. one \o t \in Lists /\ Len(one \o t) = Len(p)
      BY <2>1, <1>2, <1>3 DEF Lists, JoinedWell
    <2>3. ASSUME NEW i \in 1..Len(p) PROVE (one \o t)[i] = p[i]
      <3>1. CASE i = 1
        BY <3>1, <2>1, <1>2, <1>3 DEF JoinedWell
      <3>2. CASE i # 1
        <4>1. i - 1 \in 1..Len(t) /\ t[i - 1] = p[(i - 1) + 1] /\ (i - 1) + 1 = i
          BY <3>2, <1>2
        <4>2. (one \o t)[i] = t[i - 1]
          BY <3>2, <2>1, <1>2, <1>3 DEF JoinedWell
        <4> QED
          BY <4>1, <4>2
      <3> QED
        BY <3>1, <3>2
    <2> QED
      BY <2>2, <2>3, SeqEqual DEF Lists
  <1>5. FlattenSeq(one \o t) = FlattenSeq(one) \o FlattenSeq(t)
    BY <1>2, FlattenConcat
  <1>6. FlattenSeq(one) = h
    BY <1>2, <1>3, FlattenOne
  <1> QED
    BY <1>1, <1>2, <1>4, <1>5, <1>6

LEMMA FlattenLast ==
    \A p \in Lists, x \in Seq(AnyBlock) : p # <<>> =>
        /\ [p EXCEPT ![Len(p)] = @ \o x] \in Lists
        /\ FlattenSeq([p EXCEPT ![Len(p)] = @ \o x]) = FlattenSeq(p) \o x
  <1> SUFFICES ASSUME NEW p \in Lists, NEW x \in Seq(AnyBlock), p # <<>>
               PROVE  /\ [p EXCEPT ![Len(p)] = @ \o x] \in Lists
                      /\ FlattenSeq([p EXCEPT ![Len(p)] = @ \o x]) = FlattenSeq(p) \o x
    OBVIOUS
  <1>1. PICK q \in Lists, e \in Seq(AnyBlock) : p = Append(q, e)
    BY SequenceEmptyOrAppend DEF Lists
  <1>2. PICK f \in Seq(AnyBlock) : f = e \o x
    BY ConcatProperties
  <1>3. /\ Len(p) = Len(q) + 1 /\ Len(q) \in Nat /\ p[Len(p)] = e /\ DOMAIN p = 1..Len(p)
        /\ \A i \in 1..Len(q) : p[i] = q[i]
    BY <1>1, AppendProperties, LenProperties DEF Lists
  <1>4. PICK r : r = [p EXCEPT ![Len(p)] = @ \o x]
    OBVIOUS
  <1>5. r = [p EXCEPT ![Len(p)] = f]
    BY <1>2, <1>3, <1>4
  <1>6. r \in Lists /\ Len(r) = Len(p)
    BY <1>5, <1>3, ExceptSeq DEF Lists
  <1>7. r = Append(q, f)
    <2>1. /\ Append(q, f) \in Lists /\ Len(Append(q, f)) = Len(q) + 1
          /\ \A i \in 1..Len(q) : Append(q, f)[i] = q[i]
          /\ Append(q, f)[Len(q) + 1] = f
      BY AppendProperties DEF Lists
    <2>2. ASSUME NEW i \in 1..Len(r) PROVE r[i] = Append(q, f)[i]
      <3>1. CASE i = Len(p)
        BY <3>1, <2>1, <1>3, <1>5, <1>6
      <3>2. CASE i # Len(p)
        <4>1. i \in 1..Len(q) /\ r[i] = p[i]
          BY <3>2, <1>3, <1>5, <1>6
        <4> QED
          BY <4>1, <2>1, <1>3
      <3> QED
        BY <3>1, <3>2
    <2> QED
      BY <2>1, <2>2, <1>3, <1>6, SeqEqual DEF Lists
  <1>8. FlattenSeq(r) = FlattenSeq(q) \o f /\ FlattenSeq(p) = FlattenSeq(q) \o e
    BY <1>1, <1>7, FlattenAppend
  <1>9. PICK a \in Seq(AnyBlock) : a = FlattenSeq(q)
    BY FlattenTypes
  <1>10. (a \o e) \o x = a \o (e \o x)
    BY RegroupBlocks DEF Regrouped
  <1> QED
    BY <1>2, <1>4, <1>6, <1>8, <1>9, <1>10

-----------------------------------------------------------------------------
(* Checked, which joins what each block is worth. *)
PickOf(b) == IF b.kind = "block" THEN <<b>> ELSE <<>>
Picks(s) == [i \in DOMAIN s |-> PickOf(s[i])]

LEMMA PicksAre ==
    \A s \in Seq(AnyBlock) :
        /\ Picks(s) \in Lists /\ Len(Picks(s)) = Len(s)
        /\ \A i \in 1..Len(s) : Picks(s)[i] = PickOf(s[i])
        /\ Checked(s) = FlattenSeq(Picks(s))
  <1> SUFFICES ASSUME NEW s \in Seq(AnyBlock)
               PROVE  /\ Picks(s) \in Lists /\ Len(Picks(s)) = Len(s)
                      /\ \A i \in 1..Len(s) : Picks(s)[i] = PickOf(s[i])
                      /\ Checked(s) = FlattenSeq(Picks(s))
    OBVIOUS
  <1>1. /\ Len(s) \in Nat /\ DOMAIN s = 1..Len(s)
        /\ \A i \in 1..Len(s) : s[i] \in AnyBlock
    BY LenProperties, ElementOfSeq
  <1>2. \A b \in AnyBlock : PickOf(b) \in Seq(AnyBlock)
    BY EmptySeq DEF PickOf
  <1>3. Picks(s) = [i \in 1..Len(s) |-> PickOf(s[i])]
    BY <1>1 DEF Picks
  <1>4. \A i \in 1..Len(s) : PickOf(s[i]) \in Seq(AnyBlock)
    BY <1>1, <1>2
  <1>5. Picks(s) \in Lists /\ Len(Picks(s)) = Len(s)
    BY <1>1, <1>3, <1>4, IsASeq DEF Lists
  <1>6. \A i \in 1..Len(s) : Picks(s)[i] = PickOf(s[i])
    BY <1>3
  <1>7. Checked(s) = FlattenSeq(Picks(s))
    BY Zenon DEF Checked, Picks, PickOf
  <1> QED
    BY <1>5, <1>6, <1>7

LEMMA CheckedTypes ==
    \A s \in Seq(AnyBlock) : Checked(s) \in Seq(AnyBlock)
  BY PicksAre, FlattenTypes

LEMMA CheckedConcat ==
    \A s, t \in Seq(AnyBlock) : Checked(s \o t) = Checked(s) \o Checked(t)
  <1> SUFFICES ASSUME NEW s \in Seq(AnyBlock), NEW t \in Seq(AnyBlock)
               PROVE  Checked(s \o t) = Checked(s) \o Checked(t)
    OBVIOUS
  <1>1. JoinedWell(AnyBlock, s, t)
    BY JoinBlocks
  <1>2. PICK u \in Seq(AnyBlock) : u = s \o t
    BY <1>1 DEF JoinedWell
  <1>3. PICK p \in Lists, q \in Lists, w \in Lists : p = Picks(s) /\ q = Picks(t) /\ w = Picks(u)
    BY PicksAre
  <1>4. JoinedWell(Seq(AnyBlock), p, q)
    BY JoinLists
  <1>5. /\ Len(s) \in Nat /\ Len(t) \in Nat /\ Len(u) = Len(s) + Len(t)
        /\ Len(p) = Len(s) /\ Len(q) = Len(t) /\ Len(w) = Len(u)
    BY <1>1, <1>2, <1>3, PicksAre, LenProperties DEF JoinedWell
  <1>6. w = p \o q
    <2>1. PICK j \in Seq(Seq(AnyBlock)) : j = p \o q /\ Len(j) = Len(w)
      BY <1>4, <1>5 DEF JoinedWell
    <2>2. ASSUME NEW i \in 1..Len(w) PROVE w[i] = j[i]
      <3>1. w[i] = PickOf(u[i])
        BY <1>2, <1>3, <1>5, PicksAre
      <3>2. CASE i <= Len(s)
        <4>1. u[i] = s[i] /\ j[i] = p[i]
          BY <3>2, <1>1, <1>2, <1>4, <1>5, <2>1 DEF JoinedWell
        <4>2. p[i] = PickOf(s[i])
          BY <3>2, <1>3, <1>5, PicksAre
        <4> QED
          BY <3>1, <4>1, <4>2
      <3>3. CASE i > Len(s)
        <4>1. PICK k \in 1..Len(t) : k = i - Len(s)
          <5>1. i - Len(s) \in 1..Len(t)
            BY <3>3, <1>5
          <5> QED
            BY <5>1
        <4>2. u[i] = t[k] /\ j[i] = q[k]
          BY <4>1, <3>3, <1>1, <1>2, <1>4, <1>5, <2>1 DEF JoinedWell
        <4>3. q[k] = PickOf(t[k])
          BY <1>3, PicksAre
        <4> QED
          BY <3>1, <4>2, <4>3
      <3> QED
        BY <3>2, <3>3, <1>5
    <2>3. w \in Seq(Seq(AnyBlock))
      BY DEF Lists
    <2> QED
      BY <2>1, <2>2, <2>3, SeqEqual
  <1>7. FlattenSeq(p \o q) = FlattenSeq(p) \o FlattenSeq(q)
    BY FlattenConcat
  <1> QED
    BY <1>2, <1>3, <1>6, <1>7, PicksAre

LEMMA CheckedNone == Checked(<<>>) = <<>>
  <1>1. PICK s \in Seq(AnyBlock) : s = <<>>
    BY EmptySeq
  <1>2. Picks(s) \in Lists /\ Len(Picks(s)) = 0 /\ Checked(s) = FlattenSeq(Picks(s))
    BY <1>1, PicksAre, EmptySeq
  <1>3. Picks(s) = <<>>
    BY <1>2, EmptySeq DEF Lists
  <1> QED
    BY <1>1, <1>2, <1>3, FlattenNone

LEMMA OneBlock == \A b \in AnyBlock : <<b>> \in Seq(AnyBlock) /\ Len(<<b>>) = 1 /\ <<b>>[1] = b
  OBVIOUS

LEMMA OneList == \A x \in Seq(AnyBlock) : <<x>> \in Lists /\ Len(<<x>>) = 1 /\ <<x>>[1] = x
  BY DEF Lists

LEMMA CheckedOne ==
    \A b \in AnyBlock : Checked(<<b>>) = PickOf(b)
  <1> SUFFICES ASSUME NEW b \in AnyBlock PROVE Checked(<<b>>) = PickOf(b)
    OBVIOUS
  <1>1. PICK s \in Seq(AnyBlock) : s = <<b>> /\ Len(s) = 1 /\ s[1] = b
    BY OneBlock, Zenon
  <1>2. /\ Picks(s) \in Lists /\ Len(Picks(s)) = 1 /\ Picks(s)[1] = PickOf(b)
        /\ Checked(s) = FlattenSeq(Picks(s))
    <2>1. /\ Picks(s) \in Lists /\ Len(Picks(s)) = Len(s)
          /\ \A i \in 1..Len(s) : Picks(s)[i] = PickOf(s[i])
          /\ Checked(s) = FlattenSeq(Picks(s))
      BY PicksAre
    <2>2. 1 \in 1..Len(s)
      BY <1>1
    <2>3. Picks(s)[1] = PickOf(s[1])
      BY <2>1, <2>2
    <2> QED
      BY <1>1, <2>1, <2>3
  <1>3. PICK x \in Seq(AnyBlock) : x = PickOf(b)
    <2>1. PickOf(b) \in Seq(AnyBlock)
      BY EmptySeq DEF PickOf
    <2> QED
      BY <2>1
  <1>4. PICK one \in Lists : one = <<x>> /\ Len(one) = 1 /\ one[1] = x
    BY OneList, Zenon
  <1>5. Picks(s) = one
    <2>1. PICK p \in Seq(Seq(AnyBlock)) : p = Picks(s)
      BY <1>2 DEF Lists
    <2> QED
      BY <2>1, <1>2, <1>3, <1>4, SeqEqual DEF Lists
  <1>6. FlattenSeq(one) = x
    BY <1>4, FlattenOne
  <1> QED
    BY <1>1, <1>2, <1>3, <1>5, <1>6

-----------------------------------------------------------------------------
(* The client, its state kept by everything but a drop. *)
OrdinaryLists(p) == \A k \in DOMAIN p : p[k] \in Seq(Ordinary)

ClientType ==
    {c \in [state : {"active", "zombie"}, message : Seq(AnyBlock), overflowed : BOOLEAN,
            backbuf : Lists, allowoverflow : BOOLEAN, reliable_buf : Seq(AnyBlock)] :
        OrdinaryLists(c.backbuf)}

Waiting(c) == c.message \o FlattenSeq(c.backbuf)

LEMMA OrdinaryBlocks ==
    \A s \in Seq(Ordinary) : s \in Seq(AnyBlock)
  BY DEF Ordinary

LEMMA JoinOrdinary ==
    \A s, t \in Seq(Ordinary) : s \o t \in Seq(Ordinary)
  BY ConcatProperties

(* ClientReliableCheckBlock finds or sets up a buffer, or marks that a block *)
(* is lost.                                                                *)
Prepared(c, k) ==
    /\ k \in ClientType /\ k.state = c.state /\ k.message = c.message
    /\ k.reliable_buf = c.reliable_buf
    /\ c.overflowed => k.overflowed
    /\ ~k.overflowed => FlattenSeq(k.backbuf) = FlattenSeq(c.backbuf)

LEMMA CheckBlockPrepares ==
    ASSUME NEW c \in ClientType, NEW n, NEW k, k = CheckBlock(c, n)
    PROVE  Prepared(c, k)
  <1>1. PICK p \in Lists : p = c.backbuf /\ OrdinaryLists(p)
    BY DEF ClientType
  <1>2. Len(p) \in Nat /\ DOMAIN p = 1..Len(p)
    BY LenProperties DEF Lists
  <1>3. <<>> \in Seq(AnyBlock) /\ <<>> \in Seq(Ordinary)
    BY EmptySeq
  <1>4. ASSUME NEW q, q \in Lists, OrdinaryLists(q), NEW o \in BOOLEAN, NEW a \in BOOLEAN,
               k = [[[c EXCEPT !.backbuf = q] EXCEPT !.overflowed = o] EXCEPT !.allowoverflow = a],
               c.overflowed => o, o \/ FlattenSeq(q) = FlattenSeq(p)
        PROVE  Prepared(c, k)
    <2>1. /\ k.backbuf = q /\ k.overflowed = o /\ k.state = c.state /\ k.message = c.message
          /\ k.reliable_buf = c.reliable_buf
          /\ k \in [state : {"active", "zombie"}, message : Seq(AnyBlock), overflowed : BOOLEAN,
                   backbuf : Lists, allowoverflow : BOOLEAN, reliable_buf : Seq(AnyBlock)]
      BY <1>4 DEF ClientType
    <2>2. k \in ClientType
      BY <1>4, <2>1 DEF ClientType
    <2> QED
      BY <1>1, <1>4, <2>1, <2>2 DEF Prepared
  <1>5. CASE k = c
    BY <1>5 DEF Prepared
  <1>6. CASE k = [c EXCEPT !.backbuf[MaxBackbuf] = <<>>, !.overflowed = TRUE]
             /\ Len(c.backbuf) = MaxBackbuf
    <2>1. MaxBackbuf \in 1..Len(p)
      BY <1>1, <1>2, <1>6, BlocksAssumption
    <2>2. PICK q : q = [p EXCEPT ![MaxBackbuf] = <<>>]
      OBVIOUS
    <2>3. q \in Lists
      BY <1>3, <2>1, <2>2, ExceptSeq DEF Lists
    <2>4. OrdinaryLists(q)
      BY <1>1, <1>3, <2>2 DEF OrdinaryLists
    <2>5. k = [[[c EXCEPT !.backbuf = q] EXCEPT !.overflowed = TRUE]
                  EXCEPT !.allowoverflow = c.allowoverflow]
      BY <1>1, <1>6, <2>2 DEF ClientType
    <2>6. c.allowoverflow \in BOOLEAN
      BY DEF ClientType
    <2> QED
      BY <1>4, <2>3, <2>4, <2>5, <2>6
  <1>7. CASE k = [c EXCEPT !.backbuf = Append(@, <<>>), !.allowoverflow = TRUE]
    <2>1. PICK q : q = Append(p, <<>>)
      OBVIOUS
    <2>2. /\ q \in Lists /\ Len(q) = Len(p) + 1 /\ q[Len(p) + 1] = <<>>
          /\ \A i \in 1..Len(p) : q[i] = p[i]
      BY <1>3, <2>1, AppendProperties DEF Lists
    <2>3. OrdinaryLists(q)
      <3>1. DOMAIN q = 1..Len(p) + 1
        BY <2>2, LenProperties DEF Lists
      <3>2. ASSUME NEW i \in 1..Len(p) + 1 PROVE q[i] \in Seq(Ordinary)
        <4>1. CASE i = Len(p) + 1
          BY <4>1, <1>3, <2>2
        <4>2. CASE i # Len(p) + 1
          <5>1. i \in DOMAIN p /\ q[i] = p[i]
            BY <4>2, <1>2, <2>2
          <5> QED
            BY <5>1, <1>1 DEF OrdinaryLists
        <4> QED
          BY <4>1, <4>2
      <3> QED
        BY <3>1, <3>2 DEF OrdinaryLists
    <2>4. FlattenSeq(q) = FlattenSeq(p)
      <3>1. FlattenSeq(q) = FlattenSeq(p) \o <<>>
        BY <1>3, <2>1, FlattenAppend
      <3>2. FlattenSeq(p) \in Seq(AnyBlock)
        BY FlattenTypes
      <3> QED
        BY <3>1, <3>2, ConcatEmptySeq
    <2>5. k = [[[c EXCEPT !.backbuf = q] EXCEPT !.overflowed = c.overflowed]
                  EXCEPT !.allowoverflow = TRUE]
      BY <1>1, <1>7, <2>1 DEF ClientType
    <2>6. c.overflowed \in BOOLEAN
      BY DEF ClientType
    <2> QED
      BY <1>4, <2>2, <2>3, <2>4, <2>5, <2>6
  <1> QED
    BY <1>5, <1>6, <1>7, Zenon DEF CheckBlock

(* The writes go behind all that waits, or mark that it is lost. *)
Written(c, bs, r) ==
    /\ r \in ClientType /\ r.state = c.state /\ r.reliable_buf = c.reliable_buf
    /\ c.overflowed => r.overflowed
    /\ r.message \in {c.message, c.message \o bs, bs}
    /\ ~r.overflowed => Waiting(r) = Waiting(c) \o bs

LEMMA PutWrites ==
    ASSUME NEW c \in ClientType, NEW bs \in Seq(Ordinary), NEW r, r = Put(c, bs)
    PROVE  Written(c, bs, r)
  <1>1. PICK p \in Lists, m \in Seq(AnyBlock) :
            p = c.backbuf /\ m = c.message /\ OrdinaryLists(p)
    BY DEF ClientType
  <1>2. bs \in Seq(AnyBlock)
    BY OrdinaryBlocks
  <1>3. PICK f \in Seq(AnyBlock) : f = FlattenSeq(p)
    BY FlattenTypes
  <1>4. m \o bs \in Seq(AnyBlock)
    BY <1>2, JoinBlocks DEF JoinedWell
  <1>5. CASE p = <<>>
    <2>1. f = <<>>
      BY <1>3, <1>5, FlattenNone
    <2>2. Waiting(c) \o bs = m \o bs
      BY <1>1, <1>3, <2>1, ConcatEmptySeq DEF Waiting
    <2>3. CASE r = [c EXCEPT !.message = @ \o bs]
      <3>1. /\ r.message = m \o bs /\ r.backbuf = p /\ r \in ClientType
            /\ r.state = c.state /\ r.reliable_buf = c.reliable_buf
            /\ r.overflowed = c.overflowed
        BY <1>1, <1>4, <2>3 DEF ClientType
      <3>2. Waiting(r) = m \o bs
        BY <1>3, <1>4, <2>1, <3>1, ConcatEmptySeq DEF Waiting
      <3> QED
        BY <1>1, <2>2, <3>1, <3>2 DEF Written
    <2>4. CASE r = [[c EXCEPT !.message = bs] EXCEPT !.overflowed = TRUE]
      BY <1>1, <1>2, <2>4 DEF ClientType, Written
    <2>5. r = WriteMessage(c, bs)
      BY <1>1, <1>5, Zenon DEF Put
    <2> QED
      BY <2>3, <2>4, <2>5, Zenon DEF WriteMessage
  <1>6. CASE p # <<>>
    <2>1. PICK n \in 1..Len(p) : n = Len(p) /\ p[n] \in Seq(Ordinary)
      <3>1. Len(p) \in 1..Len(p) /\ DOMAIN p = 1..Len(p)
        BY <1>6, EmptySeq, LenProperties DEF Lists
      <3> QED
        BY <1>1, <3>1 DEF OrdinaryLists
    <2>2. p[n] \o bs \in Seq(Ordinary)
      BY <2>1, JoinOrdinary
    <2>3. CASE r = [c EXCEPT !.backbuf[n] = @ \o bs]
      <3>1. PICK q : q = [p EXCEPT ![n] = @ \o bs]
        OBVIOUS
      <3>2. q \in Lists /\ FlattenSeq(q) = f \o bs
        BY <1>2, <1>3, <1>6, <2>1, <3>1, FlattenLast
      <3>3. OrdinaryLists(q)
        BY <1>1, <2>2, <3>1 DEF OrdinaryLists
      <3>4. r = [c EXCEPT !.backbuf = q]
        BY <1>1, <2>3, <3>1 DEF ClientType
      <3>5. /\ r.message = m /\ r.backbuf = q /\ r \in ClientType
            /\ r.state = c.state /\ r.reliable_buf = c.reliable_buf
            /\ r.overflowed = c.overflowed
        BY <1>1, <3>2, <3>3, <3>4 DEF ClientType
      <3>6. (m \o f) \o bs = m \o (f \o bs)
        BY <1>2, RegroupBlocks DEF Regrouped
      <3> QED
        BY <1>1, <1>3, <3>2, <3>5, <3>6 DEF Written, Waiting
    <2>4. CASE r = [[c EXCEPT !.backbuf[n] = bs] EXCEPT !.overflowed = TRUE]
      <3>1. PICK q : q = [p EXCEPT ![n] = bs]
        OBVIOUS
      <3>2. q \in Lists
        BY <1>2, <3>1, ExceptSeq DEF Lists
      <3>3. OrdinaryLists(q)
        BY <1>1, <3>1 DEF OrdinaryLists
      <3>4. r = [[c EXCEPT !.backbuf = q] EXCEPT !.overflowed = TRUE]
        BY <1>1, <2>4, <3>1 DEF ClientType
      <3> QED
        BY <3>2, <3>3, <3>4 DEF ClientType, Written
    <2>5. r = WriteBackbuf(c, bs)
      BY <1>1, <1>6, Zenon DEF Put
    <2> QED
      BY <1>1, <2>1, <2>3, <2>4, <2>5, Zenon DEF WriteBackbuf
  <1> QED
    BY <1>5, <1>6

(* ClientReliableWrite_*, from the check to the last byte. *)
LEMMA ReliableWrites ==
    ASSUME NEW c \in ClientType, NEW bs \in Seq(Ordinary), NEW r, r = ReliableWrite(c, bs)
    PROVE  Written(c, bs, r)
  <1>1. PICK k : k = CheckBlock(c, SizeOf(bs))
    OBVIOUS
  <1>2. Prepared(c, k)
    BY <1>1, CheckBlockPrepares
  <1>3. r = Put(k, bs)
    BY <1>1 DEF ReliableWrite
  <1>4. Written(k, bs, r)
    BY <1>2, <1>3, PutWrites DEF Prepared
  <1> QED
    BY <1>2, <1>4 DEF Prepared, Written, Waiting

-----------------------------------------------------------------------------
(* What a client has been sent, x, of what was queued for it, q: all that  *)
(* comes before svc_disconnect has no hole, and Ended, it has been told.   *)
Begins(s, q) == \E z \in Seq(AnyBlock) : q = s \o z
Good(x, q) ==
    \E a \in Seq(Ordinary), b \in Seq(AnyBlock) :
        x = a \o b /\ Begins(Checked(a), q) /\ (b = <<>> \/ b[1] = Disconnect)
Ended(x, q) ==
    \E a \in Seq(Ordinary), b \in Seq(AnyBlock) :
        x = a \o b /\ Begins(Checked(a), q) /\ b # <<>> /\ b[1] = Disconnect

LEMMA EndedIsGood == \A x, q : Ended(x, q) => Good(x, q)
  BY DEF Ended, Good

(* More is queued. *)
LEMMA MoreQueued ==
    \A x : \A q, r \in Seq(AnyBlock) :
        /\ \A s \in Seq(AnyBlock) : Begins(s, q) => Begins(s, q \o r)
        /\ Good(x, q) => Good(x, q \o r)
        /\ Ended(x, q) => Ended(x, q \o r)
  <1> SUFFICES ASSUME NEW q \in Seq(AnyBlock), NEW r \in Seq(AnyBlock), NEW x
               PROVE  /\ \A s \in Seq(AnyBlock) : Begins(s, q) => Begins(s, q \o r)
                      /\ Good(x, q) => Good(x, q \o r)
                      /\ Ended(x, q) => Ended(x, q \o r)
    OBVIOUS
  <1>1. ASSUME NEW s \in Seq(AnyBlock), Begins(s, q) PROVE Begins(s, q \o r)
    <2>1. PICK z \in Seq(AnyBlock) : q = s \o z
      BY <1>1 DEF Begins
    <2>2. q \o r = s \o (z \o r)
      BY <2>1, RegroupBlocks DEF Regrouped
    <2>3. z \o r \in Seq(AnyBlock)
      BY JoinBlocks DEF JoinedWell
    <2> QED
      BY <2>2, <2>3 DEF Begins
  <1>2. \A a \in Seq(Ordinary) : Begins(Checked(a), q) => Begins(Checked(a), q \o r)
    BY <1>1, OrdinaryBlocks, CheckedTypes
  <1> QED
    BY <1>1, <1>2 DEF Good, Ended

(* More is sent after svc_disconnect. *)
LEMMA MoreSent ==
    \A x, q : \A t \in Seq(AnyBlock) : Ended(x, q) => Ended(x \o t, q)
  <1> SUFFICES ASSUME NEW x, NEW q, NEW t \in Seq(AnyBlock), Ended(x, q)
               PROVE  Ended(x \o t, q)
    OBVIOUS
  <1>1. PICK a \in Seq(Ordinary), b \in Seq(AnyBlock) :
            x = a \o b /\ Begins(Checked(a), q) /\ b # <<>> /\ b[1] = Disconnect
    BY DEF Ended
  <1>2. JoinedWell(AnyBlock, b, t)
    BY JoinBlocks
  <1>3. Len(b) \in Nat /\ Len(b) # 0 /\ Len(t) \in Nat
    BY <1>1, EmptySeq, LenProperties
  <1>4. PICK d \in Seq(AnyBlock) : d = b \o t /\ d[1] = Disconnect /\ Len(d) # 0
    <2>1. b \o t \in Seq(AnyBlock) /\ (b \o t)[1] = b[1] /\ Len(b \o t) # 0
      BY <1>2, <1>3 DEF JoinedWell
    <2> QED
      BY <1>1, <2>1
  <1>5. d # <<>>
    BY <1>4, EmptySeq
  <1>6. x \o t = a \o d
    <2>1. PICK e \in Seq(AnyBlock) : e = a
      BY OrdinaryBlocks
    <2> QED
      BY <1>1, <1>4, <2>1, RegroupBlocks DEF Regrouped
  <1> QED
    BY <1>1, <1>4, <1>5, <1>6 DEF Ended

LEMMA DisconnectIs ==
    Disconnect \in AnyBlock /\ Disconnect \notin Ordinary /\ <<Disconnect>> # <<>>
  BY DEF Disconnect, Block, AnyBlock, Kinds, Ordinary

(* As long as svc_disconnect is not among it, being good is having no hole. *)
LEMMA GoodOrdinary ==
    \A q : \A x \in Seq(Ordinary) : Good(x, q) <=> Begins(Checked(x), q)
  <1> SUFFICES ASSUME NEW x \in Seq(Ordinary), NEW q
               PROVE  Good(x, q) <=> Begins(Checked(x), q)
    OBVIOUS
  <1>0. x \in Seq(AnyBlock)
    BY OrdinaryBlocks
  <1>1. ASSUME Begins(Checked(x), q) PROVE Good(x, q)
    <2>1. PICK none \in Seq(AnyBlock) : none = <<>>
      BY EmptySeq
    <2>2. x = x \o none
      BY <1>0, <2>1, ConcatEmptySeq
    <2> QED
      BY <1>1, <2>1, <2>2 DEF Good
  <1>2. ASSUME Good(x, q) PROVE Begins(Checked(x), q)
    <2>1. PICK a \in Seq(Ordinary), b \in Seq(AnyBlock) :
              x = a \o b /\ Begins(Checked(a), q) /\ (b = <<>> \/ b[1] = Disconnect)
      BY <1>2 DEF Good
    <2>2. PICK e \in Seq(AnyBlock) : e = a
      BY OrdinaryBlocks
    <2>3. CASE b = <<>>
      <3>1. x = a
        BY <2>1, <2>2, <2>3, ConcatEmptySeq
      <3> QED
        BY <2>1, <3>1
    <2>4. CASE b # <<>>
      <3>1. JoinedWell(AnyBlock, e, b)
        BY JoinBlocks
      <3>2. Len(e) \in Nat /\ Len(b) \in Nat /\ Len(b) # 0
        BY <2>4, EmptySeq, LenProperties
      <3>3. PICK n : n = Len(e) + 1
        OBVIOUS
      <3>4. x[n] = b[1] /\ n \in 1..Len(x)
        BY <2>1, <2>2, <3>1, <3>2, <3>3 DEF JoinedWell
      <3>5. x[n] \in Ordinary
        BY <3>4, ElementOfSeq
      <3> QED
        BY <2>1, <2>4, <3>4, <3>5, DisconnectIs
    <2> QED
      BY <2>3, <2>4
  <1> QED
    BY <1>1, <1>2

(* svc_disconnect after what has no hole, with nothing that counts between. *)
LEMMA ToldToDisconnect ==
    \A q : \A x \in Seq(AnyBlock), m \in Seq(Ordinary) :
        Good(x, q) /\ Checked(m) = <<>> => Ended(x \o (m \o <<Disconnect>>), q)
  <1> SUFFICES ASSUME NEW x \in Seq(AnyBlock), NEW m \in Seq(Ordinary), NEW q,
                      Good(x, q), Checked(m) = <<>>
               PROVE  Ended(x \o (m \o <<Disconnect>>), q)
    OBVIOUS
  <1>1. PICK a \in Seq(Ordinary), b \in Seq(AnyBlock) :
            x = a \o b /\ Begins(Checked(a), q) /\ (b = <<>> \/ b[1] = Disconnect)
    BY DEF Good
  <1>2. PICK g \in Seq(AnyBlock) : g = <<Disconnect>> /\ Len(g) = 1 /\ g[1] = Disconnect
    BY OneBlock, DisconnectIs, Zenon
  <1>3. PICK e \in Seq(AnyBlock), n \in Seq(AnyBlock) : e = a /\ n = m
    BY OrdinaryBlocks
  <1>4. PICK h \in Seq(AnyBlock) : h = n \o g
    BY JoinBlocks DEF JoinedWell
  <1>5. g # <<>>
    BY <1>2, DisconnectIs
  <1>6. CASE b # <<>>
    <2>1. Ended(x, q)
      BY <1>1, <1>6 DEF Ended
    <2>2. Ended(x \o h, q)
      BY <2>1, MoreSent
    <2> QED
      BY <1>2, <1>3, <1>4, <2>2
  <1>7. CASE b = <<>>
    <2>1. x = e
      BY <1>1, <1>3, <1>7, ConcatEmptySeq
    <2>2. PICK y \in Seq(Ordinary) : y = a \o m
      BY JoinOrdinary
    <2>3. x \o h = y \o g
      <3>1. Regrouped(e, n, g)
        BY RegroupBlocks
      <3> QED
        BY <1>3, <1>4, <2>1, <2>2, <3>1 DEF Regrouped
    <2>4. Checked(y) = Checked(a)
      <3>1. Checked(e \o n) = Checked(e) \o Checked(n)
        BY CheckedConcat
      <3>2. Checked(e) \in Seq(AnyBlock)
        BY CheckedTypes
      <3>3. Checked(e) \o <<>> = Checked(e)
        BY <3>2, ConcatEmptySeq
      <3> QED
        BY <1>3, <2>2, <3>1, <3>3
    <2>5. Ended(y \o g, q)
      BY <1>1, <1>2, <1>5, <2>2, <2>4 DEF Ended
    <2> QED
      BY <1>2, <1>3, <1>4, <2>3, <2>5
  <1> QED
    BY <1>6, <1>7

-----------------------------------------------------------------------------
(* The invariant, of a client c, what was queued for it and what was sent. *)
ClientInv(c, q, s) ==
    /\ c \in ClientType /\ q \in Seq(AnyBlock) /\ s \in Seq(AnyBlock)
    /\ Good(s, q)
    /\ c.state = "active" => s \in Seq(Ordinary) /\ c.message \in Seq(Ordinary)
    /\ c.state = "active" /\ ~c.overflowed => Checked(s \o Waiting(c)) = q
    /\ c.state = "zombie" /\ ~c.overflowed => Ended(s \o c.message, q)

(* Its sequences. *)
LEMMA Parts ==
    ASSUME NEW c \in ClientType, NEW s \in Seq(AnyBlock)
    PROVE  /\ c.message \in Seq(AnyBlock) /\ c.backbuf \in Lists
           /\ FlattenSeq(c.backbuf) \in Seq(AnyBlock) /\ Waiting(c) \in Seq(AnyBlock)
           /\ s \o c.message \in Seq(AnyBlock)
           /\ s \o Waiting(c) = (s \o c.message) \o FlattenSeq(c.backbuf)
           /\ c.state \in {"active", "zombie"}
  <1>1. PICK m \in Seq(AnyBlock), p \in Lists : m = c.message /\ p = c.backbuf
    BY DEF ClientType
  <1>2. PICK f \in Seq(AnyBlock) : f = FlattenSeq(p)
    BY FlattenTypes
  <1>3. m \o f \in Seq(AnyBlock) /\ s \o m \in Seq(AnyBlock)
    BY JoinBlocks DEF JoinedWell
  <1>4. s \o (m \o f) = (s \o m) \o f
    BY RegroupBlocks DEF Regrouped
  <1> QED
    BY <1>1, <1>2, <1>3, <1>4 DEF Waiting, ClientType

LEMMA CheckedThree ==
    \A x, y, z \in Seq(AnyBlock) :
        Checked((x \o y) \o z) = (Checked(x) \o Checked(y)) \o Checked(z)
  <1> SUFFICES ASSUME NEW x \in Seq(AnyBlock), NEW y \in Seq(AnyBlock), NEW z \in Seq(AnyBlock)
               PROVE  Checked((x \o y) \o z) = (Checked(x) \o Checked(y)) \o Checked(z)
    OBVIOUS
  <1>1. PICK u \in Seq(AnyBlock) : u = x \o y
    BY JoinBlocks DEF JoinedWell
  <1> QED
    BY <1>1, CheckedConcat

(* A block written through ClientReliableCheckBlock is queued. *)
LEMMA KeptByWrite ==
    ASSUME NEW c, NEW q, NEW s, ClientInv(c, q, s), c.state = "active",
           NEW bs \in Seq(Ordinary), NEW r, Written(c, bs, r)
    PROVE  ClientInv(r, q \o Checked(bs), s)
  <1>1. PICK b \in Seq(AnyBlock), t \in Seq(AnyBlock) : b = bs /\ t = Checked(bs)
    BY OrdinaryBlocks, CheckedTypes
  <1>2. q \o t \in Seq(AnyBlock) /\ Good(s, q \o t)
    BY MoreQueued, JoinBlocks DEF ClientInv, JoinedWell
  <1>3. r \in ClientType /\ r.state = "active" /\ s \in Seq(Ordinary)
    BY DEF ClientInv, Written
  <1>4. r.message \in Seq(Ordinary)
    BY JoinOrdinary DEF ClientInv, Written
  <1>5. ASSUME ~r.overflowed PROVE Checked(s \o Waiting(r)) = q \o t
    <2>1. PICK w \in Seq(AnyBlock) : w = Waiting(c)
      BY Parts DEF ClientInv
    <2>2. Waiting(r) = w \o b /\ Checked(s \o w) = q
      BY <1>1, <1>5, <2>1 DEF ClientInv, Written
    <2>3. PICK x \in Seq(AnyBlock) : x = s
      BY DEF ClientInv
    <2>4. x \o (w \o b) = (x \o w) \o b
      BY RegroupBlocks DEF Regrouped
    <2>5. PICK y \in Seq(AnyBlock) : y = x \o w
      BY JoinBlocks DEF JoinedWell
    <2>6. Checked(y \o b) = Checked(y) \o Checked(b)
      BY CheckedConcat
    <2> QED
      BY <1>1, <2>2, <2>3, <2>4, <2>5, <2>6
  <1> QED
    BY <1>1, <1>2, <1>3, <1>4, <1>5 DEF ClientInv

(* SZ_Write to netchan.message of what is not queued. *)
LEMMA KeptByDirect ==
    ASSUME NEW c, NEW q, NEW s, ClientInv(c, q, s), c.state = "active",
           NEW bs \in Seq(Ordinary), Checked(bs) = <<>>, NEW r, r = WriteMessage(c, bs)
    PROVE  ClientInv(r, q, s)
  <1>1. PICK b \in Seq(AnyBlock), x \in Seq(AnyBlock), m \in Seq(Ordinary), p \in Lists :
            b = bs /\ x = s /\ m = c.message /\ p = c.backbuf
    BY OrdinaryBlocks, Parts DEF ClientInv
  <1>2. m \o bs \in Seq(Ordinary)
    BY JoinOrdinary
  <1>3. PICK n \in Seq(AnyBlock), k \in Seq(AnyBlock) : n = m /\ k = n \o b
    <2>1. m \in Seq(AnyBlock) /\ m \o bs \in Seq(AnyBlock)
      BY <1>2, OrdinaryBlocks
    <2> QED
      BY <2>1, <1>1
  <1>4. CASE r = [c EXCEPT !.message = @ \o bs]
    <2>1. /\ r \in ClientType /\ r.message = k /\ r.backbuf = p /\ r.state = "active"
          /\ r.overflowed = c.overflowed
      BY <1>1, <1>3, <1>4 DEF ClientInv, ClientType
    <2>2. ASSUME ~c.overflowed PROVE Checked(s \o Waiting(r)) = q
      <3>1. PICK f \in Seq(AnyBlock) : f = FlattenSeq(p)
        BY FlattenTypes
      <3>2. Checked((x \o n) \o f) = q
        <4>1. Checked(s \o Waiting(c)) = q
          BY <2>2 DEF ClientInv
        <4>2. s \o Waiting(c) = (s \o c.message) \o FlattenSeq(c.backbuf)
          BY Parts DEF ClientInv
        <4> QED
          BY <4>1, <4>2, <3>1, <1>1, <1>3
      <3>3. s \o Waiting(r) = (x \o k) \o f
        <4>1. s \o Waiting(r) = (s \o r.message) \o FlattenSeq(r.backbuf)
          BY <1>1, <2>1, Parts
        <4> QED
          BY <4>1, <2>1, <3>1, <1>1
      <3>4. Checked(k) = Checked(n)
        <4>1. Checked(n \o b) = Checked(n) \o Checked(b) /\ Checked(n) \in Seq(AnyBlock)
          BY CheckedConcat, CheckedTypes
        <4>2. Checked(n) \o <<>> = Checked(n)
          BY <4>1, ConcatEmptySeq
        <4> QED
          BY <4>1, <4>2, <1>1, <1>3
      <3>5. /\ Checked((x \o n) \o f) = (Checked(x) \o Checked(n)) \o Checked(f)
            /\ Checked((x \o k) \o f) = (Checked(x) \o Checked(k)) \o Checked(f)
        BY CheckedThree
      <3> QED
        BY <3>2, <3>3, <3>4, <3>5
    <2> QED
      BY <1>1, <1>2, <1>3, <2>1, <2>2 DEF ClientInv
  <1>5. CASE r = [[c EXCEPT !.message = bs] EXCEPT !.overflowed = TRUE]
    BY <1>1, <1>5 DEF ClientInv, ClientType
  <1> QED
    BY <1>4, <1>5, Zenon DEF WriteMessage

(* SZ_Write to netchan.message, and what else changes with it. *)
MessageAfter(c, bs, e) ==
    /\ e \in ClientType /\ e.state = c.state /\ e.backbuf = c.backbuf
    /\ e.reliable_buf = c.reliable_buf
    /\ \/ e.message = c.message \o bs /\ e.overflowed = c.overflowed
       \/ e.message = bs /\ e.overflowed = TRUE

LEMMA MessageWritten ==
    ASSUME NEW c \in ClientType, NEW bs \in Seq(AnyBlock), NEW e, e = WriteMessage(c, bs)
    PROVE  MessageAfter(c, bs, e)
  <1>1. c.message \o bs \in Seq(AnyBlock)
    <2>1. PICK m \in Seq(AnyBlock) : m = c.message
      BY DEF ClientType
    <2> QED
      BY <2>1, JoinBlocks DEF JoinedWell
  <1>2. CASE e = [c EXCEPT !.message = @ \o bs]
    BY <1>1, <1>2 DEF ClientType, MessageAfter
  <1>3. CASE e = [[c EXCEPT !.message = bs] EXCEPT !.overflowed = TRUE]
    BY <1>3 DEF ClientType, MessageAfter
  <1> QED
    BY <1>2, <1>3, Zenon DEF WriteMessage

LEMMA BackbufsTaken ==
    ASSUME NEW e \in ClientType, NEW t \in Lists, OrdinaryLists(t),
           NEW r, r = [[e EXCEPT !.backbuf = t] EXCEPT !.allowoverflow = FALSE]
    PROVE  /\ r \in ClientType /\ r.state = e.state /\ r.backbuf = t
           /\ r.message = e.message /\ r.overflowed = e.overflowed
  BY DEF ClientType

LEMMA MadeZombie ==
    ASSUME NEW e \in ClientType, NEW r, r = [e EXCEPT !.state = "zombie"]
    PROVE  /\ r \in ClientType /\ r.state = "zombie"
           /\ r.message = e.message /\ r.overflowed = e.overflowed
  BY DEF ClientType

(* The oldest back buffer moves to netchan.message. *)
LEMMA KeptByRotate ==
    ASSUME NEW c, NEW q, NEW s, ClientInv(c, q, s), NEW r, r = Rotate(c)
    PROVE  ClientInv(r, q, s)
  <1>1. PICK x \in Seq(AnyBlock), m \in Seq(AnyBlock), p \in Lists :
            x = s /\ m = c.message /\ p = c.backbuf /\ OrdinaryLists(p)
    BY DEF ClientInv, ClientType
  <1>2. CASE r = c
    BY <1>2
  <1>3. ASSUME p # <<>>, r = [[WriteMessage(c, Head(p)) EXCEPT !.backbuf = Tail(p)]
                                 EXCEPT !.allowoverflow = FALSE]
        PROVE  ClientInv(r, q, s)
    <2>1. PICK h \in Seq(AnyBlock), t \in Lists :
              h = Head(p) /\ t = Tail(p) /\ FlattenSeq(p) = h \o FlattenSeq(t)
      BY <1>3, FlattenHead
    <2>2. h \in Seq(Ordinary) /\ OrdinaryLists(t)
      <3>1. /\ Len(p) \in Nat /\ Len(p) # 0 /\ DOMAIN p = 1..Len(p) /\ DOMAIN t = 1..Len(t)
            /\ Len(t) = Len(p) - 1
        BY <1>3, <2>1, EmptySeq, LenProperties, HeadTailProperties DEF Lists
      <3>2. h = p[1] /\ \A i \in 1..Len(t) : t[i] = p[i + 1]
        BY <1>3, <2>1, <3>1, HeadTailProperties DEF Lists
      <3>3. ASSUME NEW i \in 1..Len(t) PROVE t[i] \in Seq(Ordinary)
        <4>1. i + 1 \in DOMAIN p
          BY <3>1
        <4> QED
          BY <4>1, <3>2, <1>1 DEF OrdinaryLists
      <3>4. 1 \in DOMAIN p
        BY <3>1
      <3> QED
        BY <3>1, <3>2, <3>3, <3>4, <1>1 DEF OrdinaryLists
    <2>3. PICK k \in Seq(AnyBlock), f \in Seq(AnyBlock), g \in Seq(AnyBlock) :
              k = m \o h /\ f = FlattenSeq(t) /\ g = FlattenSeq(p) /\ g = h \o f
      <3>1. m \o h \in Seq(AnyBlock)
        BY JoinBlocks DEF JoinedWell
      <3>2. FlattenSeq(t) \in Seq(AnyBlock) /\ FlattenSeq(p) \in Seq(AnyBlock)
        BY FlattenTypes
      <3> QED
        BY <2>1, <3>1, <3>2
    <2>a. PICK e : e = WriteMessage(c, h)
      OBVIOUS
    <2>f. c \in ClientType
      BY DEF ClientInv
    <2>b. /\ e \in ClientType /\ e.state = c.state /\ e.backbuf = c.backbuf
          /\ \/ e.message = c.message \o h /\ e.overflowed = c.overflowed
             \/ e.message = h /\ e.overflowed = TRUE
      <3>1. MessageAfter(c, h, e)
        BY <2>a, <2>f, MessageWritten
      <3> QED
        BY <3>1 DEF MessageAfter
    <2>c. r = [[e EXCEPT !.backbuf = t] EXCEPT !.allowoverflow = FALSE]
      BY <1>3, <2>1, <2>a, Zenon
    <2>d. /\ r \in ClientType /\ r.state = e.state /\ r.backbuf = t
          /\ r.message = e.message /\ r.overflowed = e.overflowed
      BY <2>b, <2>c, <2>2, BackbufsTaken
    <2>4. CASE e.message = c.message \o h /\ e.overflowed = c.overflowed
      <3>1. /\ r \in ClientType /\ r.message = k /\ r.backbuf = t
            /\ r.state = c.state /\ r.overflowed = c.overflowed
        BY <1>1, <2>3, <2>4, <2>b, <2>d
      <3>2. Waiting(r) = Waiting(c)
        <4>1. k \o f = m \o g
          BY <2>3, RegroupBlocks DEF Regrouped
        <4> QED
          BY <4>1, <1>1, <2>3, <3>1 DEF Waiting
      <3>3. c.state = "active" => r.message \in Seq(Ordinary)
        BY <1>1, <2>2, <2>3, <3>1, JoinOrdinary DEF ClientInv
      <3>4. Ended(s \o c.message, q) => Ended(s \o r.message, q)
        <4>1. x \o k = (x \o m) \o h
          <5>1. Regrouped(x, m, h)
            BY RegroupBlocks
          <5> QED
            BY <5>1, <2>3 DEF Regrouped
        <4>2. Ended(x \o m, q) => Ended((x \o m) \o h, q)
          BY MoreSent
        <4> QED
          BY <1>1, <3>1, <4>1, <4>2
      <3> QED
        BY <3>1, <3>2, <3>3, <3>4 DEF ClientInv
    <2>5. CASE e.message = h /\ e.overflowed = TRUE
      <3>1. /\ r \in ClientType /\ r.message = h
            /\ r.state = c.state /\ r.overflowed = TRUE
        BY <2>5, <2>b, <2>d
      <3> QED
        BY <2>2, <3>1 DEF ClientInv
    <2> QED
      BY <2>4, <2>5, <2>b
  <1>4. \/ r = c
        \/ /\ p # <<>>
           /\ r = [WriteMessage(c, Head(p)) EXCEPT !.backbuf = Tail(@), !.allowoverflow = FALSE]
    BY <1>1, Zenon DEF Rotate
  <1>5. WriteMessage(c, Head(p)).backbuf = p
    <2>1. \/ WriteMessage(c, Head(p)) = [c EXCEPT !.message = @ \o Head(p)]
          \/ WriteMessage(c, Head(p)) = [[c EXCEPT !.message = Head(p)] EXCEPT !.overflowed = TRUE]
      BY Zenon DEF WriteMessage
    <2> QED
      BY <2>1, <1>1 DEF ClientInv, ClientType
  <1> QED
    BY <1>2, <1>3, <1>4, <1>5

(* What was sent and what waits in netchan.message have no hole. *)
LEMMA BeginsKept ==
    ASSUME NEW c, NEW q, NEW s, ClientInv(c, q, s), c.state = "active", ~c.overflowed
    PROVE  /\ s \o c.message \in Seq(Ordinary)
           /\ Begins(Checked(s \o c.message), q)
           /\ Good(s \o c.message, q)
  <1>1. s \o c.message \in Seq(Ordinary)
    BY JoinOrdinary DEF ClientInv
  <1>2. PICK y \in Seq(Ordinary), x \in Seq(AnyBlock) : y = s \o c.message /\ x = y
    BY <1>1, OrdinaryBlocks
  <1>3. PICK f \in Seq(AnyBlock) : f = FlattenSeq(c.backbuf)
    BY Parts DEF ClientInv
  <1>4. Checked(x \o f) = q
    BY <1>2, <1>3, Parts DEF ClientInv
  <1>5. Checked(x \o f) = Checked(x) \o Checked(f) /\ Checked(f) \in Seq(AnyBlock)
    BY CheckedConcat, CheckedTypes
  <1>6. Begins(Checked(x), q)
    BY <1>4, <1>5 DEF Begins
  <1>7. Good(y, q)
    BY <1>2, <1>6, GoodOrdinary
  <1> QED
    BY <1>2, <1>6, <1>7

(* SV_DropClient: svc_disconnect comes after what waits, or marks that some *)
(* of it is lost.                                                          *)
LEMMA KeptByDrop ==
    ASSUME NEW c, NEW q, NEW s, c \in ClientType, q \in Seq(AnyBlock), s \in Seq(AnyBlock),
           Good(s, q),
           ~c.overflowed => Ended(s \o (c.message \o <<Disconnect>>), q),
           NEW r, r = DropClient(c)
    PROVE  ClientInv(r, q, s)
  <1>1. PICK m \in Seq(AnyBlock), g \in Seq(AnyBlock) : m = c.message /\ g = <<Disconnect>>
    BY OneBlock, DisconnectIs DEF ClientType
  <1>2. PICK e : e = WriteMessage(c, g)
    OBVIOUS
  <1>3. r = [e EXCEPT !.state = "zombie"]
    BY <1>1, <1>2, Zenon DEF DropClient
  <1>4. /\ e \in ClientType
        /\ \/ e.message = c.message \o g /\ e.overflowed = c.overflowed
           \/ e.message = g /\ e.overflowed = TRUE
    <2>1. MessageAfter(c, g, e)
      BY <1>2, MessageWritten
    <2> QED
      BY <2>1 DEF MessageAfter
  <1>5. /\ r \in ClientType /\ r.state = "zombie"
        /\ r.message = e.message /\ r.overflowed = e.overflowed
    BY <1>3, <1>4, MadeZombie
  <1>6. ~r.overflowed => Ended(s \o r.message, q)
    BY <1>1, <1>4, <1>5
  <1> QED
    BY <1>5, <1>6 DEF ClientInv

(* svc_disconnect after what waits for an active client. *)
LEMMA KeptByKick ==
    ASSUME NEW c, NEW q, NEW s, ClientInv(c, q, s), c.state = "active",
           NEW r, r = DropClient(c)
    PROVE  ClientInv(r, q, s)
  <1>1. ASSUME ~c.overflowed
        PROVE  Ended(s \o (c.message \o <<Disconnect>>), q)
    <2>1. PICK x \in Seq(AnyBlock), m \in Seq(AnyBlock), g \in Seq(AnyBlock),
               n \in Seq(Ordinary) :
              x = s /\ m = c.message /\ g = <<Disconnect>> /\ n = <<>>
      BY Parts, OneBlock, DisconnectIs, EmptySeq DEF ClientInv
    <2>2. PICK y \in Seq(AnyBlock) : y = x \o m
      BY JoinBlocks DEF JoinedWell
    <2>3. Good(y, q)
      BY <1>1, <2>1, <2>2, BeginsKept
    <2>4. Ended(y \o (n \o g), q)
      BY <2>1, <2>3, CheckedNone, ToldToDisconnect
    <2>5. n \o g = g
      BY <2>1, ConcatEmptySeq
    <2>6. Regrouped(x, m, g)
      BY RegroupBlocks
    <2> QED
      BY <2>1, <2>2, <2>4, <2>5, <2>6 DEF Regrouped
  <1>2. /\ c \in ClientType /\ q \in Seq(AnyBlock) /\ s \in Seq(AnyBlock)
        /\ Good(s, q)
    BY DEF ClientInv
  <1> QED
    BY <1>1, <1>2, KeptByDrop

LEMMA Emptied ==
    ASSUME NEW c \in ClientType, NEW d, d = [[c EXCEPT !.message = <<>>] EXCEPT !.overflowed = FALSE]
    PROVE  d \in ClientType /\ d.state = c.state /\ d.message = <<>> /\ ~d.overflowed
           /\ d.backbuf = c.backbuf
  BY EmptySeq DEF ClientType

LEMMA OverflowedIs ==
    /\ Overflowed \in Ordinary /\ Checked(<<Overflowed>>) = <<>>
    /\ <<Overflowed>> \in Seq(Ordinary)
  <1>1. Overflowed \in Ordinary /\ Overflowed \in AnyBlock /\ Overflowed.kind = "overflowed"
    BY DEF Overflowed, Disconnect, Block, AnyBlock, Kinds, Ordinary
  <1>2. Checked(<<Overflowed>>) = <<>>
    BY <1>1, CheckedOne DEF PickOf
  <1> QED
    BY <1>1, <1>2

(* The client whose stream overflowed is told to disconnect next. *)
LEMMA KeptByDropOverflowed ==
    ASSUME NEW c, NEW q, NEW s, ClientInv(c, q, s), NEW r, r = DropOverflowed(c)
    PROVE  ClientInv(r, q, s)
  <1>1. CASE ~c.overflowed
    BY <1>1 DEF DropOverflowed
  <1>2. CASE c.overflowed
    <2>1. PICK d : d = [[c EXCEPT !.message = <<>>] EXCEPT !.overflowed = FALSE]
      OBVIOUS
    <2>a. /\ c \in ClientType /\ q \in Seq(AnyBlock) /\ s \in Seq(AnyBlock)
          /\ Good(s, q)
      BY DEF ClientInv
    <2>2. d \in ClientType /\ d.message = <<>> /\ ~d.overflowed
      BY <2>1, <2>a, Emptied
    <2>3. PICK e : e = IF d.state = "active" THEN ReliableWrite(d, <<Overflowed>>) ELSE d
      OBVIOUS
    <2>4. r = DropClient(e)
      BY <1>2, <2>1, <2>3, Zenon DEF DropOverflowed
    <2>5. PICK o \in Seq(Ordinary) : o = <<Overflowed>>
      BY OverflowedIs
    <2>6. /\ e \in ClientType
          /\ e.message \in {<<>>, o}
      <3>1. CASE e = d
        BY <3>1, <2>2
      <3>2. CASE e = ReliableWrite(d, o)
        <4>1. Written(d, o, e)
          BY <3>2, <2>2, ReliableWrites
        <4>2. <<>> \o o = o
          BY ConcatEmptySeq
        <4> QED
          BY <4>1, <4>2, <2>2 DEF Written
      <3> QED
        BY <2>3, <2>5, <3>1, <3>2
    <2>7. PICK m \in Seq(Ordinary) : m = e.message /\ Checked(m) = <<>>
      BY <2>5, <2>6, OverflowedIs, CheckedNone, EmptySeq
    <2>8. Ended(s \o (e.message \o <<Disconnect>>), q)
      BY <2>7, <2>a, ToldToDisconnect
    <2> QED
      BY <2>4, <2>6, <2>8, <2>a, KeptByDrop
  <1> QED
    BY <1>1, <1>2

LEMMA MessageTaken ==
    ASSUME NEW c \in ClientType,
           NEW r, r = [[c EXCEPT !.reliable_buf = c.message] EXCEPT !.message = <<>>]
    PROVE  /\ r \in ClientType /\ r.state = c.state /\ r.message = <<>>
           /\ r.overflowed = c.overflowed /\ r.backbuf = c.backbuf
  BY EmptySeq DEF ClientType

(* Netchan_Transmit hands netchan.message to the client. *)
LEMMA KeptByTransmit ==
    ASSUME NEW c, NEW q, NEW s, ClientInv(c, q, s), NEW r, r = TransmitMessage(c),
           NEW t, t = IF Transmits(c) THEN s \o c.message ELSE s
    PROVE  ClientInv(r, q, t)
  <1>1. CASE ~Transmits(c)
    BY <1>1 DEF TransmitMessage
  <1>2. CASE Transmits(c)
    <2>1. ~c.overflowed /\ t = s \o c.message
      BY <1>2 DEF Transmits
    <2>2. r = [[c EXCEPT !.reliable_buf = c.message] EXCEPT !.message = <<>>]
      BY <1>2, Zenon DEF TransmitMessage
    <2>3. /\ c \in ClientType /\ q \in Seq(AnyBlock) /\ s \in Seq(AnyBlock)
      BY DEF ClientInv
    <2>4. /\ r \in ClientType /\ r.state = c.state /\ r.message = <<>>
          /\ ~r.overflowed /\ r.backbuf = c.backbuf
      BY <2>1, <2>2, <2>3, MessageTaken
    <2>5. PICK y \in Seq(AnyBlock), f \in Seq(AnyBlock) :
              y = s \o c.message /\ f = FlattenSeq(c.backbuf)
      BY <2>3, Parts
    <2>6. CASE c.state = "active"
      <3>1. t \in Seq(Ordinary) /\ Good(t, q)
        BY <2>1, <2>6, BeginsKept
      <3>2. Waiting(r) = f
        BY <2>4, <2>5, ConcatEmptySeq DEF Waiting
      <3>3. Checked(t \o Waiting(r)) = q
        BY <3>2, <2>1, <2>3, <2>5, <2>6, Parts DEF ClientInv
      <3> QED
        BY <3>1, <3>3, <2>1, <2>3, <2>4, <2>5, <2>6, EmptySeq DEF ClientInv
    <2>7. CASE c.state = "zombie"
      <3>1. Ended(y, q)
        BY <2>1, <2>5, <2>7 DEF ClientInv
      <3>2. Good(y, q) /\ y \o <<>> = y
        BY <3>1, EndedIsGood, ConcatEmptySeq
      <3> QED
        BY <3>1, <3>2, <2>1, <2>3, <2>4, <2>5, <2>7 DEF ClientInv
    <2> QED
      BY <2>3, <2>6, <2>7, Parts
  <1> QED
    BY <1>1, <1>2

-----------------------------------------------------------------------------
(* The writes of the server.                                               *)
LEMMA BlockIs ==
    ASSUME NEW n \in Nat, NEW size \in Nat, NEW b,
           b = Block(n + 1, size, "block") \/ b = Block(n + 1, size, "direct")
    PROVE  b \in Ordinary
  BY DEF Block, Ordinary, AnyBlock, Kinds, Disconnect

LEMMA OrdinaryOne ==
    ASSUME NEW b \in Ordinary
    PROVE  /\ <<b>> \in Seq(Ordinary) /\ <<b>> \in Seq(AnyBlock)
           /\ Checked(<<b>>) = PickOf(b) /\ b \in AnyBlock
  BY CheckedOne DEF Ordinary

LEMMA KeptByReliableWrite ==
    ASSUME NEW c, NEW q, NEW s, ClientInv(c, q, s), c.state = "active",
           NEW b \in Ordinary, b.kind = "block", NEW r, r = ReliableWrite(c, <<b>>),
           NEW t, t = Append(q, b)
    PROVE  ClientInv(r, t, s)
  <1>1. PICK g \in Seq(Ordinary) : g = <<b>>
    BY OrdinaryOne
  <1>2. c \in ClientType /\ q \in Seq(AnyBlock) /\ b \in AnyBlock
    BY OrdinaryOne DEF ClientInv
  <1>3. Written(c, g, r)
    BY <1>1, <1>2, ReliableWrites
  <1>4. ClientInv(r, q \o Checked(g), s)
    BY <1>3, KeptByWrite
  <1>5. Checked(g) = <<b>>
    BY <1>1, OrdinaryOne DEF PickOf
  <1>6. t = q \o <<b>>
    BY <1>2, AppendIsConcat
  <1> QED
    BY <1>4, <1>5, <1>6

LEMMA KeptByMessage ==
    ASSUME NEW c, NEW q, NEW s, ClientInv(c, q, s), c.state = "active",
           NEW b \in Ordinary, b.kind = "direct", NEW r, r = WriteMessage(c, <<b>>)
    PROVE  ClientInv(r, q, s)
  <1>1. PICK g \in Seq(Ordinary) : g = <<b>> /\ Checked(g) = <<>>
    BY OrdinaryOne DEF PickOf
  <1> QED
    BY <1>1, KeptByDirect

LEMMA KeptByDistribute ==
    ASSUME NEW c, NEW q, NEW s, ClientInv(c, q, s), NEW g \in Seq(Ordinary),
           NEW r, r = (IF c.state = "active" THEN ReliableWrite(c, g) ELSE c),
           NEW t, t = (IF c.state = "active" THEN q \o Checked(g) ELSE q)
    PROVE  ClientInv(r, t, s)
  <1>1. c \in ClientType
    BY DEF ClientInv
  <1>2. CASE c.state = "active"
    <2>1. Written(c, g, r)
      BY <1>1, <1>2, ReliableWrites
    <2> QED
      BY <1>2, <2>1, KeptByWrite
  <1> QED
    BY <1>2

(* The signon commands and the netchan empty some of it.                   *)
LEMMA KeptByAcked ==
    ASSUME NEW c, NEW q, NEW s, ClientInv(c, q, s),
           NEW r, r = [c EXCEPT !.reliable_buf = <<>>]
    PROVE  ClientInv(r, q, s)
  <1>1. c \in ClientType
    BY DEF ClientInv
  <1>2. /\ r \in ClientType /\ r.state = c.state /\ r.message = c.message
        /\ r.overflowed = c.overflowed /\ r.backbuf = c.backbuf
    BY <1>1, EmptySeq DEF ClientType
  <1>3. Waiting(r) = Waiting(c)
    BY <1>2 DEF Waiting
  <1> QED
    BY <1>2, <1>3 DEF ClientInv

LEMMA KeptByRespawn ==
    ASSUME NEW c, NEW q, NEW s, ClientInv(c, q, s), c.state = "active",
           NEW r, r = [[c EXCEPT !.message = <<>>] EXCEPT !.overflowed = FALSE],
           NEW t, t = Checked(s \o FlattenSeq(c.backbuf))
    PROVE  ClientInv(r, t, s)
  <1>1. /\ c \in ClientType /\ s \in Seq(Ordinary)
    BY DEF ClientInv
  <1>2. /\ r \in ClientType /\ r.state = c.state /\ r.message = <<>> /\ ~r.overflowed
        /\ r.backbuf = c.backbuf
    BY <1>1, Emptied
  <1>3. PICK x \in Seq(AnyBlock), f \in Seq(AnyBlock) : x = s /\ f = FlattenSeq(c.backbuf)
    BY <1>1, OrdinaryBlocks, Parts
  <1>4. Waiting(r) = f
    BY <1>2, <1>3, ConcatEmptySeq DEF Waiting
  <1>5. /\ Checked(x \o f) = Checked(x) \o Checked(f)
        /\ Checked(f) \in Seq(AnyBlock) /\ Checked(x \o f) \in Seq(AnyBlock)
    BY CheckedConcat, CheckedTypes, JoinBlocks DEF JoinedWell
  <1>6. Begins(Checked(x), t) /\ t \in Seq(AnyBlock)
    BY <1>3, <1>5 DEF Begins
  <1>7. Good(s, t)
    BY <1>1, <1>3, <1>6, GoodOrdinary
  <1> QED
    BY <1>1, <1>2, <1>3, <1>4, <1>6, <1>7, EmptySeq DEF ClientInv

LEMMA Cleared ==
    ASSUME NEW c \in ClientType,
           NEW r, r = [[[c EXCEPT !.message = <<>>] EXCEPT !.overflowed = FALSE]
                           EXCEPT !.backbuf = <<>>]
    PROVE  r \in ClientType /\ r.state = c.state /\ r.message = <<>> /\ ~r.overflowed
           /\ r.backbuf = <<>>
  <1>1. <<>> \in Lists /\ OrdinaryLists(<<>>) /\ <<>> \in Seq(AnyBlock)
    BY EmptySeq DEF Lists, OrdinaryLists
  <1> QED
    BY <1>1 DEF ClientType

LEMMA KeptByClear ==
    ASSUME NEW c, NEW q, NEW s, ClientInv(c, q, s), c.state = "active",
           NEW r, r = [[[c EXCEPT !.message = <<>>] EXCEPT !.overflowed = FALSE]
                           EXCEPT !.backbuf = <<>>],
           NEW t, t = Checked(s)
    PROVE  ClientInv(r, t, s)
  <1>1. /\ c \in ClientType /\ s \in Seq(Ordinary)
    BY DEF ClientInv
  <1>2. /\ r \in ClientType /\ r.state = c.state /\ r.message = <<>> /\ ~r.overflowed
        /\ r.backbuf = <<>>
    BY <1>1, Cleared
  <1>3. PICK x \in Seq(AnyBlock) : x = s
    BY <1>1, OrdinaryBlocks
  <1>4. Waiting(r) = <<>> /\ x \o <<>> = x
    BY <1>2, FlattenNone, ConcatEmptySeq, EmptySeq DEF Waiting
  <1>5. t \in Seq(AnyBlock) /\ <<>> \in Seq(AnyBlock) /\ t \o <<>> = t
    BY <1>3, CheckedTypes, ConcatEmptySeq, EmptySeq
  <1>6. Begins(Checked(x), t)
    BY <1>3, <1>5 DEF Begins
  <1>7. Good(s, t)
    BY <1>1, <1>3, <1>6, GoodOrdinary
  <1> QED
    BY <1>1, <1>2, <1>3, <1>4, <1>5, <1>7, EmptySeq DEF ClientInv

-----------------------------------------------------------------------------
(* What begins a sequence is a prefix of it.                               *)
LEMMA PrefixIs ==
    ASSUME NEW x \in Seq(AnyBlock), NEW q \in Seq(AnyBlock), Begins(x, q)
    PROVE  IsPrefix(x, q) /\ SubSeq(q, 1, Len(x)) = x
  <1>1. PICK z \in Seq(AnyBlock) : q = x \o z
    BY DEF Begins
  <1>2. /\ Len(q) = Len(x) + Len(z) /\ Len(x) \in Nat /\ Len(z) \in Nat
        /\ \A i \in 1..Len(x) : q[i] = x[i]
    BY <1>1, JoinBlocks, LenProperties DEF JoinedWell
  <1>3. Len(x) <= Len(q)
    BY <1>2
  <1>4. ASSUME NEW y \in Seq(AnyBlock), Len(x) <= Len(y),
               \A i \in 1..Len(x) : y[i] = x[i]
        PROVE  SubSeq(y, 1, Len(x)) = x
    <2>1. PICK u : u = SubSeq(y, 1, Len(x))
      OBVIOUS
    <2>2. /\ u \in Seq(AnyBlock) /\ Len(u) = Len(x)
          /\ \A i \in 1..Len(x) : u[i] = y[i]
      BY <1>2, <1>4, <2>1, LenProperties, ElementOfSeq
    <2> QED
      BY <2>1, <2>2, <1>4, SeqEqual
  <1>5. SubSeq(q, 1, Len(x)) = x
    BY <1>2, <1>3, <1>4
  <1>6. SubSeq(x, 1, Len(x)) = x
    BY <1>2, <1>4
  <1> QED
    BY <1>3, <1>5, <1>6 DEF IsPrefix

(* What precedes the first svc_disconnect has no hole.                     *)
LEMMA BeforeHasNoHole ==
    ASSUME NEW s \in Seq(AnyBlock), NEW q \in Seq(AnyBlock), Good(s, q),
           NEW told, told = {i \in DOMAIN s : s[i] = Disconnect},
           NEW b, b = IF told = {} THEN s ELSE SubSeq(s, 1, Min(told) - 1)
    PROVE  IsPrefix(Checked(b), q)
  <1>1. PICK a \in Seq(Ordinary), t \in Seq(AnyBlock) :
            s = a \o t /\ Begins(Checked(a), q) /\ (t = <<>> \/ t[1] = Disconnect)
    BY DEF Good
  <1>2. PICK x \in Seq(AnyBlock) : x = a
    BY OrdinaryBlocks
  <1>3. /\ Len(s) = Len(x) + Len(t) /\ Len(x) \in Nat /\ Len(t) \in Nat
        /\ DOMAIN s = 1..Len(s)
        /\ \A i \in 1..Len(x) : s[i] = x[i]
        /\ \A i \in 1..Len(s) : i > Len(x) => s[i] = t[i - Len(x)]
    BY <1>1, <1>2, JoinBlocks, LenProperties DEF JoinedWell
  <1>4. \A i \in 1..Len(x) : s[i] # Disconnect
    BY <1>2, <1>3, DisconnectIs, ElementOfSeq
  <1>5. b = x
    <2>1. CASE t = <<>>
      <3>1. s = x
        BY <1>1, <1>2, <2>1, ConcatEmptySeq
      <3>2. told = {}
        BY <1>3, <1>4, <3>1
      <3> QED
        BY <3>1, <3>2
    <2>2. CASE t # <<>> /\ t[1] = Disconnect
      <3>1. Len(t) # 0
        BY <2>2, EmptySeq
      <3>2. /\ Len(x) + 1 \in told /\ told \subseteq Nat /\ told # {}
            /\ \A i \in told : Len(x) + 1 <= i
        BY <1>3, <1>4, <2>2, <3>1
      <3>3. \E n \in told : \A m \in told : n <= m
        BY <3>2
      <3>4. Min(told) \in told /\ \A m \in told : Min(told) <= m
        BY <3>3 DEF Min
      <3>5. Min(told) = Len(x) + 1
        <4>1. PICK n \in Nat, k \in Nat : n = Min(told) /\ k = Len(x) + 1
          BY <3>2, <3>4, <1>3
        <4>2. n <= k /\ k <= n
          BY <3>2, <3>4, <4>1
        <4> QED
          BY <4>1, <4>2
      <3>6. Min(told) - 1 = Len(x)
        BY <3>5, <1>3
      <3>7. Begins(x, s)
        BY <1>1, <1>2 DEF Begins
      <3> QED
        BY <3>2, <3>6, <3>7, PrefixIs
    <2> QED
      BY <1>1, <2>1, <2>2
  <1> QED
    BY <1>1, <1>2, <1>5, CheckedTypes, PrefixIs

-----------------------------------------------------------------------------
(* The inductive invariant.                                                *)
ReliableInv ==
    /\ ClientInv(client, queued, sent)
    /\ reliable_datagram \in Seq(Ordinary)
    /\ ids \in Nat

LEMMA ReliableInvHolds == ReliableInv => NoHoleBeforeDisconnect
  <1> SUFFICES ASSUME ReliableInv PROVE NoHoleBeforeDisconnect
    OBVIOUS
  <1>1. /\ client \in ClientType /\ queued \in Seq(AnyBlock) /\ sent \in Seq(AnyBlock)
        /\ Good(sent, queued)
    BY DEF ReliableInv, ClientInv
  <1>2. KeptInOrder
    <2>1. sent \o Waiting(client) = (sent \o client.message) \o FlattenSeq(client.backbuf)
      BY <1>1, Parts
    <2> QED
      BY <2>1 DEF KeptInOrder, ReliableInv, ClientInv
  <1>3. IsPrefix(Checked(BeforeDisconnect), queued)
    BY <1>1, BeforeHasNoHole DEF BeforeDisconnect
  <1> QED
    BY <1>2, <1>3 DEF NoHoleBeforeDisconnect

LEMMA ReliableInvStarts == ReliableInit => ReliableInv
  <1> SUFFICES ASSUME ReliableInit PROVE ReliableInv
    OBVIOUS
  <1>1. /\ <<>> \in Lists /\ OrdinaryLists(<<>>) /\ <<>> \in Seq(AnyBlock)
        /\ <<>> \in Seq(Ordinary)
    BY EmptySeq DEF Lists, OrdinaryLists
  <1>2. /\ client \in ClientType /\ client.state = "active" /\ client.message = <<>>
        /\ client.backbuf = <<>>
    BY <1>1 DEF ReliableInit, ClientType
  <1>3. <<>> \o <<>> = <<>>
    BY <1>1, ConcatEmptySeq
  <1>4. Waiting(client) = <<>>
    BY <1>2, <1>3, FlattenNone DEF Waiting
  <1>5. Begins(Checked(<<>>), <<>>)
    BY <1>1, <1>3, CheckedNone DEF Begins
  <1>6. Good(<<>>, <<>>)
    BY <1>1, <1>5, GoodOrdinary
  <1>7. ClientInv(client, queued, sent)
    BY <1>1, <1>2, <1>3, <1>4, <1>6, CheckedNone DEF ClientInv, ReliableInit
  <1> QED
    BY <1>1, <1>7 DEF ReliableInv, ReliableInit

LEMMA ReliableInvKept == ReliableInv /\ [ReliableNext]_reliable => ReliableInv'
  <1> SUFFICES ASSUME ReliableInv, [ReliableNext]_reliable PROVE ReliableInv'
    OBVIOUS
  <1>0. /\ ClientInv(client, queued, sent) /\ reliable_datagram \in Seq(Ordinary)
        /\ ids \in Nat
    BY DEF ReliableInv
  <1>u. FullClientUpdate \in Ordinary
    BY DEF FullClientUpdate, Disconnect, Block, AnyBlock, Kinds, Ordinary
  <1>a. \A b \in Ordinary : Append(reliable_datagram, b) \in Seq(Ordinary)
    BY <1>0, AppendProperties
  <1>1. ASSUME NEW size \in BlockSize, Write(size) PROVE ReliableInv'
    <2>1. PICK b : b = Block(ids + 1, size, "block")
      OBVIOUS
    <2>2. b \in Ordinary /\ b.kind = "block"
      BY <1>0, <2>1, BlockIs, BlocksAssumption DEF Block
    <2>3. /\ client.state = "active" /\ client' = ReliableWrite(client, <<b>>)
          /\ queued' = Append(queued, b) /\ sent' = sent
          /\ ids' = ids + 1 /\ reliable_datagram' = reliable_datagram
      BY <1>1, <2>1 DEF Write
    <2>4. ClientInv(client', queued', sent)
      BY <1>0, <2>2, <2>3, KeptByReliableWrite
    <2> QED
      BY <1>0, <2>3, <2>4 DEF ReliableInv
  <1>2. ASSUME NEW size \in BlockSize, WriteDirect(size) PROVE ReliableInv'
    <2>1. PICK b : b = Block(ids + 1, size, "direct")
      OBVIOUS
    <2>2. b \in Ordinary /\ b.kind = "direct"
      BY <1>0, <2>1, BlockIs, BlocksAssumption DEF Block
    <2>3. /\ client.state = "active" /\ client' = WriteMessage(client, <<b>>)
          /\ queued' = queued /\ sent' = sent
          /\ ids' = ids + 1 /\ reliable_datagram' = reliable_datagram
      BY <1>2, <2>1 DEF WriteDirect
    <2>4. ClientInv(client', queued, sent)
      BY <1>0, <2>2, <2>3, KeptByMessage
    <2> QED
      BY <1>0, <2>3, <2>4 DEF ReliableInv
  <1>3. ASSUME NEW size \in DatagramSize, WriteDatagram(size) PROVE ReliableInv'
    <2>1. PICK b : b = Block(ids + 1, size, "block")
      OBVIOUS
    <2>2. b \in Ordinary
      BY <1>0, <2>1, BlockIs, BlocksAssumption
    <2>3. /\ reliable_datagram' = Append(reliable_datagram, b)
          /\ client' = client /\ queued' = queued /\ sent' = sent /\ ids' = ids + 1
      BY <1>3, <2>1 DEF WriteDatagram
    <2> QED
      BY <1>0, <1>a, <2>2, <2>3 DEF ReliableInv
  <1>4. CASE Acked
    <2>1. ClientInv(client', queued, sent)
      BY <1>0, <1>4, KeptByAcked DEF Acked
    <2> QED
      BY <1>0, <1>4, <2>1 DEF Acked, ReliableInv
  <1>5. CASE Respawn
    <2>1. /\ client' = [[client EXCEPT !.message = <<>>] EXCEPT !.overflowed = FALSE]
          /\ queued' = Checked(sent \o FlattenSeq(client.backbuf))
          /\ client.state = "active"
      BY <1>5, Zenon DEF Respawn
    <2>2. ClientInv(client', queued', sent)
      BY <1>0, <2>1, KeptByRespawn
    <2> QED
      BY <1>0, <1>5, <2>2 DEF Respawn, ReliableInv
  <1>6. CASE ClearReliable
    <2>1. /\ client' = [[[client EXCEPT !.message = <<>>] EXCEPT !.overflowed = FALSE]
                            EXCEPT !.backbuf = <<>>]
          /\ queued' = Checked(sent)
          /\ client.state = "active"
      BY <1>6, Zenon DEF ClearReliable
    <2>2. ClientInv(client', queued', sent)
      BY <1>0, <2>1, KeptByClear
    <2> QED
      BY <1>0, <1>6, <2>2 DEF ClearReliable, ReliableInv
  <1>7. CASE Drop
    <2>1. ClientInv(client', queued, sent)
      BY <1>0, <1>7, KeptByKick DEF Drop
    <2> QED
      BY <1>0, <1>7, <1>a, <1>u, <2>1 DEF Drop, ReliableInv
  <1>8. ASSUME NEW answer \in BOOLEAN, SendClientMessages(answer) PROVE ReliableInv'
    <2>1. PICK w, c, d : /\ w = Distribute(client) /\ c = Rotate(w) /\ d = DropOverflowed(c)
                         /\ reliable_datagram' =
                               (IF c.overflowed THEN <<FullClientUpdate>> ELSE <<>>)
                         /\ \/ /\ client' = TransmitMessage(d)
                               /\ sent' = IF Transmits(d) THEN sent \o d.message ELSE sent
                            \/ client' = d /\ sent' = sent
      BY <1>8 DEF SendClientMessages
    <2>2. ClientInv(w, queued', sent)
      <3>1. /\ w = IF client.state = "active"
                   THEN ReliableWrite(client, reliable_datagram) ELSE client
            /\ queued' = IF client.state = "active"
                         THEN queued \o Checked(reliable_datagram) ELSE queued
        BY <1>8, <2>1 DEF SendClientMessages, Distribute
      <3> QED
        BY <1>0, <3>1, KeptByDistribute
    <2>3. ClientInv(c, queued', sent)
      BY <2>1, <2>2, KeptByRotate
    <2>4. ClientInv(d, queued', sent)
      BY <2>1, <2>3, KeptByDropOverflowed
    <2>5. ClientInv(client', queued', sent')
      BY <2>1, <2>4, KeptByTransmit
    <2>6. reliable_datagram' \in Seq(Ordinary)
      BY <1>u, <2>1, OrdinaryOne, EmptySeq
    <2>7. ids' = ids
      BY <1>8 DEF SendClientMessages
    <2> QED
      BY <1>0, <2>5, <2>6, <2>7 DEF ReliableInv
  <1>9. CASE UNCHANGED reliable
    BY <1>0, <1>9 DEF reliable, ReliableInv
  <1> QED
    BY <1>1, <1>2, <1>3, <1>4, <1>5, <1>6, <1>7, <1>8, <1>9 DEF ReliableNext

(* For blocks and buffers of every size, every number of back buffers and   *)
(* writes, and however writes, frames, acknowledgements, repeated signons   *)
(* and drops alternate: what a client is handed before svc_disconnect has   *)
(* no hole, and while it is to be kept nothing written for it is lost or    *)
(* overtaken (sv_nchan.c, SV_SendClientMessages).                           *)
THEOREM NoHole == ReliableSpec => []NoHoleBeforeDisconnect
  <1>1. ReliableInv /\ [ReliableNext]_reliable => ReliableInv'
    BY ReliableInvKept
  <1> QED
    BY <1>1, ReliableInvStarts, ReliableInvHolds, PTL DEF ReliableSpec
=============================================================================
