--------------------------- MODULE ChallengesProofs ---------------------------
(***************************************************************************)
(* What is proved of Challenges, for tables of any size and any addresses. *)
(***************************************************************************)
EXTENDS Challenges, FiniteSetTheorems, WellFoundedInduction, TLAPS

-----------------------------------------------------------------------------
(* A set of numbers that is not empty has a least one. *)
LEMMA LeastNumber ==
    ASSUME NEW S \in SUBSET Nat, S # {}
    PROVE  \E x \in S : \A y \in S : x <= y
<1> DEFINE less == {ss \in Nat \X Nat : ss[1] < ss[2]}
<1>1. IsWellFoundedOn(less, Nat)
    BY NatLessThanWellFounded, Zenon DEF OpToRel
<1>2. PICK x \in S : \A y \in S : ~(<<y, x>> \in less)
    BY <1>1, WFMin
<1>3. ASSUME NEW y \in S PROVE x <= y
  <2>1. x \in Nat /\ y \in Nat /\ ~(<<y, x>> \in less)
      BY <1>2, <1>3
  <2>2. ~(y < x)
      BY <2>1
  <2> QED BY <2>1, <2>2
<1> QED BY <1>3

-----------------------------------------------------------------------------
(***************************************************************************)
(* Challenges.                                                             *)
(***************************************************************************)
ChallengeTypes ==
    /\ challenges \in [Place -> [adr : Addr \cup {NoAddr}, time : Nat]]
    /\ realtime \in Nat \ {0}
    /\ told \in [Addr -> Nat] /\ asked \in [Addr -> Nat]

(* A place says when its address was told; a free one is the oldest. *)
Remembered ==
    \A i \in Place :
        IF challenges[i].adr = NoAddr THEN challenges[i].time = 0
        ELSE challenges[i].time = told[challenges[i].adr] /\ challenges[i].time # 0
OnePlace ==
    \A i, j \in Place :
        challenges[i].adr = challenges[j].adr /\ challenges[i].adr \in Addr => i = j
NotAhead == \A a \in Addr : told[a] <= asked[a] /\ asked[a] <= realtime

ChallengeInv ==
    ChallengeTypes /\ Remembered /\ OnePlace /\ NotAhead /\ GoodUntilCrowdedOut

ChallengeConstants ==
    /\ IsFiniteSet(Addr) /\ NoAddr \notin Addr
    /\ MaxChallenges \in Nat \ {0}

LEMMA OldestIsOldest ==
    ASSUME ChallengeConstants, ChallengeTypes
    PROVE  /\ Oldest \in Place
           /\ \A i \in Place :
                 challenges[Oldest].time <= challenges[i].time
<1> DEFINE times == {challenges[i].time : i \in Place}
           first == {i \in Place :
                        \A j \in Place : challenges[i].time <= challenges[j].time}
<1>1. times \in SUBSET Nat /\ times # {}
  <2>1. 1 \in Place
      BY DEF ChallengeConstants, Place
  <2> QED BY <2>1 DEF ChallengeTypes
<1>2. first # {} /\ first \in SUBSET Nat
  <2>1. PICK t \in times : \A y \in times : t <= y
      BY <1>1, LeastNumber
  <2>2. PICK i \in Place : t = challenges[i].time
      BY <2>1
  <2>3. i \in first
      BY <2>1, <2>2
  <2> QED BY <2>3 DEF Place
<1>3. \E x \in first : \A y \in first : x <= y
    BY <1>2, LeastNumber
<1>4. Oldest \in first
    BY <1>3 DEF Oldest, Min
<1> QED BY <1>4

LEMMA ChallengeStart == ASSUME ChallengeConstants, Init PROVE ChallengeInv
<1>1. ChallengeTypes
    BY DEF Init, ChallengeTypes
<1>2. Remembered /\ OnePlace /\ NotAhead /\ GoodUntilCrowdedOut
    BY DEF Init, ChallengeConstants, Remembered, OnePlace, NotAhead, GoodUntilCrowdedOut
<1> QED BY <1>1, <1>2 DEF ChallengeInv

Crowd(c) == {b \in Addr \ {c} : asked[b] >= told[c]}

LEMMA GoodSaid ==
    GoodUntilCrowdedOut <=>
        \A c \in Addr : told[c] # 0 =>
            Of(c) # {} \/ Cardinality(Crowd(c)) >= MaxChallenges
BY DEF GoodUntilCrowdedOut, CheckChallange, Crowd

(* A crowd only grows, as long as nobody is told anything new. *)
LEMMA CrowdGrows ==
    ASSUME ChallengeConstants, NEW c \in Addr, told'[c] = told[c], told[c] \in Nat,
           \A b \in Addr : asked[b] \in Nat /\ asked'[b] \in Nat /\ asked[b] <= asked'[b],
           Cardinality(Crowd(c)) >= MaxChallenges
    PROVE  Cardinality(Crowd(c)') >= MaxChallenges
<1>1. Crowd(c) \subseteq Crowd(c)' /\ Crowd(c)' \subseteq Addr
    BY DEF Crowd
<1>2. IsFiniteSet(Addr) /\ IsFiniteSet(Crowd(c)')
    BY <1>1, FS_Subset DEF ChallengeConstants
<1>3. Cardinality(Crowd(c)) <= Cardinality(Crowd(c)')
    BY <1>1, <1>2, FS_Subset
<1>4. IsFiniteSet(Crowd(c)) /\ Cardinality(Crowd(c)) \in Nat /\ Cardinality(Crowd(c)') \in Nat
    BY <1>1, <1>2, FS_Subset, FS_CardinalityType
<1> QED BY <1>3, <1>4 DEF ChallengeConstants

(* The places of a full table are a crowd for whom they have crowded out:  *)
(* each holds an address told no earlier, and no two the same.             *)
LEMMA TableIsCrowd ==
    ASSUME ChallengeConstants, NEW c \in Addr,
           NEW f \in [Place -> Addr \ {c}],
           \A i \in Place : asked'[f[i]] >= told'[c],
           \A i, j \in Place : f[i] = f[j] => i = j
    PROVE  Cardinality(Crowd(c)') >= MaxChallenges
<1>1. IsFiniteSet(Addr) /\ Crowd(c)' \subseteq Addr
    BY DEF Crowd, ChallengeConstants
<1>2. IsFiniteSet(Crowd(c)')
    BY <1>1, FS_Subset
<1>3. f \in Injection(Place, Crowd(c)')
  <2>1. f \in [Place -> Crowd(c)']
      BY DEF Crowd
  <2> QED BY <2>1 DEF Injection, IsInjective
<1>4. Cardinality(Place) <= Cardinality(Crowd(c)')
    BY <1>2, <1>3, FS_Injection
<1>5. Cardinality(Place) = MaxChallenges
    BY FS_Interval DEF Place, ChallengeConstants
<1> QED BY <1>2, <1>4, <1>5, FS_CardinalityType DEF ChallengeConstants

LEMMA ToldAgain ==
    ASSUME ChallengeConstants, ChallengeInv, NEW a \in Addr, GetChallenge(a),
           Of(a) # {}
    PROVE  ChallengeInv'
<1> USE DEF ChallengeInv
<1>1. /\ challenges' = challenges /\ told' = told /\ realtime' = realtime
      /\ asked' = [asked EXCEPT ![a] = realtime]
    BY DEF GetChallenge, ChallengeTypes
<1>2. ChallengeTypes' /\ Remembered' /\ OnePlace'
    BY <1>1 DEF ChallengeTypes, Remembered, OnePlace
<1>3. \A b \in Addr : /\ asked[b] \in Nat /\ asked'[b] \in Nat /\ told[b] \in Nat
                       /\ asked[b] <= asked'[b] /\ asked'[b] <= realtime
    BY <1>1 DEF ChallengeTypes, NotAhead
<1>4. NotAhead'
    BY <1>1, <1>3 DEF NotAhead, ChallengeTypes
<1>5. ASSUME NEW c \in Addr, told'[c] # 0
      PROVE  Of(c)' # {} \/ Cardinality(Crowd(c)') >= MaxChallenges
  <2>1. CASE Of(c) # {}
      BY <2>1, <1>1 DEF Of
  <2>2. CASE Cardinality(Crowd(c)) >= MaxChallenges
      BY <2>2, <1>1, <1>3, CrowdGrows
  <2> QED BY <2>1, <2>2, <1>1, <1>5, GoodSaid
<1>6. GoodUntilCrowdedOut'
    BY <1>5 DEF GoodUntilCrowdedOut, CheckChallange, Crowd
<1> QED BY <1>2, <1>4, <1>6

LEMMA ToldAnew ==
    ASSUME ChallengeConstants, ChallengeInv, NEW a \in Addr, GetChallenge(a),
           Of(a) = {}
    PROVE  ChallengeInv'
<1> DEFINE o == Oldest
<1> USE DEF ChallengeInv
<1>1. /\ o \in Place
      /\ \A i \in Place : challenges[o].time <= challenges[i].time
    BY OldestIsOldest
<1> HIDE DEF o
<1>2. /\ challenges' = [challenges EXCEPT ![o] = [adr |-> a, time |-> realtime]]
      /\ told' = [told EXCEPT ![a] = realtime]
      /\ asked' = [asked EXCEPT ![a] = realtime]
      /\ realtime' = realtime
    BY DEF GetChallenge, o
<1>3. ChallengeTypes'
    BY <1>1, <1>2 DEF ChallengeTypes
<1>4. a # NoAddr /\ \A i \in Place : challenges[i].adr # a
    BY DEF Of, ChallengeConstants
<1>5. /\ challenges'[o] = [adr |-> a, time |-> realtime]
      /\ \A i \in Place \ {o} : challenges'[i] = challenges[i]
      /\ told'[a] = realtime /\ asked'[a] = realtime
      /\ \A b \in Addr \ {a} : told'[b] = told[b] /\ asked'[b] = asked[b]
    BY <1>1, <1>2 DEF ChallengeTypes
<1>t. /\ \A i \in Place : /\ challenges[i].adr \in Addr \cup {NoAddr}
                                    /\ challenges[i].time \in Nat
      /\ realtime \in Nat /\ realtime # 0
      /\ \A b \in Addr : told[b] \in Nat /\ asked[b] \in Nat
    BY DEF ChallengeTypes
<1>6. Remembered'
  <2> SUFFICES ASSUME NEW i \in Place
               PROVE  IF challenges'[i].adr = NoAddr THEN challenges'[i].time = 0
                      ELSE /\ challenges'[i].time = told'[challenges'[i].adr]
                           /\ challenges'[i].time # 0
      BY DEF Remembered
  <2>1. CASE i = o
      BY <2>1, <1>4, <1>5, <1>t
  <2>2. CASE i # o
    <3>1. challenges'[i] = challenges[i] /\ challenges[i].adr # a
        BY <2>2, <1>4, <1>5
    <3> QED BY <3>1, <1>5, <1>t DEF Remembered
  <2> QED BY <2>1, <2>2
<1>7. OnePlace'
    BY <1>4, <1>5 DEF OnePlace
<1>8. NotAhead'
    BY <1>2, <1>5, <1>t DEF NotAhead
<1>9. ASSUME NEW c \in Addr, told'[c] # 0
      PROVE  Of(c)' # {} \/ Cardinality(Crowd(c)') >= MaxChallenges
  <2>1. CASE c = a
      BY <2>1, <1>1, <1>5 DEF Of
  <2>2. CASE c # a /\ Cardinality(Crowd(c)) >= MaxChallenges
    <3>1. \A b \in Addr : asked'[b] \in Nat /\ asked[b] <= asked'[b]
        BY <1>5, <1>t DEF NotAhead
    <3> QED BY <2>2, <3>1, <1>5, <1>t, CrowdGrows
  <2>3. CASE c # a /\ challenges[o].adr # c /\ Of(c) # {}
      BY <2>3, <1>5 DEF Of
  <2>4. CASE c # a /\ challenges[o].adr = c
    <3> DEFINE f == [i \in Place |-> challenges'[i].adr]
    <3>1. challenges[o].time = told[c] /\ told[c] # 0 /\ told'[c] = told[c]
        BY <2>4, <1>1, <1>5, <1>9 DEF Remembered, ChallengeConstants
    <3>2. f[o] = a /\ asked'[a] >= told'[c]
        BY <3>1, <1>1, <1>5, <1>t DEF NotAhead
    <3>3. ASSUME NEW i \in Place, i # o
          PROVE  /\ f[i] = challenges[i].adr /\ f[i] \in Addr \ {c} /\ f[i] # a
                 /\ asked'[f[i]] >= told'[c]
      <4>1. f[i] = challenges[i].adr /\ f[i] # a
          BY <3>3, <1>4, <1>5
      <4>2. challenges[i].time >= told[c] /\ challenges[i].time # 0
          BY <3>1, <1>1, <1>t
      <4>3. f[i] \in Addr /\ told[f[i]] >= told[c]
          BY <4>1, <4>2, <1>t DEF Remembered
      <4>4. f[i] # c
          BY <4>1, <3>3, <2>4, <1>1 DEF OnePlace
      <4>5. asked'[f[i]] >= told'[c]
          BY <4>1, <4>3, <3>1, <1>5, <1>t DEF NotAhead
      <4> QED BY <4>1, <4>3, <4>4, <4>5
    <3>4. \A i, j \in Place : f[i] = f[j] => i = j
        BY <3>2, <3>3 DEF OnePlace
    <3>5. f \in [Place -> Addr \ {c}]
      <4>1. \A i \in Place : f[i] \in Addr \ {c}
          BY <2>4, <3>2, <3>3
      <4> QED BY <4>1
    <3>6. \A i \in Place : asked'[f[i]] >= told'[c]
        BY <3>2, <3>3
    <3> HIDE DEF f
    <3> QED BY <3>4, <3>5, <3>6, TableIsCrowd
  <2> QED BY <2>1, <2>2, <2>3, <2>4, <1>5, <1>9, GoodSaid
<1>10. GoodUntilCrowdedOut'
    BY <1>9 DEF GoodUntilCrowdedOut, CheckChallange, Crowd
<1> QED BY <1>3, <1>6, <1>7, <1>8, <1>10

LEMMA ChallengeFrame == ASSUME ChallengeConstants, ChallengeInv, Frame PROVE ChallengeInv'
<1> USE DEF ChallengeInv
<1>1. /\ UNCHANGED <<challenges, told, asked>> /\ realtime' = realtime + 1
    BY DEF Frame
<1>2. ChallengeTypes' /\ Remembered' /\ OnePlace' /\ NotAhead'
    BY <1>1 DEF ChallengeTypes, Remembered, OnePlace, NotAhead
<1>3. GoodUntilCrowdedOut'
    BY <1>1 DEF GoodUntilCrowdedOut, CheckChallange, Of
<1> QED BY <1>2, <1>3

(* A challenge a client was told is good until MaxChallenges other         *)
(* addresses have asked no earlier: whatever the order of requests and     *)
(* seconds, a smaller crowd keeps nobody out (SVC_GetChallenge,            *)
(* CheckChallange).                                                        *)
THEOREM ChallengesLast ==
    ASSUME IsFiniteSet(Addr), NoAddr \notin Addr, MaxChallenges \in Nat \ {0}
    PROVE  Spec => []GoodUntilCrowdedOut
<1>0. ChallengeConstants
    BY DEF ChallengeConstants
<1>1. Init => ChallengeInv
    BY <1>0, ChallengeStart
<1>2. ChallengeInv /\ [Next]_vars => ChallengeInv'
  <2> SUFFICES ASSUME ChallengeInv, [Next]_vars PROVE ChallengeInv'
      OBVIOUS
  <2>1. CASE Next
      BY <2>1, <1>0, ToldAgain, ToldAnew, ChallengeFrame DEF Next
  <2>2. CASE UNCHANGED vars
    <3>1. UNCHANGED <<challenges, realtime, told, asked>>
        BY <2>2 DEF vars
    <3>2. ChallengeTypes' /\ Remembered' /\ OnePlace' /\ NotAhead'
        BY <3>1 DEF ChallengeInv, ChallengeTypes, Remembered, OnePlace, NotAhead
    <3>3. GoodUntilCrowdedOut'
        BY <3>1 DEF ChallengeInv, GoodUntilCrowdedOut, CheckChallange, Of
    <3> QED BY <3>2, <3>3 DEF ChallengeInv
  <2> QED BY <2>1, <2>2
<1>3. ChallengeInv => GoodUntilCrowdedOut
    BY DEF ChallengeInv
<1> QED BY <1>1, <1>2, <1>3, PTL DEF Spec
=============================================================================
