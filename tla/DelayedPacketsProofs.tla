------------------------ MODULE DelayedPacketsProofs ------------------------
(***************************************************************************)
(* Theorems about DelayedPackets: for any number of slots, any pool and    *)
(* any longest delay, whatever the packets ask for.                        *)
(***************************************************************************)
EXTENDS DelayedPackets, SequenceTheorems, FiniteSetTheorems, TLAPS

SocketPacket == [slot : Slot, packet : 1..MaxArrivals, connect : BOOLEAN]

(* TypeOK without the bounds of the pool, which are not a matter of type.  *)
Typed ==
    /\ state \in [Slot -> {"free", "active", "zombie"}]
    /\ delay \in [Slot -> 0..MaxDelay]
    /\ packets \in [Slot -> Seq(Block)]
    /\ free_packets \in Nat
    /\ paused \in BOOLEAN
    /\ socket \in Seq(SocketPacket)
    /\ arrived \in 0..MaxArrivals
    /\ executed \in [Slot -> 0..MaxArrivals]
    /\ abandoned \in Nat
    /\ at \in Idle..Reading

LEMMA Sizes ==
    /\ MaxSlot \in Nat \ {0} /\ MaxPackets \in Nat \ {0}
    /\ MaxDelay \in Nat /\ MaxArrivals \in Nat
    /\ Reading = MaxSlot + 1 /\ Idle = 0
    /\ \A s \in Slot : s \in Nat /\ s > Idle /\ s < Reading
  BY SizesAssumption DEF Reading, Idle, Slot

LEMMA TypedList ==
    ASSUME Typed, NEW s \in Slot
    PROVE  /\ packets[s] \in Seq(Block)
           /\ Len(packets[s]) \in Nat
           /\ DOMAIN packets[s] = 1..Len(packets[s])
           /\ \A i \in 1..Len(packets[s]) :
                 /\ packets[s][i] \in Block
                 /\ packets[s][i].packet \in 1..MaxArrivals
                 /\ packets[s][i].age \in 0..MaxDelay
  <1>1. packets[s] \in Seq(Block)
    BY DEF Typed
  <1>2. \A i \in 1..Len(packets[s]) : packets[s][i] \in Block
    BY <1>1, ElementOfSeq
  <1> QED
    BY <1>1, <1>2, LenProperties DEF Block

LEMMA TypedSocket ==
    ASSUME Typed
    PROVE  /\ Len(socket) \in Nat
           /\ \A i \in 1..Len(socket) : socket[i] \in SocketPacket
  <1>1. socket \in Seq(SocketPacket)
    BY DEF Typed
  <1> QED
    BY <1>1, LenProperties, ElementOfSeq

(* The head and the rest of what the socket holds. *)
LEMMA SocketHead ==
    ASSUME Typed, socket # <<>>
    PROVE  /\ Head(socket) = socket[1] /\ Head(socket) \in SocketPacket
           /\ Head(socket).slot \in Slot
           /\ Head(socket).packet \in 1..MaxArrivals
           /\ 1 \in 1..Len(socket)
           /\ Tail(socket) \in Seq(SocketPacket)
           /\ Len(Tail(socket)) = Len(socket) - 1
           /\ \A i \in 1..Len(Tail(socket)) : Tail(socket)[i] = socket[i + 1]
  <1>1. socket \in Seq(SocketPacket)
    BY DEF Typed
  <1>2. Len(socket) \in Nat /\ Len(socket) # 0
    BY <1>1, LenProperties, EmptySeq
  <1>3. Head(socket) = socket[1]
    BY <1>1, <1>2
  <1>4. Head(socket) \in SocketPacket
    BY <1>1, HeadTailProperties
  <1> QED
    BY <1>1, <1>2, <1>3, <1>4, HeadTailProperties DEF SocketPacket

LEMMA ListHead ==
    ASSUME Typed, NEW s \in Slot, packets[s] # <<>>
    PROVE  /\ Head(packets[s]) = packets[s][1] /\ Head(packets[s]) \in Block
           /\ Head(packets[s]).packet \in 1..MaxArrivals
           /\ Head(packets[s]).age \in 0..MaxDelay
           /\ 1 \in 1..Len(packets[s])
           /\ Tail(packets[s]) \in Seq(Block)
           /\ Len(Tail(packets[s])) = Len(packets[s]) - 1
           /\ \A i \in 1..Len(Tail(packets[s])) :
                 Tail(packets[s])[i] = packets[s][i + 1]
  <1>1. packets[s] \in Seq(Block)
    BY DEF Typed
  <1>2. Len(packets[s]) \in Nat /\ Len(packets[s]) # 0
    BY <1>1, LenProperties, EmptySeq
  <1>3. Head(packets[s]) = packets[s][1]
    BY <1>1, <1>2
  <1>4. Head(packets[s]) \in Block
    BY <1>1, HeadTailProperties
  <1> QED
    BY <1>1, <1>2, <1>3, <1>4, HeadTailProperties DEF Block

(* What executing a packet of slot s leaves alone. *)
LEMMA Execution ==
    ASSUME Typed, NEW s \in Slot, NEW n \in 1..MaxArrivals, ExecuteClientMessage(s, n)
    PROVE  /\ state' \in [Slot -> {"free", "active", "zombie"}]
           /\ delay' \in [Slot -> 0..MaxDelay]
           /\ paused' \in BOOLEAN
           /\ executed' \in [Slot -> 0..MaxArrivals]
           /\ executed'[s] = n
           /\ \A t \in Slot \ {s} : /\ state'[t] = state[t] /\ delay'[t] = delay[t]
                                    /\ executed'[t] = executed[t]
  <1>1. PICK d \in NewDelays(s) : delay' = [delay EXCEPT ![s] = d]
    BY DEF ExecuteClientMessage
  <1>2. d \in 0..MaxDelay
    BY <1>1, Sizes DEF NewDelays, Typed
  <1>3. PICK st \in {"active", "zombie"} : state' = [state EXCEPT ![s] = st]
    BY DEF ExecuteClientMessage
  <1>4. /\ executed' = [executed EXCEPT ![s] = n] /\ paused' \in BOOLEAN
        /\ n \in 0..MaxArrivals
    BY DEF ExecuteClientMessage
  <1> QED
    BY <1>1, <1>2, <1>3, <1>4 DEF Typed

(* Time passes for a list: its packets stay. *)
LEMMA AgedList ==
    ASSUME NEW list \in Seq(Block)
    PROVE  /\ Aged(list) \in Seq(Block)
           /\ Len(Aged(list)) = Len(list)
           /\ \A i \in 1..Len(list) : Aged(list)[i].packet = list[i].packet
  <1>1. Len(list) \in Nat /\ DOMAIN list = 1..Len(list)
    BY LenProperties
  <1>2. ASSUME NEW i \in 1..Len(list)
        PROVE  Aged(list)[i] \in Block /\ Aged(list)[i].packet = list[i].packet
    <2>1. list[i] \in Block
      BY <1>2, ElementOfSeq
    <2> DEFINE age == IF list[i].age < MaxDelay THEN list[i].age + 1 ELSE list[i].age
    <2>2. Aged(list)[i] = [list[i] EXCEPT !.age = age]
      BY <1>1 DEF Aged
    <2>3. age \in 0..MaxDelay
      BY <2>1, Sizes DEF Block
    <2> HIDE DEF age
    <2> QED
      BY <2>1, <2>2, <2>3 DEF Block
  <1>3. Aged(list) = [i \in 1..Len(list) |-> Aged(list)[i]]
    BY <1>1 DEF Aged
  <1>4. Aged(list) \in Seq(Block) /\ Len(Aged(list)) = Len(list)
    BY <1>1, <1>2, <1>3
  <1> QED
    BY <1>2, <1>4

-----------------------------------------------------------------------------
LEMMA TypedInvariance == Typed /\ [Next]_vars => Typed'
  <1> SUFFICES ASSUME Typed, [Next]_vars PROVE Typed'
    OBVIOUS
  <1>t. /\ state \in [Slot -> {"free", "active", "zombie"}]
        /\ delay \in [Slot -> 0..MaxDelay]
        /\ packets \in [Slot -> Seq(Block)]
        /\ free_packets \in Nat
        /\ paused \in BOOLEAN
        /\ socket \in Seq(SocketPacket)
        /\ arrived \in 0..MaxArrivals
        /\ executed \in [Slot -> 0..MaxArrivals]
        /\ abandoned \in Nat
        /\ at \in Idle..Reading
    BY DEF Typed
  <1>1. ASSUME NEW s \in Slot, NEW connect \in BOOLEAN, Arrive(s, connect)
        PROVE  Typed'
    <2> DEFINE p == [slot |-> s, packet |-> arrived', connect |-> connect]
    <2>1. arrived' \in 1..MaxArrivals /\ arrived' \in 0..MaxArrivals
      BY <1>1, <1>t, Sizes DEF Arrive
    <2>2. p \in SocketPacket
      BY <2>1 DEF SocketPacket
    <2>3. socket' = Append(socket, p)
      BY <1>1 DEF Arrive
    <2> HIDE DEF p
    <2>4. socket' \in Seq(SocketPacket)
      BY <1>t, <2>2, <2>3, AppendProperties
    <2> QED
      BY <1>1, <1>t, <2>1, <2>4 DEF Arrive, Typed, client
  <1>2. ASSUME NEW expired \in SUBSET Slot, StartFrame(expired)
        PROVE  Typed'
    <2>1. state' \in [Slot -> {"free", "active", "zombie"}]
      BY <1>2, <1>t DEF StartFrame
    <2>2. packets' \in [Slot -> Seq(Block)]
      <3>1. CASE paused
        BY <1>2, <1>t, <3>1 DEF StartFrame
      <3>2. CASE ~paused
        <4>1. packets' = [s \in Slot |-> Aged(packets[s])]
          BY <1>2, <3>2 DEF StartFrame
        <4>2. \A s \in Slot : Aged(packets[s]) \in Seq(Block)
          BY <1>t, AgedList
        <4> QED
          BY <4>1, <4>2
      <3> QED
        BY <3>1, <3>2
    <2>3. at' \in Idle..Reading
      BY <1>2, Sizes DEF StartFrame
    <2> QED
      BY <1>2, <1>t, <2>1, <2>2, <2>3 DEF StartFrame, Typed
  <1>3. ASSUME NEW s \in Slot, ExecuteDelayed(s) PROVE Typed'
    <2>1. packets[s] # <<>>
      BY <1>3 DEF ExecuteDelayed, Due
    <2>2. /\ Head(packets[s]).packet \in 1..MaxArrivals
          /\ Tail(packets[s]) \in Seq(Block)
      BY <2>1, ListHead
    <2>3. /\ state' \in [Slot -> {"free", "active", "zombie"}]
          /\ delay' \in [Slot -> 0..MaxDelay]
          /\ paused' \in BOOLEAN
          /\ executed' \in [Slot -> 0..MaxArrivals]
      BY <1>3, <2>2, Execution DEF ExecuteDelayed
    <2>4. packets' \in [Slot -> Seq(Block)]
      BY <1>3, <1>t, <2>2 DEF ExecuteDelayed
    <2>5. free_packets' \in Nat
      BY <1>3, <1>t DEF ExecuteDelayed
    <2> QED
      BY <1>3, <1>t, <2>3, <2>4, <2>5 DEF ExecuteDelayed, Typed
  <1>4. ASSUME NEW s \in Slot, NextSlot(s) PROVE Typed'
    <2>1. at' \in Idle..Reading
      BY <1>4, Sizes DEF NextSlot
    <2> QED
      BY <1>4, <1>t, <2>1 DEF NextSlot, Typed, client
  <1>5. CASE ReadUnknown \/ ReadNoRoom
    <2>1. socket # <<>>
      BY <1>5 DEF ReadUnknown, ReadNoRoom, ReadsData, Reads
    <2>2. socket' \in Seq(SocketPacket)
      BY <1>5, <2>1, SocketHead DEF ReadUnknown, ReadNoRoom
    <2>3. at' \in Idle..Reading
      BY <1>5, <1>t, Sizes DEF ReadUnknown, ReadNoRoom
    <2> QED
      BY <1>5, <1>t, <2>2, <2>3 DEF ReadUnknown, ReadNoRoom, Typed, client
  <1>6. CASE ReadNow
    <2>1. socket # <<>>
      BY <1>6 DEF ReadNow, ReadsData, Reads
    <2>2. /\ Head(socket).slot \in Slot /\ Head(socket).packet \in 1..MaxArrivals
          /\ Tail(socket) \in Seq(SocketPacket)
      BY <2>1, SocketHead
    <2>3. /\ state' \in [Slot -> {"free", "active", "zombie"}]
          /\ delay' \in [Slot -> 0..MaxDelay]
          /\ paused' \in BOOLEAN
          /\ executed' \in [Slot -> 0..MaxArrivals]
      BY <1>6, <2>2, Execution DEF ReadNow
    <2> QED
      BY <1>6, <1>t, <2>2, <2>3 DEF ReadNow, Typed
  <1>7. CASE ReadDelayed
    <2>1. socket # <<>>
      BY <1>7 DEF ReadDelayed, ReadsData, Reads
    <2> DEFINE t == Head(socket).slot
               b == [packet |-> Head(socket).packet, age |-> 0]
    <2>2. /\ t \in Slot /\ Head(socket).packet \in 1..MaxArrivals
          /\ Tail(socket) \in Seq(SocketPacket)
      BY <2>1, SocketHead
    <2>3. b \in Block
      BY <2>2, Sizes DEF Block
    <2>4. /\ packets' = [packets EXCEPT ![t] = Append(packets[t], b)]
          /\ free_packets' = free_packets - 1 /\ free_packets > 0
          /\ socket' = Tail(socket)
          /\ UNCHANGED <<state, delay, paused, arrived, executed, abandoned, at>>
      BY <1>7 DEF ReadDelayed
    <2> HIDE DEF t, b
    <2>5. Append(packets[t], b) \in Seq(Block)
      BY <1>t, <2>2, <2>3, AppendProperties
    <2>6. packets' \in [Slot -> Seq(Block)]
      BY <1>t, <2>4, <2>5
    <2>7. free_packets' \in Nat
      BY <1>t, <2>4
    <2> QED
      BY <1>t, <2>2, <2>4, <2>6, <2>7 DEF Typed
  <1>8. CASE Connect
    <2>1. socket # <<>>
      BY <1>8 DEF Connect, Reads
    <2> DEFINE t == Head(socket).slot
    <2>2. t \in Slot /\ Tail(socket) \in Seq(SocketPacket)
      BY <2>1, SocketHead
    <2>3. /\ state' = [state EXCEPT ![t] = "active"]
          /\ delay' = [delay EXCEPT ![t] = 0]
          /\ packets' = [packets EXCEPT ![t] = <<>>]
          /\ abandoned' = abandoned + Len(packets[t])
          /\ socket' = Tail(socket)
          /\ UNCHANGED <<free_packets, paused, arrived, executed, at>>
      BY <1>8 DEF Connect
    <2> HIDE DEF t
    <2>4. Len(packets[t]) \in Nat /\ <<>> \in Seq(Block) /\ 0 \in 0..MaxDelay
      BY <2>2, TypedList, EmptySeq, Sizes
    <2>5. /\ state' \in [Slot -> {"free", "active", "zombie"}]
          /\ delay' \in [Slot -> 0..MaxDelay]
      BY <1>t, <2>3, <2>4
    <2>6. packets' \in [Slot -> Seq(Block)]
      BY <1>t, <2>3, <2>4
    <2>7. abandoned' \in Nat
      BY <1>t, <2>3, <2>4
    <2> QED
      BY <1>t, <2>2, <2>3, <2>5, <2>6, <2>7 DEF Typed
  <1>9. CASE EndFrame
    <2>1. at' \in Idle..Reading
      BY <1>9, Sizes DEF EndFrame
    <2> QED
      BY <1>9, <1>t, <2>1 DEF EndFrame, Typed, client
  <1>10. CASE UNCHANGED vars
    BY <1>10, <1>t DEF vars, client, Typed
  <1> QED
    BY <1>1, <1>2, <1>3, <1>4, <1>5, <1>6, <1>7, <1>8, <1>9, <1>10 DEF Next, Frame

-----------------------------------------------------------------------------
(* No list that the frame has passed holds a packet that is due.           *)
PassedNotDue ==
    \A s \in Slot : s < at /\ state[s] # "free" /\ packets[s] # <<>> =>
                       Head(packets[s]).age < delay[s]

LEMMA PassedNotDueInvariance == Typed /\ PassedNotDue /\ [Next]_vars => PassedNotDue'
  <1> SUFFICES ASSUME Typed, PassedNotDue, [Next]_vars, NEW s \in Slot,
                      s < at', state'[s] # "free", packets'[s] # <<>>
               PROVE  Head(packets'[s]).age < delay'[s]
    BY DEF PassedNotDue
  <1>t. /\ at \in Nat /\ s \in Nat /\ s > 0 /\ s < Reading /\ Reading \in Nat
        /\ delay[s] \in Nat /\ delay \in [Slot -> 0..MaxDelay]
        /\ packets \in [Slot -> Seq(Block)]
        /\ state \in [Slot -> {"free", "active", "zombie"}]
        /\ paused \in BOOLEAN
    BY Sizes DEF Typed
  <1>1. CASE UNCHANGED <<client, at>>
    BY <1>1 DEF client, PassedNotDue
  <1>2. ASSUME NEW r \in Slot, NEW connect \in BOOLEAN, Arrive(r, connect)
        PROVE  Head(packets'[s]).age < delay'[s]
    BY <1>1, <1>2 DEF Arrive
  <1>3. ASSUME NEW expired \in SUBSET Slot, StartFrame(expired)
        PROVE  Head(packets'[s]).age < delay'[s]
    BY <1>3, <1>t DEF StartFrame
  <1>4. ASSUME NEW r \in Slot, ExecuteDelayed(r)
        PROVE  Head(packets'[s]).age < delay'[s]
    <2>1. packets[r] # <<>> /\ at = r /\ at' = at
      BY <1>4 DEF ExecuteDelayed, Due
    <2>2. Head(packets[r]).packet \in 1..MaxArrivals
      BY <2>1, ListHead
    <2>3. s # r
      BY <1>t, <2>1
    <2>4. state'[s] = state[s] /\ delay'[s] = delay[s]
      BY <1>4, <2>2, <2>3, Execution DEF ExecuteDelayed
    <2>5. packets'[s] = packets[s]
      BY <1>4, <1>t, <2>3 DEF ExecuteDelayed
    <2> QED
      BY <2>1, <2>4, <2>5 DEF PassedNotDue
  <1>5. ASSUME NEW r \in Slot, NextSlot(r)
        PROVE  Head(packets'[s]).age < delay'[s]
    <2>1. /\ at = r /\ at' = r + 1 /\ state' = state /\ delay' = delay
          /\ packets' = packets /\ ~(state[r] # "free" /\ Due(r))
      BY <1>5 DEF NextSlot, client
    <2>2. CASE s = r
      <3>1. Head(packets[s]).age \in Nat
        BY <2>1, ListHead, Sizes
      <3> QED
        BY <1>t, <2>1, <2>2, <3>1 DEF Due
    <2>3. CASE s # r
      <3>1. s < at
        BY <1>t, <2>1, <2>3
      <3> QED
        BY <2>1, <3>1 DEF PassedNotDue
    <2> QED
      BY <2>2, <2>3
  <1>6. CASE ReadUnknown
    BY <1>1, <1>6 DEF ReadUnknown
  <1>7. CASE ReadNoRoom \/ EndFrame
    BY <1>7, <1>t, Sizes DEF ReadNoRoom, EndFrame
  <1>8. CASE ReadNow
    <2> DEFINE r == Head(socket).slot
    <2>1. socket # <<>>
      BY <1>8 DEF ReadNow, ReadsData, Reads
    <2>2. r \in Slot /\ Head(socket).packet \in 1..MaxArrivals
      BY <2>1, SocketHead
    <2>3. /\ at = Reading /\ at' = at /\ packets' = packets
          /\ state[r] # "free" /\ ~(delay[r] > 0)
          /\ ExecuteClientMessage(r, Head(socket).packet)
      BY <1>8 DEF ReadNow, ReadsData, Reads, InGame, Delays
    <2> HIDE DEF r
    <2>4. CASE s = r
      <3>1. Head(packets[s]).age \in Nat
        BY <2>3, ListHead, Sizes
      <3>2. Head(packets[s]).age < delay[s]
        BY <1>t, <2>3, <2>4 DEF PassedNotDue
      <3> QED
        BY <1>t, <2>3, <2>4, <3>1, <3>2
    <2>5. CASE s # r
      <3>1. state'[s] = state[s] /\ delay'[s] = delay[s]
        BY <2>2, <2>3, <2>5, Execution
      <3> QED
        BY <2>3, <3>1 DEF PassedNotDue
    <2> QED
      BY <2>4, <2>5
  <1>9. CASE ReadDelayed
    <2> DEFINE r == Head(socket).slot
               b == [packet |-> Head(socket).packet, age |-> 0]
    <2>1. socket # <<>>
      BY <1>9 DEF ReadDelayed, ReadsData, Reads
    <2>2. r \in Slot /\ Head(socket).packet \in 1..MaxArrivals
      BY <2>1, SocketHead
    <2>3. /\ at = Reading /\ at' = at /\ state' = state /\ delay' = delay
          /\ delay[r] > 0
          /\ packets' = [packets EXCEPT ![r] = Append(packets[r], b)]
      BY <1>9 DEF ReadDelayed, ReadsData, Reads, Delays
    <2>4. b \in Block /\ b.age = 0
      BY <2>2, Sizes DEF Block
    <2> HIDE DEF r, b
    <2>5. CASE s = r /\ packets[s] = <<>>
      <3>1. Head(packets'[s]) = b
        BY <1>t, <2>3, <2>4, <2>5, HeadTailAppend
      <3> QED
        BY <2>3, <2>4, <2>5, <3>1
    <2>6. CASE s = r /\ packets[s] # <<>>
      <3>1. Head(packets'[s]) = Head(packets[s])
        BY <1>t, <2>3, <2>4, <2>6, HeadTailAppend
      <3> QED
        BY <2>3, <2>6, <3>1 DEF PassedNotDue
    <2>7. CASE s # r
      <3>1. packets'[s] = packets[s]
        BY <1>t, <2>3, <2>7
      <3> QED
        BY <2>3, <3>1 DEF PassedNotDue
    <2> QED
      BY <2>5, <2>6, <2>7
  <1>10. CASE Connect
    <2> DEFINE r == Head(socket).slot
    <2>1. /\ state' = [state EXCEPT ![r] = "active"]
          /\ delay' = [delay EXCEPT ![r] = 0]
          /\ packets' = [packets EXCEPT ![r] = <<>>]
          /\ at' = at
      BY <1>10 DEF Connect
    <2> HIDE DEF r
    <2>2. s # r
      BY <1>t, <2>1
    <2>3. /\ packets'[s] = packets[s] /\ delay'[s] = delay[s]
          /\ state'[s] = state[s]
      BY <1>t, <2>1, <2>2
    <2> QED
      BY <2>1, <2>3 DEF PassedNotDue
  <1>11. CASE UNCHANGED vars
    BY <1>1, <1>11 DEF vars
  <1> QED
    BY <1>2, <1>3, <1>4, <1>5, <1>6, <1>7, <1>8, <1>9, <1>10, <1>11 DEF Next, Frame

-----------------------------------------------------------------------------
(* Numbers of packets grow along a client's list, and from what has been   *)
(* executed through the lists to the socket.                               *)
ListInOrder(s) ==
    /\ executed[s] <= arrived
    /\ \A i \in 1..Len(packets[s]) :
          executed[s] < packets[s][i].packet /\ packets[s][i].packet <= arrived
    /\ \A i, j \in 1..Len(packets[s]) :
          i < j => packets[s][i].packet < packets[s][j].packet

SocketAfter(s) ==
    \A i \in 1..Len(socket) :
        /\ executed[s] < socket[i].packet
        /\ \A j \in 1..Len(packets[s]) : packets[s][j].packet < socket[i].packet

SocketInOrder ==
    /\ \A i \in 1..Len(socket) : socket[i].packet <= arrived
    /\ \A i, j \in 1..Len(socket) : i < j => socket[i].packet < socket[j].packet

InOrder == SocketInOrder /\ \A s \in Slot : ListInOrder(s) /\ SocketAfter(s)

(* A packet is taken from the socket. *)
LEMMA SocketTaken ==
    ASSUME Typed, InOrder, socket # <<>>, socket' = Tail(socket), arrived' = arrived
    PROVE  /\ SocketInOrder'
           /\ \A s \in Slot : executed'[s] = executed[s] /\ packets'[s] = packets[s]
                                 => ListInOrder(s)' /\ SocketAfter(s)'
           /\ \A i \in 1..Len(socket') : /\ i + 1 \in 1..Len(socket)
                                         /\ socket'[i] = socket[i + 1]
  <1>1. /\ Len(socket) \in Nat
        /\ Len(socket') = Len(socket) - 1
        /\ \A i \in 1..Len(socket') : socket'[i] = socket[i + 1]
    BY SocketHead, TypedSocket
  <1>2. \A i \in 1..Len(socket') : i + 1 \in 1..Len(socket) /\ i \in Nat
    BY <1>1
  <1>3. SocketInOrder'
    <2>1. \A i \in 1..Len(socket') : socket'[i].packet <= arrived'
      BY <1>1, <1>2 DEF InOrder, SocketInOrder
    <2>2. ASSUME NEW i \in 1..Len(socket'), NEW j \in 1..Len(socket'), i < j
          PROVE  socket'[i].packet < socket'[j].packet
      <3>1. i + 1 < j + 1
        BY <1>2, <2>2
      <3> QED
        BY <1>1, <1>2, <2>2, <3>1 DEF InOrder, SocketInOrder
    <2> QED
      BY <2>1, <2>2 DEF SocketInOrder
  <1>4. ASSUME NEW s \in Slot, executed'[s] = executed[s], packets'[s] = packets[s]
        PROVE  ListInOrder(s)' /\ SocketAfter(s)'
    <2>1. ListInOrder(s)'
      BY <1>4 DEF InOrder, ListInOrder
    <2>2. SocketAfter(s)'
      BY <1>1, <1>2, <1>4 DEF InOrder, SocketAfter
    <2> QED
      BY <2>1, <2>2
  <1> QED
    BY <1>1, <1>2, <1>3, <1>4

LEMMA InOrderInvariance ==
    Typed /\ Typed' /\ PassedNotDue /\ InOrder /\ [Next]_vars => InOrder'
  <1> SUFFICES ASSUME Typed, Typed', PassedNotDue, InOrder, [Next]_vars PROVE InOrder'
    OBVIOUS
  <1>t. /\ packets \in [Slot -> Seq(Block)] /\ arrived \in Nat
        /\ socket \in Seq(SocketPacket) /\ Len(socket) \in Nat
        /\ executed \in [Slot -> 0..MaxArrivals]
        /\ \A s \in Slot : executed[s] \in Nat
    BY Sizes, TypedSocket DEF Typed
  <1>o. /\ SocketInOrder
        /\ \A s \in Slot : ListInOrder(s) /\ SocketAfter(s)
    BY DEF InOrder
  <1>1. CASE UNCHANGED <<packets, socket, arrived, executed>>
    BY <1>1 DEF InOrder, SocketInOrder, ListInOrder, SocketAfter
  <1>2. ASSUME NEW r \in Slot, NEW connect \in BOOLEAN, Arrive(r, connect)
        PROVE  InOrder'
    <2> DEFINE p == [slot |-> r, packet |-> arrived', connect |-> connect]
    <2>1. /\ arrived' = arrived + 1 /\ arrived' \in 1..MaxArrivals
          /\ socket' = Append(socket, p)
          /\ packets' = packets /\ executed' = executed
      BY <1>2, <1>t, Sizes DEF Arrive, client
    <2>2. p \in SocketPacket /\ p.packet = arrived'
      BY <2>1 DEF SocketPacket
    <2> HIDE DEF p
    <2>3. /\ Len(socket') = Len(socket) + 1
          /\ \A i \in 1..Len(socket) : socket'[i] = socket[i]
          /\ socket'[Len(socket) + 1] = p
      BY <1>t, <2>1, <2>2, AppendProperties
    <2>4. \A i \in 1..Len(socket') : i \in 1..Len(socket) \/ i = Len(socket) + 1
      BY <1>t, <2>3
    <2>5. \A i \in 1..Len(socket) : socket[i].packet \in Nat
      BY TypedSocket, Sizes DEF SocketPacket
    <2>6. SocketInOrder'
      <3>1. \A i \in 1..Len(socket') : socket'[i].packet <= arrived'
        BY <1>t, <1>o, <2>1, <2>2, <2>3, <2>4, <2>5 DEF SocketInOrder
      <3>2. ASSUME NEW i \in 1..Len(socket'), NEW j \in 1..Len(socket'), i < j
            PROVE  socket'[i].packet < socket'[j].packet
        <4>1. i \in 1..Len(socket)
          BY <1>t, <2>3, <3>2
        <4>2. CASE j \in 1..Len(socket)
          BY <1>o, <2>3, <3>2, <4>1, <4>2 DEF SocketInOrder
        <4>3. CASE j = Len(socket) + 1
          <5>1. socket[i].packet <= arrived /\ socket[i].packet \in Nat
            BY <1>o, <2>5, <4>1 DEF SocketInOrder
          <5> QED
            BY <1>t, <2>1, <2>2, <2>3, <4>1, <4>3, <5>1
        <4> QED
          BY <2>4, <4>2, <4>3
      <3> QED
        BY <3>1, <3>2 DEF SocketInOrder
    <2>7. ASSUME NEW s \in Slot PROVE ListInOrder(s)' /\ SocketAfter(s)'
      <3>1. \A i \in 1..Len(packets[s]) : packets[s][i].packet \in Nat
        BY TypedList, Sizes
      <3>2. ListInOrder(s)'
        BY <1>t, <1>o, <2>1, <3>1 DEF ListInOrder
      <3>3. SocketAfter(s)'
        <4>1. ASSUME NEW i \in 1..Len(socket')
              PROVE  /\ executed[s] < socket'[i].packet
                     /\ \A j \in 1..Len(packets[s]) :
                           packets[s][j].packet < socket'[i].packet
          <5>1. CASE i \in 1..Len(socket)
            BY <1>o, <2>3, <5>1 DEF SocketAfter
          <5>2. CASE i = Len(socket) + 1
            BY <1>t, <1>o, <2>1, <2>2, <2>3, <3>1, <5>2 DEF ListInOrder
          <5> QED
            BY <2>4, <5>1, <5>2
        <4> QED
          BY <2>1, <4>1 DEF SocketAfter
      <3> QED
        BY <3>2, <3>3
    <2> QED
      BY <2>6, <2>7 DEF InOrder
  <1>3. ASSUME NEW expired \in SUBSET Slot, StartFrame(expired)
        PROVE  InOrder'
    <2>1. UNCHANGED <<socket, arrived, executed>>
      BY <1>3 DEF StartFrame
    <2>2. ASSUME NEW s \in Slot
          PROVE  /\ Len(packets'[s]) = Len(packets[s])
                 /\ \A i \in 1..Len(packets[s]) :
                       packets'[s][i].packet = packets[s][i].packet
      <3>1. CASE paused
        BY <1>3, <3>1 DEF StartFrame
      <3>2. CASE ~paused
        <4>1. packets'[s] = Aged(packets[s])
          BY <1>3, <3>2 DEF StartFrame
        <4> QED
          BY <1>t, <4>1, AgedList
      <3> QED
        BY <3>1, <3>2
    <2>3. \A s \in Slot : ListInOrder(s)' /\ SocketAfter(s)'
      BY <1>o, <2>1, <2>2 DEF ListInOrder, SocketAfter
    <2>4. SocketInOrder'
      BY <1>o, <2>1 DEF SocketInOrder
    <2> QED
      BY <2>3, <2>4 DEF InOrder
  <1>4. ASSUME NEW r \in Slot, ExecuteDelayed(r) PROVE InOrder'
    <2>1. packets[r] # <<>> /\ UNCHANGED <<socket, arrived>>
      BY <1>4 DEF ExecuteDelayed, Due
    <2>2. /\ Head(packets[r]) = packets[r][1]
          /\ Head(packets[r]).packet \in 1..MaxArrivals
          /\ 1 \in 1..Len(packets[r]) /\ Len(packets[r]) \in Nat
          /\ Len(Tail(packets[r])) = Len(packets[r]) - 1
          /\ \A i \in 1..Len(Tail(packets[r])) :
                Tail(packets[r])[i] = packets[r][i + 1]
      BY <2>1, ListHead, TypedList
    <2>3. /\ executed'[r] = Head(packets[r]).packet
          /\ \A s \in Slot \ {r} : executed'[s] = executed[s]
      BY <1>4, <2>2, Execution DEF ExecuteDelayed
    <2>4. /\ packets'[r] = Tail(packets[r])
          /\ \A s \in Slot \ {r} : packets'[s] = packets[s]
      BY <1>4, <1>t DEF ExecuteDelayed
    <2>5. \A i \in 1..Len(packets'[r]) :
             /\ i \in Nat /\ i + 1 \in 1..Len(packets[r])
             /\ packets'[r][i] = packets[r][i + 1]
      BY <2>2, <2>4
    <2>6. ListInOrder(r)'
      <3>1. executed'[r] <= arrived'
        BY <1>o, <2>1, <2>2, <2>3 DEF ListInOrder
      <3>2. \A i \in 1..Len(packets'[r]) :
               /\ executed'[r] < packets'[r][i].packet
               /\ packets'[r][i].packet <= arrived'
        <4> TAKE i \in 1..Len(packets'[r])
        <4>1. 1 < i + 1
          BY <2>5
        <4> QED
          BY <1>o, <2>1, <2>2, <2>3, <2>5, <4>1 DEF ListInOrder
      <3>3. ASSUME NEW i \in 1..Len(packets'[r]), NEW j \in 1..Len(packets'[r]), i < j
            PROVE  packets'[r][i].packet < packets'[r][j].packet
        <4>1. i + 1 < j + 1
          BY <2>5, <3>3
        <4> QED
          BY <1>o, <2>5, <4>1 DEF ListInOrder
      <3> QED
        BY <3>1, <3>2, <3>3 DEF ListInOrder
    <2>7. SocketAfter(r)'
      BY <1>o, <2>1, <2>2, <2>3, <2>5 DEF SocketAfter
    <2>8. \A s \in Slot \ {r} : ListInOrder(s)' /\ SocketAfter(s)'
      BY <1>o, <2>1, <2>3, <2>4 DEF ListInOrder, SocketAfter
    <2>9. SocketInOrder'
      BY <1>o, <2>1 DEF SocketInOrder
    <2> QED
      BY <2>6, <2>7, <2>8, <2>9 DEF InOrder
  <1>5. ASSUME NEW r \in Slot, NextSlot(r) PROVE InOrder'
    BY <1>1, <1>5 DEF NextSlot, client
  <1>6. CASE ReadUnknown \/ ReadNoRoom
    <2>1. /\ socket # <<>> /\ socket' = Tail(socket) /\ arrived' = arrived
          /\ executed' = executed /\ packets' = packets
      BY <1>6 DEF ReadUnknown, ReadNoRoom, ReadsData, Reads, client
    <2> QED
      BY <2>1, SocketTaken DEF InOrder
  <1>7. CASE ReadNow
    <2>s. socket # <<>>
      BY <1>7 DEF ReadNow, ReadsData, Reads
    <2>r. PICK r \in Slot, n \in 1..MaxArrivals :
             r = Head(socket).slot /\ n = Head(socket).packet
      BY <2>s, SocketHead
    <2>1. /\ socket # <<>> /\ socket' = Tail(socket) /\ arrived' = arrived
          /\ at = Reading /\ packets' = packets
          /\ state[r] # "free" /\ ~(delay[r] > 0)
          /\ ExecuteClientMessage(r, n)
      BY <1>7, <2>r DEF ReadNow, ReadsData, Reads, InGame, Delays
    <2>2. n = socket[1].packet /\ 1 \in 1..Len(socket)
      BY <2>1, <2>r, SocketHead
    <2>3. packets[r] = <<>>
      <3> SUFFICES ASSUME packets[r] # <<>> PROVE FALSE
        OBVIOUS
      <3>1. delay[r] \in 0..MaxDelay
        BY DEF Typed
      <3>2. Head(packets[r]).age \in Nat /\ delay[r] \in Nat
        BY <3>1, ListHead, Sizes
      <3>3. Head(packets[r]).age < delay[r]
        BY <2>1, Sizes DEF PassedNotDue
      <3> QED
        BY <2>1, <3>2, <3>3
    <2>4. /\ executed'[r] = n
          /\ \A s \in Slot \ {r} : executed'[s] = executed[s]
      BY <2>1, <2>2, Execution
    <2>5. \A i \in 1..Len(socket') : /\ i \in Nat /\ i + 1 \in 1..Len(socket)
                                     /\ socket'[i] = socket[i + 1]
      BY <2>1, SocketTaken
    <2>6. Len(packets'[r]) = 0
      BY <2>1, <2>3
    <2>7. ListInOrder(r)'
      BY <1>o, <2>1, <2>2, <2>4, <2>6 DEF ListInOrder, SocketInOrder
    <2>8. SocketAfter(r)'
      <3>1. \A i \in 1..Len(socket') : executed'[r] < socket'[i].packet
        <4> TAKE i \in 1..Len(socket')
        <4>1. 1 < i + 1
          BY <2>5
        <4> QED
          BY <1>o, <2>2, <2>4, <2>5, <4>1 DEF SocketInOrder
      <3> QED
        BY <2>6, <3>1 DEF SocketAfter
    <2>9. SocketInOrder' /\ \A s \in Slot \ {r} : ListInOrder(s)' /\ SocketAfter(s)'
      BY <2>1, <2>4, SocketTaken
    <2> QED
      BY <2>7, <2>8, <2>9 DEF InOrder
  <1>8. CASE ReadDelayed
    <2>s. socket # <<>>
      BY <1>8 DEF ReadDelayed, ReadsData, Reads
    <2>r. PICK r \in Slot, b \in Block :
             r = Head(socket).slot /\ b = [packet |-> Head(socket).packet, age |-> 0]
      <3>1. Head(socket).slot \in Slot /\ Head(socket).packet \in 1..MaxArrivals
        BY <2>s, SocketHead
      <3>2. [packet |-> Head(socket).packet, age |-> 0] \in Block
        BY <3>1, Sizes DEF Block
      <3> QED
        BY <3>1, <3>2, Zenon
    <2>1. /\ socket # <<>> /\ socket' = Tail(socket) /\ arrived' = arrived
          /\ executed' = executed
          /\ packets' = [packets EXCEPT ![r] = Append(packets[r], b)]
      BY <1>8, <2>r DEF ReadDelayed, ReadsData, Reads
    <2>2. Head(socket) = socket[1] /\ 1 \in 1..Len(socket)
      BY <2>1, SocketHead
    <2>3. b.packet = socket[1].packet
      BY <2>2, <2>r
    <2>4. /\ packets[r] \in Seq(Block) /\ Len(packets[r]) \in Nat
      BY <2>2, TypedList
    <2>5. /\ packets'[r] = Append(packets[r], b)
          /\ \A s \in Slot \ {r} : packets'[s] = packets[s]
      BY <1>t, <2>1, <2>2
    <2>6. /\ Len(packets'[r]) = Len(packets[r]) + 1
          /\ \A i \in 1..Len(packets[r]) : packets'[r][i] = packets[r][i]
          /\ packets'[r][Len(packets[r]) + 1] = b
      BY <2>3, <2>4, <2>5, AppendProperties
    <2>7. \A i \in 1..Len(packets'[r]) :
             i \in 1..Len(packets[r]) \/ i = Len(packets[r]) + 1
      BY <2>4, <2>6
    <2>8. \A i \in 1..Len(socket') : /\ i \in Nat /\ i + 1 \in 1..Len(socket)
                                     /\ socket'[i] = socket[i + 1]
      BY <2>1, SocketTaken
    <2>9. \A j \in 1..Len(packets[r]) :
             /\ executed[r] < packets[r][j].packet
             /\ packets[r][j].packet <= arrived
             /\ packets[r][j].packet < b.packet
      BY <1>o, <2>2, <2>3 DEF ListInOrder, SocketAfter
    <2>10. executed[r] < b.packet /\ b.packet <= arrived
      BY <1>o, <2>2, <2>3 DEF SocketAfter, SocketInOrder
    <2>11. ListInOrder(r)'
      <3>1. executed'[r] <= arrived'
        BY <1>o, <2>1, <2>2 DEF ListInOrder
      <3>2. \A i \in 1..Len(packets'[r]) :
               /\ executed'[r] < packets'[r][i].packet
               /\ packets'[r][i].packet <= arrived'
        BY <2>1, <2>6, <2>7, <2>9, <2>10
      <3>3. ASSUME NEW i \in 1..Len(packets'[r]), NEW j \in 1..Len(packets'[r]), i < j
            PROVE  packets'[r][i].packet < packets'[r][j].packet
        <4>1. i \in 1..Len(packets[r])
          BY <2>4, <2>6, <3>3
        <4>2. CASE j \in 1..Len(packets[r])
          BY <1>o, <2>2, <2>6, <3>3, <4>1, <4>2 DEF ListInOrder
        <4>3. CASE j = Len(packets[r]) + 1
          BY <2>6, <2>9, <4>1, <4>3
        <4> QED
          BY <2>7, <4>2, <4>3
      <3> QED
        BY <3>1, <3>2, <3>3 DEF ListInOrder
    <2>12. SocketAfter(r)'
      <3>1. ASSUME NEW i \in 1..Len(socket')
            PROVE  /\ executed'[r] < socket'[i].packet
                   /\ \A j \in 1..Len(packets'[r]) :
                         packets'[r][j].packet < socket'[i].packet
        <4>1. 1 < i + 1
          BY <2>8
        <4>2. b.packet < socket'[i].packet
          BY <1>o, <2>2, <2>3, <2>8, <4>1 DEF SocketInOrder
        <4>3. /\ executed[r] < socket'[i].packet
              /\ \A j \in 1..Len(packets[r]) :
                    packets[r][j].packet < socket'[i].packet
          BY <1>o, <2>2, <2>8 DEF SocketAfter
        <4> QED
          BY <2>1, <2>6, <2>7, <4>2, <4>3
      <3> QED
        BY <3>1 DEF SocketAfter
    <2>13. SocketInOrder' /\ \A s \in Slot \ {r} : ListInOrder(s)' /\ SocketAfter(s)'
      BY <2>1, <2>5, SocketTaken
    <2> QED
      BY <2>11, <2>12, <2>13 DEF InOrder
  <1>9. CASE Connect
    <2>s. socket # <<>>
      BY <1>9 DEF Connect, Reads
    <2>r. PICK r \in Slot : r = Head(socket).slot
      BY <2>s, SocketHead
    <2>1. /\ socket # <<>> /\ socket' = Tail(socket) /\ arrived' = arrived
          /\ executed' = executed
          /\ packets' = [packets EXCEPT ![r] = <<>>]
      BY <1>9, <2>r DEF Connect, Reads
    <2>3. /\ packets'[r] = <<>> /\ Len(packets'[r]) = 0
          /\ \A s \in Slot \ {r} : packets'[s] = packets[s]
      BY <1>t, <2>1
    <2>4. \A i \in 1..Len(socket') : /\ i + 1 \in 1..Len(socket)
                                     /\ socket'[i] = socket[i + 1]
      BY <2>1, SocketTaken
    <2>5. ListInOrder(r)' /\ SocketAfter(r)'
      <3>1. ListInOrder(r)'
        BY <1>o, <2>1, <2>3 DEF ListInOrder
      <3>2. SocketAfter(r)'
        BY <1>o, <2>1, <2>3, <2>4 DEF SocketAfter
      <3> QED
        BY <3>1, <3>2
    <2>6. SocketInOrder' /\ \A s \in Slot \ {r} : ListInOrder(s)' /\ SocketAfter(s)'
      BY <2>1, <2>3, SocketTaken
    <2> QED
      BY <2>5, <2>6 DEF InOrder
  <1>10. CASE EndFrame
    BY <1>1, <1>10 DEF EndFrame, client
  <1>11. CASE UNCHANGED vars
    BY <1>1, <1>11 DEF vars, client
  <1> QED
    BY <1>2, <1>3, <1>4, <1>5, <1>6, <1>7, <1>8, <1>9, <1>10, <1>11 DEF Next, Frame

-----------------------------------------------------------------------------
(* The pool.  What is on the lists, as a function of the lists. *)
Places(p) == UNION {{s} \X DOMAIN p[s] : s \in Slot}

PoolInv == IsFiniteSet(Listed) /\ PoolConserved

LEMMA InPlaces ==
    ASSUME NEW p \in [Slot -> Seq(Block)]
    PROVE  /\ \A s \in Slot : \A i : <<s, i>> \in Places(p) <=> i \in 1..Len(p[s])
           /\ \A b \in Places(p) : \E s \in Slot, i \in Nat : b = <<s, i>>
           /\ \A s \in Slot : Len(p[s]) \in Nat
  <1>1. \A s \in Slot : DOMAIN p[s] = 1..Len(p[s]) /\ Len(p[s]) \in Nat
    BY LenProperties
  <1>2. ASSUME NEW s \in Slot, NEW i
        PROVE  <<s, i>> \in Places(p) <=> i \in 1..Len(p[s])
    <2>1. ASSUME <<s, i>> \in Places(p) PROVE i \in 1..Len(p[s])
      <3>1. PICK r \in Slot : <<s, i>> \in {r} \X DOMAIN p[r]
        BY <2>1 DEF Places
      <3>2. s = r /\ i \in DOMAIN p[r]
        BY <3>1
      <3> QED
        BY <1>1, <3>2
    <2>2. ASSUME i \in 1..Len(p[s]) PROVE <<s, i>> \in Places(p)
      <3>1. <<s, i>> \in {s} \X DOMAIN p[s]
        BY <1>1, <2>2
      <3> QED
        BY <3>1 DEF Places
    <2> QED
      BY <2>1, <2>2
  <1>3. ASSUME NEW b \in Places(p)
        PROVE  \E s \in Slot, i \in Nat : b = <<s, i>>
    <2>1. PICK s \in Slot : b \in {s} \X DOMAIN p[s]
      BY DEF Places
    <2>2. PICK i \in DOMAIN p[s] : b = <<s, i>>
      BY <2>1
    <2>3. i \in Nat
      BY <1>1, <2>2
    <2> QED
      BY <2>2, <2>3
  <1> QED
    BY <1>1, <1>2, <1>3

(* Two assignments of lists with the same places. *)
LEMMA PlacesSame ==
    ASSUME NEW p \in [Slot -> Seq(Block)], NEW q \in [Slot -> Seq(Block)],
           \A s \in Slot : Len(q[s]) = Len(p[s])
    PROVE  Places(q) = Places(p)
  <1>1. ASSUME NEW b \in Places(p) PROVE b \in Places(q)
    <2>1. PICK s \in Slot, i \in Nat : b = <<s, i>>
      BY InPlaces
    <2> QED
      BY <2>1, InPlaces
  <1>2. ASSUME NEW b \in Places(q) PROVE b \in Places(p)
    <2>1. PICK s \in Slot, i \in Nat : b = <<s, i>>
      BY InPlaces
    <2> QED
      BY <2>1, InPlaces
  <1> QED
    BY <1>1, <1>2

(* q has one place more than p: the last of list r. *)
LEMMA PlacesOneMore ==
    ASSUME NEW p \in [Slot -> Seq(Block)], NEW q \in [Slot -> Seq(Block)],
           NEW r \in Slot, Len(q[r]) = Len(p[r]) + 1,
           \A s \in Slot \ {r} : q[s] = p[s]
    PROVE  \E new : new \notin Places(p) /\ Places(q) = Places(p) \union {new}
  <1>1. PICK last : last = <<r, Len(q[r])>>
    OBVIOUS
  <1>2. Len(p[r]) \in Nat /\ Len(q[r]) \in 1..Len(q[r]) /\ Len(q[r]) \notin 1..Len(p[r])
    BY InPlaces
  <1>3. last \notin Places(p) /\ last \in Places(q)
    BY <1>1, <1>2, InPlaces
  <1>4. ASSUME NEW b \in Places(p) PROVE b \in Places(q)
    <2>1. PICK s \in Slot, i \in Nat : b = <<s, i>>
      BY InPlaces
    <2>2. i \in 1..Len(p[s])
      BY <2>1, InPlaces
    <2>3. i \in 1..Len(q[s])
      BY <1>2, <2>2
    <2> QED
      BY <2>1, <2>3, InPlaces
  <1>5. ASSUME NEW b \in Places(q) PROVE b \in Places(p) \/ b = last
    <2>1. PICK s \in Slot, i \in Nat : b = <<s, i>>
      BY InPlaces
    <2>2. i \in 1..Len(q[s])
      BY <2>1, InPlaces
    <2>3. i \in 1..Len(p[s]) \/ (s = r /\ i = Len(q[r]))
      BY <1>2, <2>2
    <2> QED
      BY <1>1, <2>1, <2>3, InPlaces
  <1>6. Places(q) = Places(p) \union {last}
    BY <1>3, <1>4, <1>5
  <1> QED
    BY <1>3, <1>6

LEMMA ListedPlaces == Listed = Places(packets) /\ Listed' = Places(packets')
  BY DEF Listed, Places

(* No list changes its length. *)
LEMMA ListedSame ==
    ASSUME Typed, Typed', \A s \in Slot : Len(packets'[s]) = Len(packets[s])
    PROVE  Listed' = Listed
  <1>1. packets \in [Slot -> Seq(Block)] /\ packets' \in [Slot -> Seq(Block)]
    BY DEF Typed
  <1> QED
    BY <1>1, PlacesSame, ListedPlaces

LEMMA ListedOneMore ==
    ASSUME Typed, Typed', IsFiniteSet(Listed), NEW r \in Slot,
           Len(packets'[r]) = Len(packets[r]) + 1,
           \A s \in Slot \ {r} : packets'[s] = packets[s]
    PROVE  IsFiniteSet(Listed') /\ Cardinality(Listed') = Cardinality(Listed) + 1
  <1>1. packets \in [Slot -> Seq(Block)] /\ packets' \in [Slot -> Seq(Block)]
    BY DEF Typed
  <1>2. PICK new : new \notin Listed /\ Listed' = Listed \union {new}
    BY <1>1, PlacesOneMore, ListedPlaces
  <1> QED
    BY <1>2, FS_AddElement

LEMMA ListedOneLess ==
    ASSUME Typed, Typed', IsFiniteSet(Listed), NEW r \in Slot,
           packets[r] # <<>>, Len(packets'[r]) = Len(packets[r]) - 1,
           \A s \in Slot \ {r} : packets'[s] = packets[s]
    PROVE  IsFiniteSet(Listed') /\ Cardinality(Listed') = Cardinality(Listed) - 1
  <1>1. packets \in [Slot -> Seq(Block)] /\ packets' \in [Slot -> Seq(Block)]
    BY DEF Typed
  <1>2. Len(packets[r]) = Len(packets'[r]) + 1
    BY TypedList
  <1>3. PICK last : last \notin Listed' /\ Listed = Listed' \union {last}
    <2>1. \A s \in Slot \ {r} : packets[s] = packets'[s]
      OBVIOUS
    <2>2. PICK p \in [Slot -> Seq(Block)], q \in [Slot -> Seq(Block)] :
             p = packets' /\ q = packets
      BY <1>1, Zenon
    <2>3. Len(q[r]) = Len(p[r]) + 1 /\ \A s \in Slot \ {r} : q[s] = p[s]
      BY <1>2, <2>1, <2>2
    <2>4. \E last : last \notin Places(p) /\ Places(q) = Places(p) \union {last}
      BY <2>3, PlacesOneMore
    <2> QED
      BY <2>2, <2>4, ListedPlaces
  <1>4. Listed' = Listed \ {last} /\ last \in Listed
    BY <1>3
  <1> QED
    BY <1>4, FS_RemoveElement

LEMMA ListedCleared ==
    ASSUME Typed, Typed', IsFiniteSet(Listed), NEW r \in Slot,
           packets'[r] = <<>>, \A s \in Slot \ {r} : packets'[s] = packets[s]
    PROVE  /\ IsFiniteSet(Listed')
           /\ Cardinality(Listed) = Cardinality(Listed') + Len(packets[r])
  <1>1. packets \in [Slot -> Seq(Block)] /\ packets' \in [Slot -> Seq(Block)]
    BY DEF Typed
  <1>2. PICK p \in [Slot -> Seq(Block)], q \in [Slot -> Seq(Block)] :
           p = packets /\ q = packets'
    BY <1>1, Zenon
  <1>3. /\ Len(p[r]) \in Nat /\ Len(q[r]) = 0 /\ 1..Len(q[r]) = {}
        /\ \A s \in Slot \ {r} : q[s] = p[s]
    BY <1>2, TypedList
  <1>4. PICK gone : gone = {r} \X (1..Len(p[r]))
    OBVIOUS
  <1>5. gone \subseteq Places(p)
    <2> SUFFICES ASSUME NEW b \in gone PROVE b \in Places(p)
      OBVIOUS
    <2>1. PICK i \in 1..Len(p[r]) : b = <<r, i>>
      BY <1>4
    <2> QED
      BY <2>1, InPlaces
  <1>6. Places(q) = Places(p) \ gone
    <2>1. ASSUME NEW b \in Places(q) PROVE b \in Places(p) \ gone
      <3>1. PICK s \in Slot, i \in Nat : b = <<s, i>>
        BY InPlaces
      <3>2. i \in 1..Len(q[s])
        BY <3>1, InPlaces
      <3>3. s # r
        BY <1>3, <3>2
      <3>4. b \in Places(p)
        BY <1>3, <3>1, <3>2, <3>3, InPlaces
      <3>5. b \notin gone
        BY <1>4, <3>1, <3>3
      <3> QED
        BY <3>4, <3>5
    <2>2. ASSUME NEW b \in Places(p) \ gone PROVE b \in Places(q)
      <3>1. PICK s \in Slot, i \in Nat : b = <<s, i>>
        BY InPlaces
      <3>2. i \in 1..Len(p[s])
        BY <3>1, InPlaces
      <3>3. s # r
        BY <1>4, <3>1, <3>2
      <3> QED
        BY <1>3, <3>1, <3>2, <3>3, InPlaces
    <2> QED
      BY <2>1, <2>2
  <1>7. IsFiniteSet(gone) /\ Cardinality(gone) = Len(p[r])
    <2>1. /\ IsFiniteSet({r}) /\ Cardinality({r}) = 1
      BY FS_Singleton
    <2>2. /\ IsFiniteSet(1..Len(p[r])) /\ Cardinality(1..Len(p[r])) = Len(p[r])
      <3>1. PICK n \in Nat : n = Len(p[r])
        BY <1>3
      <3>2. 1 \in Int /\ n \in Int
        OBVIOUS
      <3>3. /\ IsFiniteSet(1..n)
            /\ Cardinality(1..n) = IF 1 > n THEN 0 ELSE n - 1 + 1
        BY <3>2, FS_Interval
      <3>4. Cardinality(1..n) = n
        BY <3>3
      <3> QED
        BY <3>1, <3>3, <3>4
    <2>3. IsFiniteSet(gone) /\ Cardinality(gone) = 1 * Len(p[r])
      BY <1>4, <2>1, <2>2, FS_Product
    <2> QED
      BY <1>3, <2>3
  <1>8. Places(p) \intersect gone = gone /\ IsFiniteSet(Places(p))
    BY <1>2, <1>5, ListedPlaces
  <1>9. /\ IsFiniteSet(Places(q))
        /\ Cardinality(Places(q)) = Cardinality(Places(p)) - Cardinality(gone)
    BY <1>6, <1>8, FS_Difference
  <1>10. Cardinality(Places(p)) \in Nat
    BY <1>8, FS_CardinalityType
  <1>11. Cardinality(Places(p)) = Cardinality(Places(q)) + Len(p[r])
    BY <1>3, <1>7, <1>9, <1>10
  <1> QED
    BY <1>2, <1>9, <1>11, ListedPlaces

LEMMA PoolInvariance == Typed /\ Typed' /\ PoolInv /\ [Next]_vars => PoolInv'
  <1> SUFFICES ASSUME Typed, Typed', PoolInv, [Next]_vars PROVE PoolInv'
    OBVIOUS
  <1>t. /\ IsFiniteSet(Listed) /\ Cardinality(Listed) \in Nat
        /\ free_packets \in Nat /\ abandoned \in Nat /\ MaxPackets \in Nat
        /\ free_packets + Cardinality(Listed) + abandoned = MaxPackets
        /\ packets \in [Slot -> Seq(Block)]
    BY FS_CardinalityType, Sizes DEF PoolInv, PoolConserved, Typed
  <1>1. ASSUME free_packets' = free_packets, abandoned' = abandoned,
               \A s \in Slot : Len(packets'[s]) = Len(packets[s])
        PROVE  PoolInv'
    <2>1. Listed' = Listed
      BY <1>1, ListedSame
    <2> QED
      BY <1>1, <1>t, <2>1 DEF PoolInv, PoolConserved
  <1>2. ASSUME NEW s \in Slot, NEW connect \in BOOLEAN, Arrive(s, connect)
        PROVE  PoolInv'
    BY <1>1, <1>2 DEF Arrive, client
  <1>3. ASSUME NEW expired \in SUBSET Slot, StartFrame(expired)
        PROVE  PoolInv'
    <2>1. \A s \in Slot : Len(packets'[s]) = Len(packets[s])
      <3>1. CASE paused
        BY <1>3, <3>1 DEF StartFrame
      <3>2. CASE ~paused
        <4>1. \A s \in Slot : packets'[s] = Aged(packets[s])
          BY <1>3, <3>2 DEF StartFrame
        <4> QED
          BY <1>t, <4>1, AgedList
      <3> QED
        BY <3>1, <3>2
    <2> QED
      BY <1>1, <1>3, <2>1 DEF StartFrame
  <1>4. ASSUME NEW r \in Slot, ExecuteDelayed(r) PROVE PoolInv'
    <2>1. /\ packets[r] # <<>> /\ packets' = [packets EXCEPT ![r] = Tail(packets[r])]
          /\ free_packets' = free_packets + 1 /\ abandoned' = abandoned
      BY <1>4 DEF ExecuteDelayed, Due
    <2>2. /\ Len(packets'[r]) = Len(packets[r]) - 1
          /\ \A s \in Slot \ {r} : packets'[s] = packets[s]
      BY <1>t, <2>1, ListHead
    <2>3. IsFiniteSet(Listed') /\ Cardinality(Listed') = Cardinality(Listed) - 1
      BY <1>t, <2>1, <2>2, ListedOneLess
    <2> QED
      BY <1>t, <2>1, <2>3 DEF PoolInv, PoolConserved
  <1>5. ASSUME NEW s \in Slot, NextSlot(s) PROVE PoolInv'
    BY <1>1, <1>5 DEF NextSlot, client
  <1>6. CASE ReadUnknown \/ ReadNow \/ ReadNoRoom \/ EndFrame
    BY <1>1, <1>6 DEF ReadUnknown, ReadNow, ReadNoRoom, EndFrame, client
  <1>7. CASE ReadDelayed
    <2>1. socket # <<>>
      BY <1>7 DEF ReadDelayed, ReadsData, Reads
    <2>2. /\ Head(socket).slot \in Slot
          /\ [packet |-> Head(socket).packet, age |-> 0] \in Block
      <3>1. Head(socket).slot \in Slot /\ Head(socket).packet \in 1..MaxArrivals
        BY <2>1, SocketHead
      <3> QED
        BY <3>1, Sizes DEF Block
    <2>3. PICK r \in Slot, b \in Block :
             r = Head(socket).slot /\ b = [packet |-> Head(socket).packet, age |-> 0]
      BY <2>2, Zenon
    <2>4. /\ packets' = [packets EXCEPT ![r] = Append(packets[r], b)]
          /\ free_packets' = free_packets - 1 /\ abandoned' = abandoned
      BY <1>7, <2>3 DEF ReadDelayed
    <2>5. /\ Len(packets'[r]) = Len(packets[r]) + 1
          /\ \A s \in Slot \ {r} : packets'[s] = packets[s]
      BY <1>t, <2>4, AppendProperties
    <2>6. IsFiniteSet(Listed') /\ Cardinality(Listed') = Cardinality(Listed) + 1
      BY <1>t, <2>5, ListedOneMore
    <2> QED
      BY <1>t, <2>4, <2>6 DEF PoolInv, PoolConserved
  <1>8. CASE Connect
    <2>1. socket # <<>>
      BY <1>8 DEF Connect, Reads
    <2>2. PICK r \in Slot : r = Head(socket).slot
      BY <2>1, SocketHead
    <2>3. /\ packets' = [packets EXCEPT ![r] = <<>>]
          /\ abandoned' = abandoned + Len(packets[r])
          /\ free_packets' = free_packets
      BY <1>8, <2>2 DEF Connect
    <2>4. /\ packets'[r] = <<>> /\ \A s \in Slot \ {r} : packets'[s] = packets[s]
      BY <1>t, <2>3
    <2>5. /\ IsFiniteSet(Listed')
          /\ Cardinality(Listed) = Cardinality(Listed') + Len(packets[r])
      BY <1>t, <2>4, ListedCleared
    <2>6. Len(packets[r]) \in Nat /\ Cardinality(Listed') \in Nat
      BY <2>5, TypedList, FS_CardinalityType
    <2> QED
      BY <1>t, <2>3, <2>5, <2>6 DEF PoolInv, PoolConserved
  <1>9. CASE UNCHANGED vars
    BY <1>1, <1>9 DEF vars, client
  <1> QED
    BY <1>2, <1>3, <1>4, <1>5, <1>6, <1>7, <1>8, <1>9 DEF Next, Frame

-----------------------------------------------------------------------------
Inv == Typed /\ PassedNotDue /\ InOrder /\ PoolInv

LEMMA DelayedInitially == Init => Inv
  <1> SUFFICES ASSUME Init PROVE Inv
    OBVIOUS
  <1>1. /\ <<>> \in Seq(Block) /\ <<>> \in Seq(SocketPacket) /\ Len(<<>>) = 0
        /\ 0 \in 0..MaxDelay /\ MaxDelay \in 0..MaxDelay /\ 0 \in 0..MaxArrivals
        /\ Idle \in Idle..Reading /\ MaxPackets \in Nat /\ 1..0 = {}
    BY Sizes, EmptySeq
  <1>2. /\ state \in [Slot -> {"free", "active", "zombie"}]
        /\ packets \in [Slot -> Seq(Block)]
        /\ executed \in [Slot -> 0..MaxArrivals]
        /\ \A s \in Slot : packets[s] = <<>> /\ executed[s] = 0
    BY <1>1 DEF Init
  <1>3. delay \in [Slot -> 0..MaxDelay]
    BY <1>1 DEF Init
  <1>4. Typed
    BY <1>1, <1>2, <1>3 DEF Init, Typed
  <1>5. PassedNotDue
    BY <1>2 DEF PassedNotDue
  <1>6. InOrder
    BY <1>1, <1>2 DEF Init, InOrder, SocketInOrder, ListInOrder, SocketAfter
  <1>7. PoolInv
    <2>1. Listed = {}
      <3> SUFFICES ASSUME NEW b \in Listed PROVE FALSE
        OBVIOUS
      <3>1. PICK s \in Slot, i \in Nat : b = <<s, i>>
        BY <1>2, InPlaces, ListedPlaces
      <3>2. i \in 1..Len(packets[s])
        BY <1>2, <3>1, InPlaces, ListedPlaces
      <3> QED
        BY <1>1, <1>2, <3>2
    <2>2. IsFiniteSet(Listed) /\ Cardinality(Listed) = 0
      BY <2>1, FS_EmptySet
    <2> QED
      BY <1>1, <2>2 DEF Init, PoolInv, PoolConserved
  <1> QED
    BY <1>4, <1>5, <1>6, <1>7 DEF Inv

LEMMA InvHolds == Spec => []Inv
  <1>1. Inv /\ [Next]_vars => Inv'
    BY TypedInvariance, PassedNotDueInvariance, InOrderInvariance, PoolInvariance
       DEF Inv
  <1> QED
    BY <1>1, DelayedInitially, PTL DEF Spec

(* Every variable keeps its type; in particular the pool never has fewer   *)
(* than no free blocks, nor more than it was made with.                    *)
THEOREM DelayedTypeCorrect == Spec => []TypeOK
  <1>1. Inv => TypeOK
    <2> SUFFICES ASSUME Inv PROVE TypeOK
      OBVIOUS
    <2>1. Typed /\ IsFiniteSet(Listed) /\ PoolConserved
      BY DEF Inv, PoolInv
    <2>2. Cardinality(Listed) \in Nat /\ MaxPackets \in Nat
      BY <2>1, FS_CardinalityType, Sizes
    <2>3. free_packets \in 0..MaxPackets /\ abandoned \in 0..MaxPackets
      BY <2>1, <2>2 DEF PoolConserved, Typed
    <2> QED
      BY <2>1, <2>3 DEF Typed, TypeOK, SocketPacket
  <1> QED
    BY <1>1, InvHolds, PTL

(* A client's packets are executed in the order they arrived, though some  *)
(* go through its list and others do not (sv_main.c 2949-2973).            *)
THEOREM PacketsInOrder == Spec => []ExecutedInOrder
  <1>1. Inv => ExecutedInOrder
    <2> SUFFICES ASSUME Inv, NEW s \in Slot,
                        NEW numbers,
                        numbers = <<executed[s]>> \o
                                  [i \in DOMAIN packets[s] |-> packets[s][i].packet],
                        NEW i \in 1..Len(numbers) - 1
                 PROVE  numbers[i] < numbers[i + 1]
      BY Zenon DEF ExecutedInOrder
    <2>1. Typed /\ ListInOrder(s)
      BY DEF Inv, InOrder
    <2>2. PICK n \in Nat : n = Len(packets[s]) /\ DOMAIN packets[s] = 1..n
      BY <2>1, TypedList
    <2>3. PICK listed : listed = [j \in 1..n |-> packets[s][j].packet]
      OBVIOUS
    <2>4. /\ listed \in Seq(1..MaxArrivals) /\ Len(listed) = n
          /\ \A j \in 1..n : listed[j] = packets[s][j].packet
      BY <2>1, <2>2, <2>3, TypedList
    <2>5. <<executed[s]>> \in Seq(0..MaxArrivals) /\ Len(<<executed[s]>>) = 1
      BY <2>1 DEF Typed
    <2>6. numbers = <<executed[s]>> \o listed
      BY <2>2, <2>3
    <2>7. /\ Len(numbers) = 1 + n
          /\ numbers[1] = executed[s]
          /\ \A j \in 1..n : numbers[j + 1] = listed[j]
      BY <2>4, <2>5, <2>6
    <2>8. i \in 1..n
      BY <2>2, <2>7
    <2>9. numbers[i + 1] = packets[s][i].packet
      BY <2>4, <2>7, <2>8
    <2>10. CASE i = 1
      BY <2>1, <2>2, <2>7, <2>8, <2>9, <2>10 DEF ListInOrder
    <2>11. CASE i # 1
      <3>1. i - 1 \in 1..n /\ i - 1 < i /\ (i - 1) + 1 = i
        BY <2>8, <2>11
      <3>2. numbers[i] = packets[s][i - 1].packet
        BY <2>4, <2>7, <3>1
      <3> QED
        BY <2>1, <2>2, <2>8, <2>9, <3>1, <3>2 DEF ListInOrder
    <2> QED
      BY <2>10, <2>11
  <1> QED
    BY <1>1, InvHolds, PTL

(* Once the server reads the socket no list holds a packet that is due,    *)
(* whatever the packets executed before did to the delays and the pause    *)
(* (sv_main.c 2895-2901).                                                  *)
THEOREM NoPacketLate == Spec => []NothingOverdue
  <1>1. Inv => NothingOverdue
    BY Sizes DEF Inv, PassedNotDue, NothingOverdue
  <1> QED
    BY <1>1, InvHolds, PTL

(* No block of the pool is lost, but with a client that is cleared, and    *)
(* none is in two places (sv_main.c 289-296, 2950-2966).                   *)
THEOREM PoolWhole == Spec => []PoolConserved
  <1>1. Inv => PoolConserved
    BY DEF Inv, PoolInv
  <1> QED
    BY <1>1, InvHolds, PTL
=============================================================================
