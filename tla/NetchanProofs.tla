--------------------------- MODULE NetchanProofs ---------------------------
(***************************************************************************)
(* Theorems about Netchan for every set of messages, buffer size and bound *)
(* on writes and packets: types, exactly-once in-order delivery, that      *)
(* Netchan implements ReliableChannel, and what its steps may never do.    *)
(*                                                                         *)
(* The inductive invariant is stated for one direction: e sends reliable   *)
(* blocks, p = Peer(e) receives them and acknowledges them on its own      *)
(* packets.                                                                *)
(***************************************************************************)
EXTENDS Netchan, SequenceTheorems, TLAPS

(* The packets to e that e would still accept. *)
Live(e) == {k \in net[e] : ~Stale(e, k)}

(* The block in reliable_buf has not been handed to the peer yet. *)
Missing(e) == reliable_sequence[e] # incoming_reliable_sequence[Peer(e)]

(* Nothing e has sent has a number e will use again. *)
Numbered(e) ==
    /\ \A k \in net[Peer(e)] : k.seq < outgoing_sequence[e]
    /\ incoming_sequence[Peer(e)] <= outgoing_sequence[e]
    /\ \A k1, k2 \in net[Peer(e)] : k1.seq = k2.seq => k1 = k2

(* A live reliable packet is the last one e sent, its block is missing and *)
(* is the one in reliable_buf.                                             *)
BlockUnderWay(e) ==
    \A k \in Live(Peer(e)) :
        k.rel => /\ k.seq + 1 = last_reliable_sequence[e]
                 /\ Missing(e)
                 /\ k.data = reliable_buf[e]

(* An acknowledgement of a packet sent after the last reliable one carries *)
(* the peer's present bit, whether it is under way or was the last one in. *)
AcknowledgesTruly(e) ==
    /\ \A k \in net[e] :
          /\ k.ack <= incoming_sequence[Peer(e)]
          /\ k.ack >= last_reliable_sequence[e]
                => k.relack = incoming_reliable_sequence[Peer(e)]
    /\ incoming_acknowledged[e] <= incoming_sequence[Peer(e)]
    /\ incoming_acknowledged[e] >= last_reliable_sequence[e]
          => incoming_reliable_acknowledged[e] = incoming_reliable_sequence[Peer(e)]

(* The block is not acknowledged while it is missing; once an acceptable   *)
(* packet acknowledges it every later one does; and when reliable_buf is   *)
(* empty they all do.                                                      *)
AcknowledgedInOrder(e) ==
    /\ Missing(e) => /\ reliable_buf[e] # <<>>
                     /\ \A k \in Live(e) : k.relack # reliable_sequence[e]
    /\ ~Missing(e) =>
          \A k1, k2 \in Live(e) :
              k1.seq < k2.seq /\ k1.relack = reliable_sequence[e]
                 => k2.relack = reliable_sequence[e]
    /\ reliable_buf[e] = <<>> =>
          \A k \in Live(e) : k.relack = reliable_sequence[e]

Direction(e) ==
    /\ Numbered(e)
    /\ BlockUnderWay(e)
    /\ AcknowledgesTruly(e)
    /\ AcknowledgedInOrder(e)

(* The invariant behind ExactlyOnceInOrder: in both directions, what the   *)
(* sender concludes from acknowledgements is true of the receiver.         *)
DirectionInv == \A e \in Side : Direction(e)

-----------------------------------------------------------------------------
(* The two sides are each other's peers. *)
LEMMA PeerOfPeer ==
    ASSUME NEW e \in Side
    PROVE  /\ Peer(e) \in Side
           /\ Peer(e) # e
           /\ Peer(Peer(e)) = e
           /\ \A d \in Side : d = e \/ d = Peer(e)
  BY DEF Side, Peer

-----------------------------------------------------------------------------
(* Types. *)

LEMMA FlipType == \A b \in Bit : Flip(b) \in Bit /\ Flip(b) # b
  BY DEF Bit, Flip

LEMMA UnclearedType ==
    ASSUME TypeOK, NEW e \in Side
    PROVE  Uncleared(e) \in Seq(Msg)
  <1>1. written[e] \in Seq(Msg) /\ message[e] \in Seq(Msg)
    BY DEF TypeOK
  <1>2. Len(message[e]) \in Nat /\ Len(written[e]) \in Nat
    BY <1>1, LenProperties
  <1>3. \A i \in 1 .. Len(written[e]) - Len(message[e]) : written[e][i] \in Msg
    BY <1>1, <1>2, ElementOfSeq
  <1> QED
    BY <1>1, <1>2, <1>3, SMT DEF Uncleared

LEMMA TransmitType ==
    ASSUME TypeOK, NEW e \in Side, NEW msgs \in Seq(Msg), Transmit(e, msgs)
    PROVE  /\ outgoing_sequence' \in [Side -> Nat]
           /\ last_reliable_sequence' \in [Side -> Nat]
           /\ reliable_sequence' \in [Side -> Bit]
           /\ reliable_buf' \in [Side -> Seq(Msg)]
           /\ message' \in [Side -> Seq(Msg)]
           /\ net' \in [Side -> SUBSET Packet]
           /\ UNCHANGED <<received, delivered>>
  <1>1. Peer(e) \in Side
    BY PeerOfPeer
  <1>2. ASSUME NEW rel \in BOOLEAN, NEW data \in Seq(Msg), Send(e, rel, data)
        PROVE  /\ outgoing_sequence' \in [Side -> Nat]
               /\ last_reliable_sequence' \in [Side -> Nat]
               /\ net' \in [Side -> SUBSET Packet]
    <2>1. <<>> \in Seq(Msg)
      BY EmptySeq
    <2>2. PacketOf(e, rel, data) \in Packet
      BY <2>1 DEF TypeOK, PacketOf, Packet
    <2> QED
      <3>1. outgoing_sequence' \in [Side -> Nat]
        BY <1>2 DEF TypeOK, Send
      <3>2. outgoing_sequence[e] + 1 \in Nat
        BY DEF TypeOK
      <3>3. last_reliable_sequence' \in [Side -> Nat]
        BY <1>2, <3>2 DEF TypeOK, Send
      <3>4. net[Peer(e)] \union {PacketOf(e, rel, data)} \in SUBSET Packet
        BY <1>1, <2>2 DEF TypeOK
      <3>5. net' \in [Side -> SUBSET Packet]
        BY <1>2, <3>4 DEF TypeOK, Send
      <3> QED
        BY <3>1, <3>3, <3>5
  <1>3. reliable_buf[e] \in Seq(Msg) /\ RemoteDropped(e) \in BOOLEAN
    BY DEF TypeOK, RemoteDropped
  <1>4. CASE reliable_buf[e] = <<>> /\ msgs # <<>>
    <2>1. Send(e, TRUE, msgs)
      BY <1>4 DEF Transmit
    <2> QED
      <3>0. Flip(reliable_sequence[e]) \in Bit
        BY FlipType DEF TypeOK
      <3>1. reliable_sequence' \in [Side -> Bit]
        BY <1>4, <3>0 DEF Transmit, TypeOK
      <3>2. /\ reliable_buf' = [reliable_buf EXCEPT ![e] = msgs]
            /\ message' = [message EXCEPT ![e] = <<>>]
        BY <1>4 DEF Transmit
      <3>3. reliable_buf' \in [Side -> Seq(Msg)]
        BY <3>2 DEF TypeOK
      <3>4. <<>> \in Seq(Msg)
        BY EmptySeq
      <3>5. message' \in [Side -> Seq(Msg)]
        BY <3>2, <3>4 DEF TypeOK
      <3> QED
        BY <1>2, <2>1, <3>1, <3>3, <3>5 DEF Transmit
  <1>5. CASE reliable_buf[e] # <<>> \/ msgs = <<>>
    <2>1. Send(e, RemoteDropped(e), reliable_buf[e])
      BY <1>5 DEF Transmit
    <2> QED
      BY <1>2, <1>3, <1>5, <2>1 DEF Transmit, TypeOK
  <1> QED
    BY <1>4, <1>5

LEMMA ProcessType ==
    ASSUME TypeOK, NEW e \in Side, NEW k \in net[e], Process(e, k)
    PROVE  /\ incoming_sequence' \in [Side -> Nat]
           /\ incoming_acknowledged' \in [Side -> Nat]
           /\ incoming_reliable_acknowledged' \in [Side -> Bit]
           /\ incoming_reliable_sequence' \in [Side -> Bit]
           /\ reliable_buf' \in [Side -> Seq(Msg)]
           /\ net' \in [Side -> SUBSET Packet]
           /\ delivered' \in [Side -> Seq(Msg)]
           /\ UNCHANGED <<reliable_sequence, last_reliable_sequence, message,
                          overflowed, written>>
  <1>1. k \in Packet
    BY DEF TypeOK
  <1>2. /\ k.seq \in Nat /\ k.ack \in Nat /\ k.relack \in Bit
        /\ k.rel \in BOOLEAN /\ k.data \in Seq(Msg)
    BY <1>1 DEF Packet
  <1>3. delivered' \in [Side -> Seq(Msg)]
    <2>1. Peer(e) \in Side /\ delivered[Peer(e)] \in Seq(Msg)
      BY PeerOfPeer DEF TypeOK
    <2>2. delivered[Peer(e)] \o k.data \in Seq(Msg)
      BY <1>2, <2>1, ConcatProperties
    <2> QED
      BY <2>1, <2>2 DEF Process, TypeOK
  <1>4. net' \in [Side -> SUBSET Packet]
    BY DEF Process, TypeOK
  <1>5. /\ incoming_sequence' \in [Side -> Nat]
        /\ incoming_acknowledged' \in [Side -> Nat]
        /\ incoming_reliable_acknowledged' \in [Side -> Bit]
    BY <1>2 DEF Process, TypeOK
  <1>6. incoming_reliable_sequence' \in [Side -> Bit]
    BY FlipType DEF Process, TypeOK
  <1>7. reliable_buf' \in [Side -> Seq(Msg)]
    <2>1. <<>> \in Seq(Msg)
      BY EmptySeq
    <2> QED
      BY <2>1 DEF Process, TypeOK
  <1> QED
    BY <1>3, <1>4, <1>5, <1>6, <1>7 DEF Process

LEMMA TypeInvariance == TypeOK /\ [Next]_vars => TypeOK'
  <1> SUFFICES ASSUME TypeOK, [Next]_vars PROVE TypeOK'
    OBVIOUS
  <1>s. "client" \in Side /\ "server" \in Side
    BY DEF Side
  <1>1. ASSUME NEW e \in Side, NEW m \in Msg, Write(e, m) PROVE TypeOK'
    <2>1. Append(message[e], m) \in Seq(Msg) /\ Append(written[e], m) \in Seq(Msg)
      BY AppendProperties DEF TypeOK
    <2> QED
      BY <1>1, <2>1 DEF TypeOK, Write, chan, received
  <1>2. ASSUME NEW e \in Side, NEW m \in Msg, WriteOverflow(e, m) PROVE TypeOK'
    <2>1. <<m>> \in Seq(Msg) /\ Append(Uncleared(e), m) \in Seq(Msg)
      BY AppendProperties, UnclearedType
    <2> QED
      BY <1>2, <2>1 DEF TypeOK, WriteOverflow, chan, received
  <1>3. CASE ClearReliable
    <2>1. <<>> \in Seq(Msg) /\ Uncleared("server") \in Seq(Msg)
      BY <1>s, EmptySeq, UnclearedType
    <2> QED
      BY <1>3, <2>1 DEF TypeOK, ClearReliable, chan, received
  <1>4. CASE ClientTransmit
    BY <1>4, <1>s, TransmitType DEF TypeOK, ClientTransmit, received
  <1>5. CASE ServerTransmit
    BY <1>5, <1>s, TransmitType DEF TypeOK, ServerTransmit, received
  <1>6. CASE ServerChoke
    BY <1>6 DEF TypeOK, ServerChoke, chan, received
  <1>7. ASSUME NEW m \in Msg, ServerDropOverflowed(m) PROVE TypeOK'
    <2>1. <<m>> \in Seq(Msg) /\ Append(Uncleared("server"), m) \in Seq(Msg)
      BY <1>s, AppendProperties, UnclearedType
    <2> QED
      BY <1>7, <1>s, <2>1, TransmitType DEF TypeOK, ServerDropOverflowed, received
  <1>8. CASE SendMessagesToAll
    BY <1>8 DEF TypeOK, SendMessagesToAll, chan, received
  <1>9. CASE ClientProcess
    <2>1. PICK k \in net["client"] : Process("client", k)
      BY <1>9 DEF ClientProcess
    <2> QED
      BY <1>9, <1>s, <2>1, ProcessType DEF TypeOK, ClientProcess
  <1>10. CASE ServerProcess
    <2>1. PICK k \in net["server"] :
             /\ Process("server", k)
             /\ send_message' = ServerAnswers(k.seq)
             /\ outgoing_sequence' =
                   IF ServerAnswers(k.seq)
                   THEN [outgoing_sequence EXCEPT !["server"] = k.seq]
                   ELSE outgoing_sequence
      BY <1>10 DEF ServerProcess
    <2>2. k.seq \in Nat
      BY <1>s DEF TypeOK, Packet
    <2>3. outgoing_sequence' \in [Side -> Nat] /\ send_message' \in BOOLEAN
      BY <1>s, <2>1, <2>2 DEF TypeOK, ServerAnswers
    <2> QED
      BY <1>s, <2>1, <2>3, ProcessType DEF TypeOK
  <1>11. CASE UNCHANGED vars
    BY <1>11 DEF TypeOK, vars, chan, received
  <1> QED
    BY <1>1, <1>2, <1>3, <1>4, <1>5, <1>6, <1>7, <1>8, <1>9, <1>10, <1>11
       DEF Next

(* Every field of the channel keeps its type: the alternating bits stay    *)
(* bits, numbers never go below zero, buffers hold messages.               *)
THEOREM TypeCorrect == Spec => []TypeOK
  <1>1. Init => TypeOK
    <2> SUFFICES ASSUME Init PROVE TypeOK
      OBVIOUS
    <2>1. <<>> \in Seq(Msg) /\ {} \in SUBSET Packet
      BY EmptySeq
    <2>2. /\ incoming_sequence \in [Side -> Nat]
          /\ incoming_acknowledged \in [Side -> Nat]
          /\ incoming_reliable_acknowledged \in [Side -> Bit]
          /\ incoming_reliable_sequence \in [Side -> Bit]
          /\ outgoing_sequence \in [Side -> Nat]
          /\ reliable_sequence \in [Side -> Bit]
          /\ last_reliable_sequence \in [Side -> Nat]
      BY DEF Init, Bit
    <2>3. /\ message \in [Side -> Seq(Msg)]
          /\ overflowed \in [Side -> BOOLEAN]
          /\ reliable_buf \in [Side -> Seq(Msg)]
          /\ send_message \in BOOLEAN
          /\ net \in [Side -> SUBSET Packet]
          /\ written \in [Side -> Seq(Msg)]
          /\ delivered \in [Side -> Seq(Msg)]
      BY <2>1 DEF Init
    <2> QED
      BY <2>2, <2>3 DEF TypeOK
  <1> QED
    BY <1>1, TypeInvariance, PTL DEF Spec

-----------------------------------------------------------------------------
(* The inductive invariant, for a step that sends and one that receives;   *)
(* every other step leaves the channel alone.                              *)

LEMMA TypeOfPacket ==
    ASSUME TypeOK, NEW e \in Side, NEW k \in net[e]
    PROVE  /\ k.seq \in Nat /\ k.ack \in Nat /\ k.relack \in Bit
           /\ k.rel \in BOOLEAN /\ k.data \in Seq(Msg)
  BY DEF TypeOK, Packet

(* The numbers and bits of a side. *)
LEMMA TypeOfSide ==
    ASSUME TypeOK, NEW e \in Side
    PROVE  /\ incoming_sequence[e] \in Nat
           /\ incoming_acknowledged[e] \in Nat
           /\ outgoing_sequence[e] \in Nat
           /\ last_reliable_sequence[e] \in Nat
           /\ incoming_reliable_acknowledged[e] \in Bit
           /\ incoming_reliable_sequence[e] \in Bit
           /\ reliable_sequence[e] \in Bit
           /\ reliable_buf[e] \in Seq(Msg)
  BY DEF TypeOK

(* What Transmit does, side by side: e puts data, or an empty reliable     *)
(* part, on a packet for p.                                                *)
Transmits(e, p, msgs, rel, data) ==
    /\ outgoing_sequence'[e] = outgoing_sequence[e] + 1
    /\ outgoing_sequence'[p] = outgoing_sequence[p]
    /\ last_reliable_sequence'[e] =
          IF rel THEN outgoing_sequence[e] + 1
                 ELSE last_reliable_sequence[e]
    /\ last_reliable_sequence'[p] = last_reliable_sequence[p]
    /\ net'[e] = net[e]
    /\ net'[p] = net[p] \union {PacketOf(e, rel, data)}
    /\ reliable_buf'[p] = reliable_buf[p]
    /\ reliable_sequence'[p] = reliable_sequence[p]
    /\ reliable_buf'[e] = data
    /\ \/ /\ reliable_buf[e] = <<>>
          /\ data = msgs
          /\ data # <<>>
          /\ rel = TRUE
          /\ reliable_sequence'[e] # reliable_sequence[e]
          /\ message' = [message EXCEPT ![e] = <<>>]
       \/ /\ data = reliable_buf[e]
          /\ rel = RemoteDropped(e)
          /\ reliable_sequence'[e] = reliable_sequence[e]
          /\ message' = [message EXCEPT ![e] = msgs]

LEMMA TransmitEffect ==
    ASSUME TypeOK, NEW e \in Side, NEW p \in Side, p = Peer(e),
           NEW msgs \in Seq(Msg), Transmit(e, msgs)
    PROVE  \E rel \in BOOLEAN, data \in Seq(Msg) :
              Transmits(e, p, msgs, rel, data)
  <1>1. p # e
    BY PeerOfPeer
  <1>2. ASSUME NEW rel \in BOOLEAN, NEW data \in Seq(Msg), Send(e, rel, data)
        PROVE  /\ outgoing_sequence'[e] = outgoing_sequence[e] + 1
               /\ outgoing_sequence'[p] = outgoing_sequence[p]
               /\ last_reliable_sequence'[e] =
                     IF rel THEN outgoing_sequence[e] + 1
                            ELSE last_reliable_sequence[e]
               /\ last_reliable_sequence'[p] = last_reliable_sequence[p]
               /\ net'[e] = net[e]
               /\ net'[p] = net[p] \union {PacketOf(e, rel, data)}
    BY <1>1, <1>2 DEF Send, TypeOK
  <1>3. CASE reliable_buf[e] = <<>> /\ msgs # <<>>
    <2>1. /\ Send(e, TRUE, msgs)
          /\ reliable_buf' = [reliable_buf EXCEPT ![e] = msgs]
          /\ reliable_sequence' =
                [reliable_sequence EXCEPT ![e] = Flip(reliable_sequence[e])]
          /\ message' = [message EXCEPT ![e] = <<>>]
      BY <1>3 DEF Transmit
    <2>2. /\ reliable_buf'[p] = reliable_buf[p]
          /\ reliable_sequence'[p] = reliable_sequence[p]
          /\ reliable_buf'[e] = msgs
      BY <1>1, <2>1 DEF TypeOK
    <2>3. reliable_sequence'[e] # reliable_sequence[e]
      BY <2>1, FlipType DEF TypeOK
    <2> QED
      BY <1>2, <1>3, <2>1, <2>2, <2>3 DEF Transmits
  <1>4. CASE ~(reliable_buf[e] = <<>> /\ msgs # <<>>)
    <2>1. /\ Send(e, RemoteDropped(e), reliable_buf[e])
          /\ UNCHANGED <<reliable_buf, reliable_sequence>>
          /\ message' = [message EXCEPT ![e] = msgs]
      BY <1>4 DEF Transmit
    <2>2. RemoteDropped(e) \in BOOLEAN /\ reliable_buf[e] \in Seq(Msg)
      BY DEF RemoteDropped, TypeOK
    <2> QED
      BY <1>2, <2>1, <2>2 DEF Transmits
  <1> QED
    BY <1>3, <1>4

LEMMA TransmitDirection ==
    ASSUME TypeOK, TypeOK', DirectionInv, NEW e \in Side,
           NEW msgs \in Seq(Msg), Transmit(e, msgs)
    PROVE  Direction(e)' /\ Direction(Peer(e))'
  <1> DEFINE p == Peer(e)
  <1>1. p \in Side /\ p # e /\ Peer(p) = e
    BY PeerOfPeer
  <1>2. PICK rel \in BOOLEAN, data \in Seq(Msg) :
              Transmits(e, p, msgs, rel, data)
    BY <1>1, TransmitEffect
  <1>3. UNCHANGED received
    BY DEF Transmit
  <1>4. Direction(e) /\ Direction(p)
    BY <1>1 DEF DirectionInv
  <1> DEFINE new == PacketOf(e, rel, data)
  <1>5. /\ new.seq = outgoing_sequence[e]
        /\ new.rel = rel
        /\ new.ack = incoming_sequence[e]
        /\ new.relack = incoming_reliable_sequence[e]
        /\ rel => new.data = data
    BY DEF PacketOf
  <1> USE DEF Transmits
  <1> HIDE DEF p, new
  <1>6. Live(e)' = Live(e)
    BY <1>2, <1>3 DEF Live, Stale, received
  <1>7. Live(p)' \subseteq Live(p) \union {new}
    BY <1>2, <1>3 DEF Live, Stale, received, new
  <1>8. (Missing(p) <=> Missing(p)') /\ Peer(e) = p
    BY <1>1, <1>2, <1>3 DEF Missing, received, p
  <1>9. Numbered(e)'
    <2>1. \A k \in net[p] : k.seq \in Nat /\ k.seq < outgoing_sequence[e]
      BY <1>1, <1>4, <1>8, TypeOfPacket DEF Direction, Numbered
    <2>2. outgoing_sequence[e] \in Nat /\ incoming_sequence[p] \in Nat
      BY <1>1, TypeOfSide
    <2>3. net'[p] = net[p] \union {new}
      BY <1>2 DEF new
    <2>4. \A k \in net'[p] : k.seq < outgoing_sequence'[e]
      BY <1>2, <1>5, <2>1, <2>2, <2>3
    <2>5. incoming_sequence'[p] <= outgoing_sequence'[e]
      BY <1>2, <1>3, <1>4, <1>8, <2>2 DEF Direction, Numbered, received
    <2>6. \A k1, k2 \in net'[p] : k1.seq = k2.seq => k1 = k2
      BY <1>4, <1>5, <1>8, <2>1, <2>2, <2>3 DEF Direction, Numbered
    <2> QED
      BY <1>8, <2>4, <2>5, <2>6 DEF Numbered
  <1>10. BlockUnderWay(e)'
    <2> SUFFICES ASSUME NEW k \in Live(p)', k.rel
                 PROVE  /\ k.seq + 1 = last_reliable_sequence'[e]
                        /\ Missing(e)'
                        /\ k.data = reliable_buf'[e]
      BY <1>8 DEF BlockUnderWay
    <2>1. /\ incoming_reliable_sequence'[p] = incoming_reliable_sequence[p]
          /\ Missing(e)' <=> (reliable_sequence'[e] # incoming_reliable_sequence[p])
          /\ Missing(e) <=> (reliable_sequence[e] # incoming_reliable_sequence[p])
      BY <1>3, <1>8 DEF received, Missing
    <2>2. /\ reliable_sequence'[e] \in Bit
          /\ reliable_sequence[e] \in Bit
          /\ incoming_reliable_sequence[p] \in Bit
      BY <1>1 DEF TypeOK
    <2>3. CASE reliable_buf[e] = <<>> /\ rel /\ reliable_sequence'[e] # reliable_sequence[e]
      <3>1. ~Missing(e) /\ Missing(e)'
        BY <1>4, <2>1, <2>2, <2>3 DEF Direction, AcknowledgedInOrder, Bit
      <3>2. k = new
        BY <1>4, <1>7, <1>8, <3>1 DEF Direction, BlockUnderWay
      <3> QED
        BY <1>2, <1>5, <2>3, <3>1, <3>2
    <2>4. CASE rel = RemoteDropped(e) /\ data = reliable_buf[e]
               /\ reliable_sequence'[e] = reliable_sequence[e]
      <3>1. CASE ~rel
        <4>1. k \in Live(p)
          BY <1>5, <1>7, <3>1
        <4> QED
          BY <1>2, <1>4, <1>8, <2>1, <2>4, <3>1, <4>1
             DEF Direction, BlockUnderWay
      <3>2. CASE rel
        <4>0. /\ incoming_acknowledged[e] > last_reliable_sequence[e]
              /\ incoming_reliable_acknowledged[e] # reliable_sequence[e]
              /\ incoming_acknowledged[e] \in Nat
              /\ last_reliable_sequence[e] \in Nat
          BY <2>4, <3>2, TypeOfSide DEF RemoteDropped
        <4>1. Missing(e)
          BY <1>4, <1>8, <2>1, <4>0 DEF Direction, AcknowledgesTruly
        <4>2. ASSUME k \in Live(p) PROVE FALSE
          <5>1. k.seq + 1 = last_reliable_sequence[e]
            BY <1>4, <1>8, <4>2 DEF Direction, BlockUnderWay
          <5>2. k.seq > incoming_sequence[p] /\ k.seq \in Nat
            BY <1>1, <4>2, TypeOfPacket, TypeOfSide DEF Live, Stale
          <5>3. incoming_acknowledged[e] <= incoming_sequence[p]
            BY <1>4, <1>8 DEF Direction, AcknowledgesTruly
          <5> QED
            BY <1>1, <4>0, <5>1, <5>2, <5>3, TypeOfSide
        <4>3. k = new
          BY <1>7, <4>2
        <4> QED
          BY <1>2, <1>5, <2>1, <2>4, <3>2, <4>1, <4>3
      <3> QED
        BY <3>1, <3>2
    <2> QED
      BY <1>2, <2>3, <2>4
  <1>11. AcknowledgesTruly(e)'
    <2>1. incoming_sequence[p] <= outgoing_sequence[e]
      BY <1>4, <1>8 DEF Direction, Numbered
    <2>2. /\ \A k \in net[e] : k.ack \in Nat /\ k.ack <= incoming_sequence[p]
          /\ incoming_acknowledged[e] <= incoming_sequence[p]
      BY <1>4, <1>8, TypeOfPacket DEF Direction, AcknowledgesTruly
    <2>3. /\ incoming_sequence[p] \in Nat /\ outgoing_sequence[e] \in Nat
          /\ incoming_acknowledged[e] \in Nat
          /\ last_reliable_sequence[e] \in Nat
      BY <1>1, TypeOfSide
    <2> QED
      BY <1>2, <1>3, <1>4, <1>8, <2>1, <2>2, <2>3
         DEF Direction, AcknowledgesTruly, received
  <1>12. AcknowledgedInOrder(e)'
    <2>1. /\ Missing(e)' <=> (reliable_sequence'[e] # incoming_reliable_sequence[p])
          /\ Missing(e) <=> (reliable_sequence[e] # incoming_reliable_sequence[p])
      BY <1>3, <1>8 DEF received, Missing
    <2>2. CASE reliable_buf[e] = <<>> /\ data # <<>>
               /\ reliable_sequence'[e] # reliable_sequence[e]
      <3>1. /\ reliable_sequence'[e] \in Bit
            /\ reliable_sequence[e] \in Bit
            /\ incoming_reliable_sequence[p] \in Bit
        BY <1>1 DEF TypeOK
      <3>2. ~Missing(e) /\ Missing(e)'
        BY <1>4, <2>1, <2>2, <3>1 DEF Direction, AcknowledgedInOrder, Bit
      <3>3. \A k \in Live(e) : k.relack # reliable_sequence'[e]
        BY <1>4, <2>2 DEF Direction, AcknowledgedInOrder
      <3> QED
        BY <1>2, <1>6, <2>2, <3>2, <3>3 DEF AcknowledgedInOrder
    <2>3. CASE data = reliable_buf[e] /\ reliable_sequence'[e] = reliable_sequence[e]
      BY <1>2, <1>4, <1>6, <2>1, <2>3 DEF Direction, AcknowledgedInOrder
    <2> QED
      BY <1>2, <2>2, <2>3
  <1>13. Numbered(p)'
    BY <1>1, <1>2, <1>3, <1>4 DEF Direction, Numbered, received
  <1>14. BlockUnderWay(p)'
    BY <1>1, <1>2, <1>4, <1>6, <1>8 DEF Direction, BlockUnderWay
  <1>15. AcknowledgesTruly(p)'
    <2>1. net'[p] = net[p] \union {new}
      BY <1>2 DEF new
    <2> QED
      BY <1>1, <1>2, <1>3, <1>4, <1>5, <2>1, TypeOfSide
         DEF Direction, AcknowledgesTruly, received
  <1>16. AcknowledgedInOrder(p)'
    <2>1. Missing(p) <=> new.relack # reliable_sequence[p]
      BY <1>1, <1>5 DEF Missing
    <2>2. \A k \in Live(p) : k.seq \in Nat /\ k.seq < new.seq
      BY <1>1, <1>4, <1>5, <1>8, TypeOfPacket DEF Direction, Numbered, Live
    <2>3. new.seq \in Nat
      BY <1>5, TypeOfSide
    <2>4. \A k1, k2 \in Live(p)' : k1.seq < k2.seq => k1 \in Live(p)
      BY <1>7, <2>2, <2>3
    <2> QED
      BY <1>2, <1>4, <1>7, <1>8, <2>1, <2>4 DEF Direction, AcknowledgedInOrder
  <1> QED
    BY <1>8, <1>9, <1>10, <1>11, <1>12, <1>13, <1>14, <1>15, <1>16 DEF Direction

(* What Process does, side by side: e takes packet k of p. *)
Receives(e, p, k) ==
    /\ k.seq > incoming_sequence[e]
    /\ incoming_sequence'[e] = k.seq
    /\ incoming_sequence'[p] = incoming_sequence[p]
    /\ incoming_acknowledged'[e] = k.ack
    /\ incoming_acknowledged'[p] = incoming_acknowledged[p]
    /\ incoming_reliable_acknowledged'[e] = k.relack
    /\ incoming_reliable_acknowledged'[p] = incoming_reliable_acknowledged[p]
    /\ ~k.rel => incoming_reliable_sequence'[e] = incoming_reliable_sequence[e]
    /\ k.rel => incoming_reliable_sequence'[e] # incoming_reliable_sequence[e]
    /\ incoming_reliable_sequence'[p] = incoming_reliable_sequence[p]
    /\ net'[e] = {n \in net[e] : n.seq > k.seq}
    /\ net'[p] = net[p]
    /\ k.relack = reliable_sequence[e] => reliable_buf'[e] = <<>>
    /\ k.relack # reliable_sequence[e] => reliable_buf'[e] = reliable_buf[e]
    /\ reliable_buf'[p] = reliable_buf[p]
    /\ UNCHANGED <<reliable_sequence, last_reliable_sequence>>

LEMMA ProcessEffect ==
    ASSUME TypeOK, TypeOK', NEW e \in Side, NEW p \in Side, p = Peer(e),
           NEW k \in net[e], Process(e, k)
    PROVE  Receives(e, p, k)
  <1>1. p # e
    BY PeerOfPeer
  <1>2. k.seq \in Nat /\ incoming_sequence[e] \in Nat
        /\ \A n \in net[e] : n.seq \in Nat
    BY TypeOfPacket, TypeOfSide
  <1>3. /\ k.seq > incoming_sequence[e]
        /\ incoming_sequence'[e] = k.seq
        /\ incoming_sequence'[p] = incoming_sequence[p]
        /\ incoming_acknowledged'[e] = k.ack
        /\ incoming_acknowledged'[p] = incoming_acknowledged[p]
        /\ incoming_reliable_acknowledged'[e] = k.relack
        /\ incoming_reliable_acknowledged'[p] = incoming_reliable_acknowledged[p]
    <2>1. ~Stale(e, k)
      BY DEF Process
    <2>2. k.seq > incoming_sequence[e]
      BY <1>2, <2>1 DEF Stale
    <2>3. incoming_sequence'[e] = k.seq /\ incoming_sequence'[p] = incoming_sequence[p]
      BY <1>1 DEF Process, TypeOK
    <2>4. /\ incoming_acknowledged'[e] = k.ack
          /\ incoming_acknowledged'[p] = incoming_acknowledged[p]
      BY <1>1 DEF Process, TypeOK
    <2>5. /\ incoming_reliable_acknowledged'[e] = k.relack
          /\ incoming_reliable_acknowledged'[p] = incoming_reliable_acknowledged[p]
      BY <1>1 DEF Process, TypeOK
    <2> QED
      BY <2>2, <2>3, <2>4, <2>5
  <1>4. /\ ~k.rel => incoming_reliable_sequence'[e] = incoming_reliable_sequence[e]
        /\ k.rel => incoming_reliable_sequence'[e] # incoming_reliable_sequence[e]
        /\ incoming_reliable_sequence'[p] = incoming_reliable_sequence[p]
    <2>1. Flip(incoming_reliable_sequence[e]) # incoming_reliable_sequence[e]
      BY FlipType DEF TypeOK
    <2> QED
      BY <1>1, <2>1 DEF Process, TypeOK
  <1>5. /\ net'[e] = {n \in net[e] : n.seq > k.seq}
        /\ net'[p] = net[p]
    <2>1. net' = [net EXCEPT ![e] = {n \in net[e] : ~Stale(e, n)'}]
      BY DEF Process
    <2>2. net'[e] = {n \in net[e] : ~Stale(e, n)'} /\ net'[p] = net[p]
      BY <1>1, <2>1 DEF TypeOK
    <2>3. \A n \in net[e] : ~Stale(e, n)' <=> n.seq > k.seq
      BY <1>2, <1>3 DEF Stale
    <2> QED
      BY <2>2, <2>3
  <1>6. /\ k.relack = reliable_sequence[e] => reliable_buf'[e] = <<>>
        /\ k.relack # reliable_sequence[e] => reliable_buf'[e] = reliable_buf[e]
        /\ reliable_buf'[p] = reliable_buf[p]
    BY <1>1 DEF Process, Acknowledges, TypeOK
  <1> QED
    BY <1>3, <1>4, <1>5, <1>6 DEF Receives, Process

LEMMA ProcessDirection ==
    ASSUME TypeOK, TypeOK', DirectionInv, NEW e \in Side, NEW k \in net[e],
           Process(e, k),
           \A d \in Side : outgoing_sequence'[d] >= outgoing_sequence[d]
    PROVE  Direction(e)' /\ Direction(Peer(e))'
  <1> DEFINE p == Peer(e)
  <1>1. p \in Side /\ p # e /\ Peer(p) = e /\ Peer(e) = p
    BY PeerOfPeer
  <1> HIDE DEF p
  <1>2. Receives(e, p, k)
    BY <1>1, ProcessEffect
  <1>3. Direction(e) /\ Direction(p)
    BY <1>1 DEF DirectionInv
  <1>4. k \in Live(e) /\ k.seq \in Nat /\ k.ack \in Nat /\ k.rel \in BOOLEAN
    BY <1>2, TypeOfPacket, TypeOfSide DEF Live, Stale, Receives
  <1>5. \A n \in net[e] : n.seq \in Nat /\ n.ack \in Nat
    BY TypeOfPacket
  <1>6. \A n \in net[p] : n.seq \in Nat /\ n.ack \in Nat
    BY <1>1, TypeOfPacket
  <1>7. Live(p)' = Live(p)
    BY <1>2 DEF Live, Stale, Receives
  <1>8. \A n \in Live(e)' : n \in Live(e) /\ n.seq > k.seq
    BY <1>2, <1>4, <1>5, TypeOfSide DEF Live, Stale, Receives
  <1>9. Missing(e)' <=> Missing(e)
    BY <1>1, <1>2 DEF Missing, Receives
  <1>10. k.rel => Missing(p) /\ ~Missing(p)'
    <2>1. k.rel => Missing(p)
      BY <1>1, <1>3, <1>4 DEF Direction, BlockUnderWay
    <2>2. /\ reliable_sequence[p] \in Bit
          /\ incoming_reliable_sequence[e] \in Bit
          /\ incoming_reliable_sequence'[e] \in Bit
      BY <1>1 DEF TypeOK
    <2> QED
      BY <1>1, <1>2, <2>1, <2>2 DEF Missing, Receives, Bit
  <1>11. ~k.rel => (Missing(p)' <=> Missing(p))
    BY <1>1, <1>2 DEF Missing, Receives
  <1>12. Numbered(p)'
    <2>1. /\ outgoing_sequence[p] \in Nat /\ outgoing_sequence'[p] \in Nat
          /\ outgoing_sequence'[p] >= outgoing_sequence[p]
      BY <1>1, TypeOfSide DEF TypeOK
    <2>2. \A n \in net[e] : n.seq < outgoing_sequence[p]
      BY <1>1, <1>3 DEF Direction, Numbered
    <2> QED
      BY <1>1, <1>2, <1>3, <1>4, <1>5, <2>1, <2>2
         DEF Direction, Numbered, Receives
  <1>13. BlockUnderWay(p)'
    <2> SUFFICES ASSUME NEW n \in Live(e)', n.rel
                 PROVE  /\ n.seq + 1 = last_reliable_sequence'[p]
                        /\ Missing(p)'
                        /\ n.data = reliable_buf'[p]
      BY <1>1 DEF BlockUnderWay
    <2>1. n \in Live(e) /\ n.seq > k.seq /\ n.seq \in Nat
      BY <1>5, <1>8 DEF Live
    <2>2. n.seq + 1 = last_reliable_sequence[p] /\ Missing(p)
          /\ n.data = reliable_buf[p]
      BY <1>1, <1>3, <2>1 DEF Direction, BlockUnderWay
    <2>3. k.rel => k.seq + 1 = last_reliable_sequence[p]
      BY <1>1, <1>3, <1>4 DEF Direction, BlockUnderWay
    <2>4. ~k.rel
      BY <1>4, <2>1, <2>2, <2>3
    <2> QED
      BY <1>2, <1>11, <2>2, <2>4 DEF Receives
  <1>14. AcknowledgesTruly(p)'
    <2>1. /\ \A n \in net[p] : n.ack <= incoming_sequence[e]
          /\ incoming_acknowledged[p] <= incoming_sequence[e]
      BY <1>1, <1>3 DEF Direction, AcknowledgesTruly
    <2>2. /\ incoming_sequence[e] \in Nat /\ incoming_acknowledged[p] \in Nat
          /\ last_reliable_sequence[p] \in Nat
      BY <1>1, TypeOfSide
    <2>3. CASE k.rel
      <3>1. k.seq + 1 = last_reliable_sequence[p]
        BY <1>1, <1>3, <1>4, <2>3 DEF Direction, BlockUnderWay
      <3> QED
        BY <1>1, <1>2, <1>4, <1>6, <2>1, <2>2, <3>1
           DEF AcknowledgesTruly, Receives
    <2>4. CASE ~k.rel
      BY <1>1, <1>2, <1>3, <1>4, <1>6, <2>1, <2>2, <2>4
         DEF Direction, AcknowledgesTruly, Receives
    <2> QED
      BY <1>4, <2>3, <2>4
  <1>15. AcknowledgedInOrder(p)'
    <2>1. CASE k.rel
      BY <1>2, <1>3, <1>7, <1>10, <2>1
         DEF Direction, AcknowledgedInOrder, Receives
    <2>2. CASE ~k.rel
      BY <1>2, <1>3, <1>7, <1>11, <2>2
         DEF Direction, AcknowledgedInOrder, Receives
    <2> QED
      BY <1>4, <2>1, <2>2
  <1>16. Numbered(e)'
    <2>1. /\ outgoing_sequence[e] \in Nat /\ outgoing_sequence'[e] \in Nat
          /\ outgoing_sequence'[e] >= outgoing_sequence[e]
          /\ incoming_sequence[p] \in Nat
      BY <1>1, TypeOfSide DEF TypeOK
    <2> QED
      BY <1>1, <1>2, <1>3, <1>6, <2>1 DEF Direction, Numbered, Receives
  <1>17. BlockUnderWay(e)'
    <2>1. Missing(e) => reliable_buf'[e] = reliable_buf[e]
      BY <1>2, <1>3, <1>4 DEF Direction, AcknowledgedInOrder, Receives
    <2> QED
      BY <1>1, <1>2, <1>3, <1>7, <1>9, <2>1
         DEF Direction, BlockUnderWay, Receives
  <1>18. AcknowledgesTruly(e)'
    BY <1>1, <1>2, <1>3, <1>4 DEF Direction, AcknowledgesTruly, Receives
  <1>19. AcknowledgedInOrder(e)'
    <2>1. Missing(e) => reliable_buf'[e] # <<>>
      BY <1>2, <1>3, <1>4 DEF Direction, AcknowledgedInOrder, Receives
    <2>2. reliable_buf'[e] = <<>> =>
            \A n \in Live(e)' : n.relack = reliable_sequence[e]
      <3>1. CASE k.relack = reliable_sequence[e]
        BY <1>3, <1>4, <1>8, <3>1 DEF Direction, AcknowledgedInOrder
      <3>2. CASE k.relack # reliable_sequence[e]
        BY <1>2, <1>3, <1>8, <3>2 DEF Direction, AcknowledgedInOrder, Receives
      <3> QED
        BY <3>1, <3>2
    <2> QED
      BY <1>2, <1>3, <1>8, <1>9, <2>1, <2>2
         DEF Direction, AcknowledgedInOrder, Receives
  <1> QED
    BY <1>1, <1>12, <1>13, <1>14, <1>15, <1>16, <1>17, <1>18, <1>19
       DEF Direction

(* A step that leaves the channel and the network alone. *)
LEMMA IdleDirection ==
    ASSUME DirectionInv, UNCHANGED <<chan, net>>
    PROVE  DirectionInv'
  BY DEF DirectionInv, Direction, Numbered, BlockUnderWay, AcknowledgesTruly,
         AcknowledgedInOrder, Live, Stale, Missing, chan, received

LEMMA DirectionInvariance ==
    TypeOK /\ TypeOK' /\ DirectionInv /\ [Next]_vars => DirectionInv'
  <1> SUFFICES ASSUME TypeOK, TypeOK', DirectionInv, [Next]_vars
               PROVE  DirectionInv'
    OBVIOUS
  <1>s. "client" \in Side /\ "server" \in Side
    BY DEF Side
  <1>a. ASSUME NEW e \in Side, Direction(e)' /\ Direction(Peer(e))'
        PROVE  DirectionInv'
    <2>1. \A d \in Side : Direction(d)'
      BY <1>a, PeerOfPeer
    <2> QED
      BY <2>1 DEF DirectionInv
  <1>1. ASSUME NEW e \in Side, NEW m \in Msg, Write(e, m) \/ WriteOverflow(e, m)
        PROVE  DirectionInv'
    BY <1>1, IdleDirection DEF Write, WriteOverflow
  <1>2. CASE ClearReliable \/ ServerChoke \/ SendMessagesToAll \/ UNCHANGED vars
    BY <1>2, IdleDirection DEF ClearReliable, ServerChoke, SendMessagesToAll, vars
  <1>3. CASE ClientTransmit
    BY <1>3, <1>s, <1>a, TransmitDirection DEF ClientTransmit, TypeOK
  <1>4. CASE ServerTransmit
    BY <1>4, <1>s, <1>a, TransmitDirection DEF ServerTransmit, TypeOK
  <1>5. ASSUME NEW m \in Msg, ServerDropOverflowed(m) PROVE DirectionInv'
    <2>1. <<m>> \in Seq(Msg)
      OBVIOUS
    <2> QED
      BY <1>5, <1>s, <1>a, <2>1, TransmitDirection DEF ServerDropOverflowed
  <1>6. CASE ClientProcess
    <2>1. PICK k \in net["client"] : Process("client", k)
      BY <1>6 DEF ClientProcess
    <2>2. \A d \in Side : outgoing_sequence'[d] >= outgoing_sequence[d]
      BY <1>6 DEF ClientProcess, TypeOK
    <2> QED
      BY <1>s, <1>a, <2>1, <2>2, ProcessDirection
  <1>7. CASE ServerProcess
    <2>1. PICK k \in net["server"] :
             /\ Process("server", k)
             /\ outgoing_sequence' =
                   IF ServerAnswers(k.seq)
                   THEN [outgoing_sequence EXCEPT !["server"] = k.seq]
                   ELSE outgoing_sequence
      BY <1>7 DEF ServerProcess
    <2>2. k.seq \in Nat
      BY <1>s, TypeOfPacket
    <2>3. \A d \in Side : outgoing_sequence'[d] >= outgoing_sequence[d]
      <3>1. \A d \in Side : outgoing_sequence[d] \in Nat
        BY TypeOfSide
      <3>2. CASE ServerAnswers(k.seq)
        <4>1. k.seq >= outgoing_sequence["server"]
          BY <3>2 DEF ServerAnswers
        <4>2. outgoing_sequence' = [outgoing_sequence EXCEPT !["server"] = k.seq]
          BY <2>1, <3>2
        <4>3. \A d \in Side : outgoing_sequence'[d] =
                 IF d = "server" THEN k.seq ELSE outgoing_sequence[d]
          BY <4>2 DEF TypeOK
        <4> QED
          BY <2>2, <3>1, <4>1, <4>3
      <3>3. CASE ~ServerAnswers(k.seq)
        BY <2>1, <3>1, <3>3
      <3> QED
        BY <3>2, <3>3
    <2> QED
      BY <1>s, <1>a, <2>1, <2>3, ProcessDirection
  <1> QED
    BY <1>1, <1>2, <1>3, <1>4, <1>5, <1>6, <1>7 DEF Next

(* In both directions what the sender concludes from acknowledgements      *)
(* (Netchan_Transmit 219-233, Netchan_Process 410-431) is true of the      *)
(* receiver, whatever is lost, repeated, delayed or reordered.             *)
THEOREM DirectionCorrect == Spec => []DirectionInv
  <1>1. Init => DirectionInv
    BY PeerOfPeer DEF Init, DirectionInv, Direction, Numbered, BlockUnderWay,
       AcknowledgesTruly, AcknowledgedInOrder, Live, Missing
  <1> QED
    BY <1>1, TypeCorrect, DirectionInvariance, PTL DEF Spec

-----------------------------------------------------------------------------
(* Exactly once, in order. *)

(* ExactlyOnceInOrder for one direction. *)
Accounted(e) == written[e] = delivered[e] \o InFlight(e) \o message[e]

LEMMA SequenceFacts ==
    ASSUME NEW S, NEW a \in Seq(S), NEW b \in Seq(S)
    PROVE  /\ a \o b \in Seq(S)
           /\ a \o <<>> = a
           /\ \A x \in S : Append(a, x) = a \o <<x>>
           /\ SubSeq(a \o b, 1, Len(a \o b) - Len(b)) = a
  <1>1. a \o b \in Seq(S) /\ a \o <<>> = a
    BY ConcatProperties, ConcatEmptySeq
  <1>2. \A x \in S : Append(a, x) = a \o <<x>>
    OBVIOUS
  <1>4. SubSeq(a \o b, 1, Len(a \o b) - Len(b)) = a
    <2>1. Len(a \o b) = Len(a) + Len(b) /\ Len(a) \in Nat /\ Len(b) \in Nat
      BY ConcatProperties, LenProperties
    <2>2. Len(a \o b) - Len(b) = Len(a)
      BY <2>1
    <2>3. SubSeq(a \o b, 1, Len(a)) = a
      BY <2>1, SMT
    <2> QED
      BY <2>2, <2>3
  <1> QED
    BY <1>1, <1>2, <1>4

(* The provers instantiate this form, not the library's. *)
LEMMA MessagesAssociate ==
    \A a, b, c \in Seq(Msg) : (a \o b) \o c = a \o (b \o c)
  BY ConcatAssociative

LEMMA SequencesOf ==
    ASSUME TypeOK, NEW e \in Side
    PROVE  /\ written[e] \in Seq(Msg)
           /\ delivered[e] \in Seq(Msg)
           /\ message[e] \in Seq(Msg)
           /\ InFlight(e) \in Seq(Msg)
           /\ delivered[e] \o InFlight(e) \in Seq(Msg)
  <1>1. /\ written[e] \in Seq(Msg) /\ delivered[e] \in Seq(Msg)
        /\ message[e] \in Seq(Msg) /\ reliable_buf[e] \in Seq(Msg)
    BY DEF TypeOK
  <1>2. InFlight(e) \in Seq(Msg)
    BY <1>1, EmptySeq DEF InFlight
  <1> QED
    BY <1>1, <1>2, ConcatProperties

LEMMA InFlightOfMissing ==
    ASSUME NEW e \in Side
    PROVE  /\ Missing(e) => InFlight(e) = reliable_buf[e]
           /\ ~Missing(e) => InFlight(e) = <<>>
           /\ Missing(e)' => InFlight(e)' = reliable_buf'[e]
           /\ ~Missing(e)' => InFlight(e)' = <<>>
  BY DEF InFlight, Missing

(* What SZ_Clear leaves. *)
LEMMA UnclearedAccounted ==
    ASSUME TypeOK, NEW e \in Side, Accounted(e)
    PROVE  Uncleared(e) = delivered[e] \o InFlight(e)
  <1> DEFINE a == delivered[e] \o InFlight(e)
  <1>1. a \in Seq(Msg) /\ message[e] \in Seq(Msg)
    BY SequencesOf
  <1>2. written[e] = a \o message[e]
    BY DEF Accounted
  <1> HIDE DEF a
  <1>3. SubSeq(a \o message[e], 1, Len(a \o message[e]) - Len(message[e])) = a
    BY <1>1, SequenceFacts
  <1>4. Uncleared(e) = a
    BY <1>2, <1>3 DEF Uncleared
  <1> QED
    BY <1>4 DEF a

(* A packet sent moves messages from message to reliable_buf, or none. *)
LEMMA TransmitAccounted ==
    ASSUME TypeOK, TypeOK', DirectionInv, NEW e \in Side,
           NEW msgs \in Seq(Msg), Transmit(e, msgs),
           written'[e] = delivered[e] \o InFlight(e) \o msgs
    PROVE  Accounted(e)'
  <1> DEFINE p == Peer(e)
  <1>1. p \in Side /\ p # e /\ Peer(e) = p
    BY PeerOfPeer
  <1> HIDE DEF p
  <1>2. PICK rel \in BOOLEAN, data \in Seq(Msg) : Transmits(e, p, msgs, rel, data)
    BY <1>1, TransmitEffect
  <1>3. delivered' = delivered /\ incoming_reliable_sequence' = incoming_reliable_sequence
    BY DEF Transmit, received
  <1>4. AcknowledgedInOrder(e)
    BY DEF DirectionInv, Direction
  <1>5. CASE /\ reliable_buf[e] = <<>> /\ data = msgs
             /\ reliable_sequence'[e] # reliable_sequence[e]
             /\ message' = [message EXCEPT ![e] = <<>>]
    <2>1. ~Missing(e)
      BY <1>4, <1>5 DEF AcknowledgedInOrder
    <2>2. Missing(e)'
      BY <1>1, <1>3, <1>5, <2>1 DEF Missing
    <2>3. InFlight(e) = <<>> /\ InFlight(e)' = msgs
      BY <1>2, <1>5, <2>1, <2>2, InFlightOfMissing DEF Transmits
    <2>4. message'[e] = <<>>
      BY <1>5 DEF TypeOK
    <2>5. delivered[e] \o <<>> \o msgs = delivered[e] \o msgs \o <<>>
      BY SequencesOf, SequenceFacts
    <2> QED
      BY <1>3, <2>3, <2>4, <2>5 DEF Accounted
  <1>6. CASE /\ data = reliable_buf[e]
             /\ reliable_sequence'[e] = reliable_sequence[e]
             /\ message' = [message EXCEPT ![e] = msgs]
    <2>1. Missing(e)' <=> Missing(e)
      BY <1>1, <1>3, <1>6 DEF Missing
    <2>2. InFlight(e)' = InFlight(e)
      BY <1>2, <1>6, <2>1, InFlightOfMissing DEF Transmits
    <2>3. message'[e] = msgs
      BY <1>6 DEF TypeOK
    <2> QED
      BY <1>3, <2>2, <2>3 DEF Accounted
  <1> QED
    BY <1>2, <1>5, <1>6 DEF Transmits

(* The other direction of a packet sent. *)
LEMMA TransmitPeerAccounted ==
    ASSUME TypeOK, NEW e \in Side, NEW p \in Side, p = Peer(e),
           NEW msgs \in Seq(Msg), Transmit(e, msgs),
           written'[p] = written[p], Accounted(p)
    PROVE  Accounted(p)'
  <1>1. p # e /\ Peer(p) = e
    BY PeerOfPeer
  <1>2. PICK rel \in BOOLEAN, data \in Seq(Msg) : Transmits(e, p, msgs, rel, data)
    BY TransmitEffect
  <1>3. delivered' = delivered /\ incoming_reliable_sequence' = incoming_reliable_sequence
    BY DEF Transmit, received
  <1>4. InFlight(p)' = InFlight(p)
    BY <1>1, <1>2, <1>3 DEF Transmits, InFlight
  <1>5. message'[p] = message[p]
    BY <1>1, <1>2 DEF Transmits, TypeOK
  <1> QED
    BY <1>3, <1>4, <1>5 DEF Accounted

(* A packet received hands over the block it carries. *)
LEMMA ProcessAccounted ==
    ASSUME TypeOK, TypeOK', DirectionInv, NEW e \in Side, NEW k \in net[e],
           Process(e, k), Direction(Peer(e))',
           Accounted(e), Accounted(Peer(e))
    PROVE  Accounted(e)' /\ Accounted(Peer(e))'
  <1> DEFINE p == Peer(e)
  <1>1. p \in Side /\ p # e /\ Peer(p) = e /\ Peer(e) = p
    BY PeerOfPeer
  <1> HIDE DEF p
  <1>2. Receives(e, p, k)
    BY <1>1, ProcessEffect
  <1>3. Direction(e) /\ Direction(p)
    BY <1>1 DEF DirectionInv
  <1>4. k \in Live(e) /\ k.rel \in BOOLEAN /\ k.data \in Seq(Msg)
    BY <1>2, TypeOfPacket, TypeOfSide DEF Live, Stale, Receives
  <1>5. UNCHANGED <<written, message>>
    BY DEF Process
  <1>6. Accounted(e)'
    <2>1. Missing(e)' <=> Missing(e)
      BY <1>1, <1>2 DEF Missing, Receives
    <2>2. Missing(e) => reliable_buf'[e] = reliable_buf[e]
      BY <1>2, <1>3, <1>4 DEF Direction, AcknowledgedInOrder, Receives
    <2>3. InFlight(e)' = InFlight(e)
      BY <2>1, <2>2, InFlightOfMissing
    <2>4. delivered'[e] = delivered[e]
      BY <1>1 DEF Process, TypeOK
    <2> QED
      BY <1>5, <2>3, <2>4 DEF Accounted
  <1>7. Accounted(p)'
    <2>1. CASE k.rel
      <3>1. Missing(p) /\ k.data = reliable_buf[p]
        BY <1>1, <1>3, <1>4, <2>1 DEF Direction, BlockUnderWay
      <3>2. ~Missing(p)'
        <4>1. /\ reliable_sequence[p] \in Bit
              /\ incoming_reliable_sequence[e] \in Bit
              /\ incoming_reliable_sequence'[e] \in Bit
          BY <1>1 DEF TypeOK
        <4> QED
          BY <1>1, <1>2, <2>1, <3>1, <4>1 DEF Missing, Receives, Bit
      <3>3. InFlight(p) = k.data /\ InFlight(p)' = <<>>
        BY <1>1, <3>1, <3>2, InFlightOfMissing
      <3>4. delivered'[p] = delivered[p] \o k.data
        BY <1>1, <2>1 DEF Process, TypeOK
      <3>5. (delivered[p] \o k.data) \o <<>> = delivered[p] \o k.data
        BY <1>1, <1>4, SequencesOf, SequenceFacts
      <3> QED
        BY <1>1, <1>5, <3>3, <3>4, <3>5 DEF Accounted
    <2>2. CASE ~k.rel
      <3>1. InFlight(p)' = InFlight(p)
        BY <1>1, <1>2, <2>2 DEF InFlight, Receives
      <3>2. delivered'[p] = delivered[p]
        BY <2>2 DEF Process
      <3> QED
        BY <1>1, <1>5, <3>1, <3>2 DEF Accounted
    <2> QED
      BY <1>4, <2>1, <2>2
  <1> QED
    BY <1>1, <1>6, <1>7

LEMMA AccountedInvariance ==
    /\ TypeOK /\ TypeOK' /\ DirectionInv /\ DirectionInv'
    /\ ExactlyOnceInOrder /\ [Next]_vars
    => ExactlyOnceInOrder'
  <1> SUFFICES ASSUME TypeOK, TypeOK', DirectionInv, DirectionInv',
                      \A d \in Side : Accounted(d), [Next]_vars
               PROVE  \A d \in Side : Accounted(d)'
    BY DEF ExactlyOnceInOrder, Accounted
  <1>s. "client" \in Side /\ "server" \in Side
        /\ Peer("client") = "server" /\ Peer("server") = "client"
    BY DEF Side, Peer
  <1>c. \A d \in Side : d = "client" \/ d = "server"
    BY DEF Side
  <1>1. ASSUME NEW e \in Side, NEW m \in Msg, Write(e, m), NEW d \in Side
        PROVE  Accounted(d)'
    <2>1. InFlight(d)' = InFlight(d) /\ delivered' = delivered
      BY <1>1 DEF Write, InFlight, chan, received
    <2>2. CASE d = e
      <3>1. message'[d] = Append(message[d], m) /\ written'[d] = Append(written[d], m)
        BY <1>1, <2>2 DEF Write, TypeOK
      <3>2. /\ delivered[d] \in Seq(Msg) /\ InFlight(d) \in Seq(Msg)
            /\ delivered[d] \o InFlight(d) \in Seq(Msg)
            /\ message[d] \in Seq(Msg) /\ written[d] \in Seq(Msg)
            /\ <<m>> \in Seq(Msg)
        BY SequencesOf
      <3>3. Append(message[d], m) = message[d] \o <<m>>
        BY <3>2, SequenceFacts
      <3>4. Append(written[d], m) = written[d] \o <<m>>
        BY <3>2, SequenceFacts
      <3>5. ((delivered[d] \o InFlight(d)) \o message[d]) \o <<m>>
               = (delivered[d] \o InFlight(d)) \o (message[d] \o <<m>>)
        BY <3>2, MessagesAssociate
      <3> QED
        BY <2>1, <3>1, <3>3, <3>4, <3>5 DEF Accounted
    <2>3. CASE d # e
      BY <1>1, <2>1, <2>3 DEF Write, TypeOK, Accounted
    <2> QED
      BY <2>2, <2>3
  <1>2. ASSUME NEW e \in Side, NEW m \in Msg, WriteOverflow(e, m), NEW d \in Side
        PROVE  Accounted(d)'
    <2>1. InFlight(d)' = InFlight(d) /\ delivered' = delivered
      BY <1>2 DEF WriteOverflow, InFlight, chan, received
    <2>2. CASE d = e
      <3>1. message'[d] = <<m>> /\ written'[d] = Append(Uncleared(d), m)
        BY <1>2, <2>2 DEF WriteOverflow, TypeOK
      <3>2. Uncleared(d) = delivered[d] \o InFlight(d)
        BY UnclearedAccounted
      <3>3. Append(delivered[d] \o InFlight(d), m) = delivered[d] \o InFlight(d) \o <<m>>
        BY SequencesOf, SequenceFacts
      <3> QED
        BY <2>1, <3>1, <3>2, <3>3 DEF Accounted
    <2>3. CASE d # e
      BY <1>2, <2>1, <2>3 DEF WriteOverflow, TypeOK, Accounted
    <2> QED
      BY <2>2, <2>3
  <1>3. ASSUME ClearReliable, NEW d \in Side PROVE Accounted(d)'
    <2>1. InFlight(d)' = InFlight(d) /\ delivered' = delivered
      BY <1>3 DEF ClearReliable, InFlight, chan, received
    <2>2. CASE d = "server"
      <3>1. message'[d] = <<>> /\ written'[d] = Uncleared(d)
        BY <1>3, <2>2 DEF ClearReliable, TypeOK
      <3>2. Uncleared(d) = delivered[d] \o InFlight(d)
        BY UnclearedAccounted
      <3>3. (delivered[d] \o InFlight(d)) \o <<>> = delivered[d] \o InFlight(d)
        <4>1. delivered[d] \o InFlight(d) \in Seq(Msg)
          BY SequencesOf
        <4> QED
          BY <4>1, SequenceFacts
      <3> QED
        BY <2>1, <3>1, <3>2, <3>3 DEF Accounted
    <2>3. CASE d # "server"
      BY <1>3, <2>1, <2>3 DEF ClearReliable, TypeOK, Accounted
    <2> QED
      BY <2>2, <2>3
  <1>4. ASSUME ClientTransmit, NEW d \in Side PROVE Accounted(d)'
    <2>1. Transmit("client", message["client"]) /\ written' = written
          /\ message["client"] \in Seq(Msg)
      BY <1>4, <1>s DEF ClientTransmit, TypeOK
    <2>2. Accounted("client")'
      BY <1>s, <2>1, TransmitAccounted DEF Accounted
    <2>3. Accounted("server")'
      BY <1>s, <2>1, TransmitPeerAccounted
    <2> QED
      BY <1>c, <2>2, <2>3
  <1>5. ASSUME ServerTransmit, NEW d \in Side PROVE Accounted(d)'
    <2>1. Transmit("server", message["server"]) /\ written' = written
          /\ message["server"] \in Seq(Msg)
      BY <1>5, <1>s DEF ServerTransmit, TypeOK
    <2>2. Accounted("server")'
      BY <1>s, <2>1, TransmitAccounted DEF Accounted
    <2>3. Accounted("client")'
      BY <1>s, <2>1, TransmitPeerAccounted
    <2> QED
      BY <1>c, <2>2, <2>3
  <1>6. ASSUME NEW m \in Msg, ServerDropOverflowed(m), NEW d \in Side
        PROVE  Accounted(d)'
    <2>1. /\ Transmit("server", <<m>>)
          /\ <<m>> \in Seq(Msg)
          /\ written' = [written EXCEPT !["server"] = Append(Uncleared("server"), m)]
      BY <1>6 DEF ServerDropOverflowed
    <2>2. written'["server"] = delivered["server"] \o InFlight("server") \o <<m>>
      <3>1. written'["server"] = Append(Uncleared("server"), m)
        BY <1>s, <2>1 DEF TypeOK
      <3>2. Uncleared("server") = delivered["server"] \o InFlight("server")
        BY <1>s, UnclearedAccounted
      <3>3. Append(delivered["server"] \o InFlight("server"), m)
               = delivered["server"] \o InFlight("server") \o <<m>>
        BY <1>s, SequencesOf, SequenceFacts, Zenon
      <3> QED
        BY <3>1, <3>2, <3>3
    <2>3. Accounted("server")'
      BY <1>s, <2>1, <2>2, TransmitAccounted
    <2>4. written'["client"] = written["client"]
      BY <1>s, <2>1 DEF TypeOK
    <2>5. Accounted("client")'
      BY <1>s, <2>1, <2>4, TransmitPeerAccounted
    <2> QED
      BY <1>c, <2>3, <2>5
  <1>7. ASSUME ClientProcess \/ ServerProcess, NEW d \in Side PROVE Accounted(d)'
    <2>1. PICK e \in Side : \E k \in net[e] : Process(e, k)
      BY <1>7, <1>s DEF ClientProcess, ServerProcess
    <2>2. PICK k \in net[e] : Process(e, k)
      BY <2>1
    <2>3. Peer(e) \in Side /\ (d = e \/ d = Peer(e))
      BY PeerOfPeer
    <2>4. Direction(Peer(e))'
      BY <2>3 DEF DirectionInv
    <2> QED
      BY <2>2, <2>3, <2>4, ProcessAccounted
  <1>8. ASSUME ServerChoke \/ SendMessagesToAll \/ UNCHANGED vars, NEW d \in Side
        PROVE  Accounted(d)'
    BY <1>8 DEF ServerChoke, SendMessagesToAll, vars, chan, received, Accounted, InFlight
  <1> QED
    BY <1>1, <1>2, <1>3, <1>4, <1>5, <1>6, <1>7, <1>8 DEF Next

(* Every message written is handed over exactly once and in order, however *)
(* packets are lost, repeated, delayed and reordered, and whatever is      *)
(* cleared or overflows.                                                   *)
THEOREM ExactlyOnce == Spec => []ExactlyOnceInOrder
  <1>1. Init => ExactlyOnceInOrder
    <2> SUFFICES ASSUME Init, NEW e \in Side PROVE Accounted(e)
      BY DEF ExactlyOnceInOrder, Accounted
    <2>1. written[e] = <<>> /\ delivered[e] = <<>> /\ message[e] = <<>>
          /\ InFlight(e) = <<>>
      BY DEF Init, InFlight
    <2>2. <<>> \in Seq(Msg) /\ <<>> \o <<>> = <<>>
      BY EmptySeq, ConcatEmptySeq
    <2> QED
      BY <2>1, <2>2 DEF Accounted
  <1> QED
    BY <1>1, TypeCorrect, DirectionCorrect, AccountedInvariance, PTL DEF Spec

-----------------------------------------------------------------------------
(* The implementation of ReliableChannel, and action properties.           *)

(* What has been handed over and what is in flight are a prefix of what    *)
(* was written.                                                            *)
LEMMA Prefixes ==
    ASSUME TypeOK, NEW e \in Side, Accounted(e)
    PROVE  LET n == Len(delivered[e]) + Len(InFlight(e)) IN
           /\ n \in Len(delivered[e]) .. Len(written[e])
           /\ n = Len(written[e]) - Len(message[e])
           /\ SubSeq(written[e], 1, n) = delivered[e] \o InFlight(e)
           /\ SubSeq(written[e], 1, Len(written[e])) = written[e]
  <1> DEFINE a == delivered[e] \o InFlight(e)
  <1>1. /\ delivered[e] \in Seq(Msg) /\ InFlight(e) \in Seq(Msg)
        /\ a \in Seq(Msg) /\ message[e] \in Seq(Msg) /\ written[e] \in Seq(Msg)
    BY SequencesOf
  <1>2. written[e] = a \o message[e]
    BY DEF Accounted
  <1>3. Len(a) = Len(delivered[e]) + Len(InFlight(e))
    BY <1>1, ConcatProperties
  <1>4. Len(written[e]) = Len(a) + Len(message[e])
    BY <1>1, <1>2, ConcatProperties
  <1>5. /\ Len(delivered[e]) \in Nat /\ Len(InFlight(e)) \in Nat
        /\ Len(message[e]) \in Nat /\ Len(a) \in Nat
    BY <1>1, LenProperties
  <1>6. Uncleared(e) = a
    BY UnclearedAccounted
  <1>7. SubSeq(written[e], 1, Len(written[e])) = written[e]
    BY <1>1, SubSeqFull
  <1>8. Len(written[e]) - Len(message[e]) = Len(a)
    BY <1>4, <1>5
  <1>9. SubSeq(written[e], 1, Len(a)) = a
    BY <1>6, <1>8 DEF Uncleared
  <1>10. Len(a) \in Len(delivered[e]) .. Len(written[e])
    <2>1. ASSUME NEW x \in Nat, NEW y \in Nat, NEW z \in Nat
          PROVE  x + y \in x .. (x + y) + z
      OBVIOUS
    <2>2. Len(written[e]) = (Len(delivered[e]) + Len(InFlight(e))) + Len(message[e])
      BY <1>3, <1>4, Zenon
    <2>3. Len(delivered[e]) + Len(InFlight(e)) \in Len(delivered[e]) .. Len(written[e])
      BY <1>5, <2>1, <2>2, Zenon
    <2> QED
      BY <1>3, <2>3, Zenon
  <1> QED
    BY <1>3, <1>7, <1>8, <1>9, <1>10

(* SZ_Clear discards only what has not been handed over. *)
LEMMA UnclearedKept ==
    ASSUME TypeOK, NEW e \in Side, Accounted(e)
    PROVE  Uncleared(e) \in Channel!Kept(e) /\ written[e] \in Channel!Kept(e)
  <1> DEFINE n == Len(delivered[e]) + Len(InFlight(e))
  <1>1. /\ n \in Len(delivered[e]) .. Len(written[e])
        /\ n = Len(written[e]) - Len(message[e])
        /\ SubSeq(written[e], 1, Len(written[e])) = written[e]
    BY Prefixes
  <1>2. Uncleared(e) = SubSeq(written[e], 1, n)
    BY <1>1 DEF Uncleared
  <1>3. Len(written[e]) \in Len(delivered[e]) .. Len(written[e])
    <2>1. Len(delivered[e]) \in Nat /\ Len(written[e]) \in Nat
      BY SequencesOf, LenProperties
    <2> QED
      BY <1>1, <2>1
  <1> QED
    BY <1>1, <1>2, <1>3 DEF Channel!Kept

LEMMA StepImplements ==
    ASSUME TypeOK, TypeOK', DirectionInv, \A d \in Side : Accounted(d), [Next]_vars
    PROVE  [Channel!Next]_(Channel!vars)
  <1>s. "client" \in Side /\ "server" \in Side
    BY DEF Side
  <1>1. ASSUME NEW e \in Side, NEW m \in Msg, Write(e, m) \/ WriteOverflow(e, m)
        PROVE  Channel!Write(e, m)
    <2>1. /\ delivered' = delivered
          /\ \/ written' = [written EXCEPT ![e] = Append(written[e], m)]
             \/ written' = [written EXCEPT ![e] = Append(Uncleared(e), m)]
      BY <1>1 DEF Write, WriteOverflow
    <2> QED
      BY <2>1, UnclearedKept DEF Channel!Write
  <1>2. CASE ClearReliable
    <2>1. Uncleared("server") \in Channel!Kept("server")
      BY <1>s, UnclearedKept
    <2>2. Channel!Discard("server")
      BY <1>2, <2>1 DEF ClearReliable, Channel!Discard
    <2> QED
      BY <1>s, <2>2 DEF Channel!Next
  <1>3. CASE ClientTransmit \/ ServerTransmit
    BY <1>3 DEF ClientTransmit, ServerTransmit, Transmit, Channel!vars
  <1>4. ASSUME NEW m \in Msg, ServerDropOverflowed(m)
        PROVE  Channel!Write("server", m)
    <2>1. /\ delivered' = delivered
          /\ written' = [written EXCEPT !["server"] = Append(Uncleared("server"), m)]
      BY <1>4 DEF ServerDropOverflowed, Transmit
    <2> QED
      BY <1>s, <2>1, UnclearedKept DEF Channel!Write
  <1>5. ASSUME NEW e \in Side, NEW k \in net[e], Process(e, k)
        PROVE  Channel!Deliver(Peer(e)) \/ UNCHANGED Channel!vars
    <2> DEFINE p == Peer(e)
    <2>1. p \in Side /\ p # e /\ Peer(p) = e /\ Peer(e) = p
      BY PeerOfPeer
    <2> HIDE DEF p
    <2>2. Receives(e, p, k)
      BY <1>5, <2>1, ProcessEffect
    <2>3. k \in Live(e) /\ k.rel \in BOOLEAN
      BY <2>2, TypeOfPacket, TypeOfSide DEF Live, Stale, Receives
    <2>4. CASE k.rel
      <3>1. Missing(p) /\ k.data = reliable_buf[p] /\ reliable_buf[p] # <<>>
        BY <2>1, <2>3, <2>4
           DEF DirectionInv, Direction, BlockUnderWay, AcknowledgedInOrder
      <3>2. InFlight(p) = k.data
        BY <2>1, <3>1, InFlightOfMissing
      <3> DEFINE n == Len(delivered[p]) + Len(InFlight(p))
      <3>3. /\ n \in Len(delivered[p]) .. Len(written[p])
            /\ SubSeq(written[p], 1, n) = delivered[p] \o InFlight(p)
        BY <2>1, Prefixes
      <3>4. n \in Len(delivered[p]) + 1 .. Len(written[p])
        <4>1. Len(delivered[p]) \in Nat /\ Len(InFlight(p)) \in Nat
              /\ InFlight(p) \in Seq(Msg) /\ Len(written[p]) \in Nat
          BY <2>1, SequencesOf, LenProperties
        <4>2. Len(InFlight(p)) # 0
          BY <3>1, <3>2, <4>1, EmptySeq
        <4> QED
          BY <3>3, <4>1, <4>2
      <3>5. delivered' = [delivered EXCEPT ![p] = delivered[p] \o k.data]
        BY <1>5, <2>1, <2>4 DEF Process
      <3>6. written' = written
        BY <1>5 DEF Process
      <3> HIDE DEF n
      <3>7. delivered' = [delivered EXCEPT ![p] = SubSeq(written[p], 1, n)]
        BY <3>2, <3>3, <3>5
      <3> QED
        BY <2>1, <3>4, <3>6, <3>7 DEF Channel!Deliver
    <2>5. CASE ~k.rel
      BY <1>5, <2>5 DEF Process, Channel!vars
    <2> QED
      BY <2>3, <2>4, <2>5
  <1>6. CASE ClientProcess \/ ServerProcess
    <2>1. PICK e \in Side : \E k \in net[e] : Process(e, k)
      BY <1>6, <1>s DEF ClientProcess, ServerProcess
    <2>2. Channel!Deliver(Peer(e)) \/ UNCHANGED Channel!vars
      BY <1>5, <2>1
    <2> QED
      BY <2>2, PeerOfPeer DEF Channel!Next
  <1>7. CASE ServerChoke \/ SendMessagesToAll \/ UNCHANGED vars
    BY <1>7 DEF ServerChoke, SendMessagesToAll, vars, Channel!vars
  <1> QED
    BY <1>1, <1>2, <1>3, <1>4, <1>6, <1>7, <1>s DEF Next, Channel!Next

(* The netchan is the reliable FIFO the rest of the server takes it for,   *)
(* for every set of messages and every size of the message buffer.         *)
THEOREM NetchanImplementsReliableChannel == Spec => ImplementsReliableChannel
  <1>1. Init => Channel!Init
    BY DEF Init, Channel!Init
  <1>2. TypeOK /\ TypeOK' /\ DirectionInv /\ ExactlyOnceInOrder /\ [Next]_vars
          => [Channel!Next]_(Channel!vars)
    BY StepImplements DEF ExactlyOnceInOrder, Accounted
  <1> QED
    BY <1>1, <1>2, TypeCorrect, DirectionCorrect, ExactlyOnce, PTL
       DEF Spec, ImplementsReliableChannel, Channel!Spec

-----------------------------------------------------------------------------
(* Step properties. *)

(* What a packet with a reliable part says about the step that sent it. *)
LEMMA NewReliablePacket ==
    ASSUME TypeOK, DirectionInv, NEW e \in Side, [Next]_vars,
           NEW k \in net'[Peer(e)], k \notin net[Peer(e)], k.rel,
           reliable_buf[e] # <<>>
    PROVE  InFlight(e) # <<>>
  <1>s. "client" \in Side /\ "server" \in Side
    BY DEF Side
  <1>1. PICK d \in Side, msgs \in Seq(Msg) : Transmit(d, msgs)
    <2>1. CASE ClientTransmit
      BY <2>1, <1>s DEF ClientTransmit, TypeOK
    <2>2. CASE ServerTransmit
      BY <2>2, <1>s DEF ServerTransmit, TypeOK
    <2>3. ASSUME NEW m \in Msg, ServerDropOverflowed(m)
          PROVE  \E d \in Side, msgs \in Seq(Msg) : Transmit(d, msgs)
      <3>1. <<m>> \in Seq(Msg)
        OBVIOUS
      <3> QED
        BY <2>3, <1>s, <3>1 DEF ServerDropOverflowed
    <2>4. ASSUME net' = net PROVE FALSE
      BY <2>4
    <2>5. ASSUME NEW d \in Side, NEW n \in net[d], Process(d, n) PROVE FALSE
      <3>1. net' = [net EXCEPT ![d] = {x \in net[d] : ~Stale(d, x)'}]
        BY <2>5 DEF Process
      <3>2. net'[Peer(e)] \subseteq net[Peer(e)]
        BY <3>1, PeerOfPeer DEF TypeOK
      <3> QED
        BY <3>2
    <2> QED
      BY <1>s, <2>1, <2>2, <2>3, <2>4, <2>5
         DEF Next, vars, Write, WriteOverflow, ClearReliable, ServerChoke,
             SendMessagesToAll, ClientProcess, ServerProcess
  <1>2. Peer(d) \in Side /\ Peer(e) \in Side /\ Peer(Peer(e)) = e /\ Peer(Peer(d)) = d
    BY PeerOfPeer
  <1>3. PICK rel \in BOOLEAN, data \in Seq(Msg) :
            Transmits(d, Peer(d), msgs, rel, data)
    BY <1>1, <1>2, TransmitEffect
  <1>4. d = e
    <2>1. \A x \in Side : x = d \/ x = Peer(d)
      BY PeerOfPeer
    <2>2. net'[d] = net[d]
      BY <1>3 DEF Transmits
    <2> QED
      BY <1>2, <2>1, <2>2
  <1>5. k = PacketOf(e, rel, data)
    BY <1>3, <1>4 DEF Transmits
  <1>6. rel
    BY <1>5 DEF PacketOf
  <1>7. RemoteDropped(e)
    BY <1>3, <1>4, <1>6 DEF Transmits
  <1>8. Missing(e)
    <2>1. AcknowledgesTruly(e)
      BY DEF DirectionInv, Direction
    <2>2. /\ incoming_acknowledged[e] \in Nat /\ last_reliable_sequence[e] \in Nat
          /\ incoming_acknowledged[e] > last_reliable_sequence[e]
          /\ incoming_reliable_acknowledged[e] # reliable_sequence[e]
      BY <1>7, TypeOfSide DEF RemoteDropped
    <2>3. incoming_reliable_acknowledged[e] = incoming_reliable_sequence[Peer(e)]
      BY <2>1, <2>2 DEF AcknowledgesTruly
    <2> QED
      BY <2>2, <2>3 DEF Missing
  <1> QED
    BY <1>8, InFlightOfMissing

(* A block is sent again only while the peer is missing it, so the peer    *)
(* never flips its bit twice for one block.                                *)
THEOREM ResendsMissing == Spec => ResendsOnlyWhatIsMissing
  <1>1. TypeOK /\ DirectionInv /\ [Next]_vars =>
           \A e \in Side :
              (\E k \in net'[Peer(e)] \ net[Peer(e)] : k.rel) /\ reliable_buf[e] # <<>>
                 => InFlight(e) # <<>>
    BY NewReliablePacket
  <1> QED
    BY <1>1, TypeCorrect, DirectionCorrect, PTL DEF Spec, ResendsOnlyWhatIsMissing

(* No two packets on their way to one side have one number, so the one an  *)
(* acknowledgement names is the one the sender means (net_chan.c 274-292). *)
THEOREM FreshNumbers == Spec => []SequenceNumbersAreFresh
  <1>1. TypeOK /\ DirectionInv => SequenceNumbersAreFresh
    <2> SUFFICES ASSUME TypeOK, DirectionInv,
                        NEW e \in Side, NEW k1 \in net[e], NEW k2 \in net[e],
                        k1.seq = k2.seq
                 PROVE  k1 = k2
      BY DEF SequenceNumbersAreFresh
    <2>1. Peer(e) \in Side /\ Peer(Peer(e)) = e
      BY PeerOfPeer
    <2> QED
      BY <2>1 DEF DirectionInv, Direction, Numbered
  <1> QED
    BY <1>1, TypeCorrect, DirectionCorrect, PTL

(* At most one reliable packet on its way to a side is one it would still  *)
(* accept: a block is never handed over twice (net_chan.c 386, 435).       *)
THEOREM OneLive == Spec => []OneLiveReliablePacket
  <1>1. TypeOK /\ DirectionInv /\ SequenceNumbersAreFresh => OneLiveReliablePacket
    <2> SUFFICES ASSUME TypeOK, DirectionInv, SequenceNumbersAreFresh,
                        NEW e \in Side, NEW k1 \in net[e], NEW k2 \in net[e],
                        k1.rel, k2.rel, k1.seq > incoming_sequence[e],
                        k2.seq > incoming_sequence[e]
                 PROVE  k1 = k2
      BY DEF OneLiveReliablePacket
    <2>1. Peer(e) \in Side /\ Peer(Peer(e)) = e
      BY PeerOfPeer
    <2>2. k1 \in Live(e) /\ k2 \in Live(e) /\ k1.seq \in Nat /\ k2.seq \in Nat
      BY TypeOfPacket, TypeOfSide DEF Live, Stale
    <2>3. k1.seq + 1 = k2.seq + 1
      BY <2>1, <2>2 DEF DirectionInv, Direction, BlockUnderWay
    <2> QED
      BY <2>2, <2>3 DEF SequenceNumbersAreFresh
  <1> QED
    BY <1>1, FreshNumbers, TypeCorrect, DirectionCorrect, PTL

-----------------------------------------------------------------------------
(* What acknowledgements are taken for. *)

(* The two kinds of step that matter to the numbers and to reliable_buf.   *)
LEMMA StepKinds ==
    ASSUME TypeOK, Next
    PROVE  \/ \E d \in Side, msgs \in Seq(Msg) : Transmit(d, msgs)
           \/ \E d \in Side : \E k \in net[d] :
                 /\ Process(d, k)
                 /\ \/ UNCHANGED outgoing_sequence
                    \/ /\ d = "server"
                       /\ outgoing_sequence' =
                             [outgoing_sequence EXCEPT !["server"] = k.seq]
                       /\ k.seq >= outgoing_sequence["server"]
           \/ UNCHANGED chan
  <1>s. "client" \in Side /\ "server" \in Side
    BY DEF Side
  <1>1. CASE ClientTransmit \/ ServerTransmit
    <2>1. message["client"] \in Seq(Msg) /\ message["server"] \in Seq(Msg)
      BY <1>s DEF TypeOK
    <2> QED
      BY <1>s, <1>1, <2>1 DEF ClientTransmit, ServerTransmit
  <1>2. ASSUME NEW m \in Msg, ServerDropOverflowed(m)
        PROVE  \E d \in Side, msgs \in Seq(Msg) : Transmit(d, msgs)
    <2>1. <<m>> \in Seq(Msg)
      OBVIOUS
    <2> QED
      BY <1>s, <1>2, <2>1 DEF ServerDropOverflowed
  <1>3. CASE ClientProcess
    BY <1>s, <1>3 DEF ClientProcess
  <1>4. CASE ServerProcess
    BY <1>s, <1>4 DEF ServerProcess, ServerAnswers
  <1>5. ASSUME \/ \E e \in Side, m \in Msg : Write(e, m) \/ WriteOverflow(e, m)
               \/ ClearReliable \/ ServerChoke \/ SendMessagesToAll
        PROVE  UNCHANGED chan
    BY <1>5 DEF Write, WriteOverflow, ClearReliable, ServerChoke, SendMessagesToAll
  <1> QED
    BY <1>1, <1>2, <1>3, <1>4, <1>5 DEF Next

(* A side has sent what its peer has taken; 0 stands for nothing.          *)
TakenWasSent ==
    \A e \in Side : incoming_sequence[Peer(e)] # 0 =>
                       incoming_sequence[Peer(e)] < outgoing_sequence[e]

LEMMA TakenWasSentInvariance ==
    TypeOK /\ TypeOK' /\ DirectionInv /\ TakenWasSent /\ [Next]_vars => TakenWasSent'
  <1> SUFFICES ASSUME TypeOK, TypeOK', DirectionInv, TakenWasSent, [Next]_vars,
                      NEW e \in Side
               PROVE  incoming_sequence'[Peer(e)] # 0 =>
                         incoming_sequence'[Peer(e)] < outgoing_sequence'[e]
    BY DEF TakenWasSent
  <1>1. /\ Peer(e) \in Side /\ Peer(e) # e /\ Peer(Peer(e)) = e
        /\ \A d \in Side : d = e \/ d = Peer(e)
        /\ \A d \in Side : Peer(d) \in Side /\ Peer(d) # d /\ Peer(Peer(d)) = d
    BY PeerOfPeer
  <1>2. /\ incoming_sequence[Peer(e)] \in Nat /\ outgoing_sequence[e] \in Nat
        /\ incoming_sequence[Peer(e)] # 0 =>
              incoming_sequence[Peer(e)] < outgoing_sequence[e]
    BY <1>1, TypeOfSide DEF TakenWasSent
  <1>3. CASE \E d \in Side, msgs \in Seq(Msg) : Transmit(d, msgs)
    <2>1. PICK d \in Side, msgs \in Seq(Msg) : Transmit(d, msgs)
      BY <1>3
    <2>2. PICK rel \in BOOLEAN, data \in Seq(Msg) :
              Transmits(d, Peer(d), msgs, rel, data)
      BY <1>1, <2>1, TransmitEffect
    <2>3. outgoing_sequence'[e] \in {outgoing_sequence[e], outgoing_sequence[e] + 1}
      BY <1>1, <2>2 DEF Transmits
    <2>4. incoming_sequence' = incoming_sequence
      BY <2>1 DEF Transmit, received
    <2> QED
      BY <1>2, <2>3, <2>4
  <1>4. ASSUME NEW d \in Side, NEW k \in net[d], Process(d, k),
               \/ UNCHANGED outgoing_sequence
               \/ /\ d = "server"
                  /\ outgoing_sequence' =
                        [outgoing_sequence EXCEPT !["server"] = k.seq]
                  /\ k.seq >= outgoing_sequence["server"]
        PROVE  incoming_sequence'[Peer(e)] # 0 =>
                  incoming_sequence'[Peer(e)] < outgoing_sequence'[e]
    <2>1. Receives(d, Peer(d), k)
      BY <1>1, <1>4, ProcessEffect
    <2>2. CASE d = e
      <3>1. incoming_sequence'[Peer(e)] = incoming_sequence[Peer(e)]
        BY <2>1, <2>2 DEF Receives
      <3>2. outgoing_sequence'[e] >= outgoing_sequence[e]
        BY <1>2, <1>4, <2>2 DEF TypeOK
      <3>3. outgoing_sequence'[e] \in Nat
        BY DEF TypeOK
      <3> QED
        BY <1>2, <3>1, <3>2, <3>3
    <2>3. CASE d = Peer(e)
      <3>1. incoming_sequence'[Peer(e)] = k.seq
        BY <2>1, <2>3 DEF Receives
      <3>2. k.seq < outgoing_sequence[e]
        BY <1>1, <2>3 DEF DirectionInv, Direction, Numbered
      <3>3. outgoing_sequence'[e] = outgoing_sequence[e]
        BY <1>1, <1>4, <2>3 DEF TypeOK
      <3> QED
        BY <3>1, <3>2, <3>3
    <2> QED
      BY <1>1, <2>2, <2>3
  <1>5. CASE UNCHANGED chan
    BY <1>2, <1>5 DEF chan, received
  <1>6. CASE UNCHANGED vars
    BY <1>2, <1>6 DEF vars, chan, received
  <1> QED
    BY <1>3, <1>4, <1>5, <1>6, StepKinds

LEMMA StepAcknowledges ==
    ASSUME TypeOK, TypeOK', DirectionInv, TakenWasSent, Next, NEW e \in Side
    PROVE  /\ reliable_buf[e] # <<>> /\ reliable_buf'[e] = <<>> => InFlight(e) = <<>>
           /\ incoming_acknowledged'[e] # incoming_acknowledged[e]
                 => incoming_acknowledged'[e] < outgoing_sequence[e]
  <1>1. /\ Peer(e) \in Side /\ Peer(e) # e
        /\ \A d \in Side : d = e \/ d = Peer(e)
        /\ \A d \in Side : Peer(d) \in Side /\ Peer(d) # d /\ Peer(Peer(d)) = d
    BY PeerOfPeer
  <1>2. CASE \E d \in Side, msgs \in Seq(Msg) : Transmit(d, msgs)
    <2>1. PICK d \in Side, msgs \in Seq(Msg) : Transmit(d, msgs)
      BY <1>2
    <2>2. PICK rel \in BOOLEAN, data \in Seq(Msg) :
              Transmits(d, Peer(d), msgs, rel, data)
      BY <1>1, <2>1, TransmitEffect
    <2>3. reliable_buf[e] # <<>> => reliable_buf'[e] = reliable_buf[e]
      BY <1>1, <2>2 DEF Transmits
    <2>4. incoming_acknowledged' = incoming_acknowledged
      BY <2>1 DEF Transmit, received
    <2> QED
      BY <2>3, <2>4
  <1>3. ASSUME NEW d \in Side, NEW k \in net[d], Process(d, k)
        PROVE  /\ reliable_buf[e] # <<>> /\ reliable_buf'[e] = <<>> => InFlight(e) = <<>>
               /\ incoming_acknowledged'[e] # incoming_acknowledged[e]
                     => incoming_acknowledged'[e] < outgoing_sequence[e]
    <2>1. Receives(d, Peer(d), k)
      BY <1>1, <1>3, ProcessEffect
    <2>2. CASE d = Peer(e)
      BY <1>1, <2>1, <2>2 DEF Receives
    <2>3. CASE d = e
      <3>1. k \in Live(e)
        BY <1>3, <2>3 DEF Live, Process
      <3>2. Direction(e)
        BY DEF DirectionInv
      <3>3. reliable_buf[e] # <<>> /\ reliable_buf'[e] = <<>> => InFlight(e) = <<>>
        <4>1. reliable_buf[e] # <<>> /\ reliable_buf'[e] = <<>> =>
                 k.relack = reliable_sequence[e]
          BY <2>1, <2>3 DEF Receives
        <4>2. k.relack = reliable_sequence[e] => ~Missing(e)
          BY <3>1, <3>2 DEF Direction, AcknowledgedInOrder
        <4> QED
          BY <4>1, <4>2, InFlightOfMissing
      <3>4. incoming_acknowledged'[e] # incoming_acknowledged[e]
               => incoming_acknowledged'[e] < outgoing_sequence[e]
        <4>1. incoming_acknowledged'[e] = k.ack
          BY <2>1, <2>3 DEF Receives
        <4>2. /\ k.ack <= incoming_sequence[Peer(e)]
              /\ incoming_acknowledged[e] <= incoming_sequence[Peer(e)]
              /\ incoming_sequence[Peer(e)] <= outgoing_sequence[e]
          BY <2>3, <3>2 DEF Direction, AcknowledgesTruly, Numbered
        <4>3. incoming_sequence[Peer(e)] # 0 =>
                 incoming_sequence[Peer(e)] < outgoing_sequence[e]
          BY DEF TakenWasSent
        <4>4. /\ k.ack \in Nat /\ incoming_acknowledged[e] \in Nat
              /\ incoming_sequence[Peer(e)] \in Nat /\ outgoing_sequence[e] \in Nat
          BY <1>1, <2>3, TypeOfPacket, TypeOfSide
        <4> QED
          BY <4>1, <4>2, <4>3, <4>4
      <3> QED
        BY <3>3, <3>4
    <2> QED
      BY <1>1, <2>2, <2>3
  <1>4. CASE UNCHANGED chan
    BY <1>4 DEF chan, received
  <1> QED
    BY <1>2, <1>3, <1>4, StepKinds

(* Netchan_Process clears reliable_length only for a block its peer has    *)
(* been handed, and takes nothing for acknowledged that it has not sent:   *)
(* one bit and a number that may be old are enough.                        *)
THEOREM AcknowledgementsAreSound == Spec => FreedOnlyWhenDelivered /\ AcknowledgesOnlySent
  <1>1. Init => TakenWasSent
    BY PeerOfPeer DEF Init, TakenWasSent
  <1>2. TypeOK /\ TypeOK' /\ DirectionInv /\ TakenWasSent /\ [Next]_vars =>
           [\A e \in Side :
              reliable_buf[e] # <<>> /\ reliable_buf'[e] = <<>> => InFlight(e) = <<>>]_vars
    BY StepAcknowledges
  <1>3. TypeOK /\ TypeOK' /\ DirectionInv /\ TakenWasSent /\ [Next]_vars =>
           [\A e \in Side :
              incoming_acknowledged'[e] # incoming_acknowledged[e]
                 => incoming_acknowledged'[e] < outgoing_sequence[e]]_vars
    BY StepAcknowledges
  <1> QED
    BY <1>1, <1>2, <1>3, TypeCorrect, DirectionCorrect, TakenWasSentInvariance, PTL
       DEF Spec, FreedOnlyWhenDelivered, AcknowledgesOnlySent
=============================================================================
