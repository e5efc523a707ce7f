------------------------------ MODULE Netchan ------------------------------
(***************************************************************************)
(* The netchan of net_chan.c between a client and the server: a reliable   *)
(* stream and an unreliable one over datagrams that may be lost, repeated, *)
(* delayed and reordered.  One block of reliable messages is outstanding   *)
(* at a time; a single bit on each packet says which block it acknowledges *)
(* and a retransmission is decided from packet sequence numbers alone.     *)
(*                                                                         *)
(* Both ends run the same code; the server adds two rules of its own       *)
(* (SV_ExecuteClientMessage, SV_SendClientMessages): it answers at most    *)
(* once per packet received and it moves its own sequence number up to     *)
(* the client's, so that ping can be read off the numbers.                 *)
(*                                                                         *)
(* The unreliable part of a packet is left out: it has no state.  Sequence *)
(* numbers are 31 bits in the code and never wrap in a session.            *)
(***************************************************************************)
EXTENDS Integers, Sequences, FiniteSets

CONSTANTS
    Msg,            \* reliable messages (svc_* and clc_* blocks)
    MaxMessage,     \* messages that fit in netchan.message
    MaxWritten,     \* bound: messages each side writes
    MaxSequence     \* bound: packets sent in one direction

ASSUME MaxMessageAssumption == MaxMessage \in Nat \ {0}
ASSUME MaxSequenceAssumption == MaxSequence \in Nat

Side == {"client", "server"}
Peer(e) == IF e = "client" THEN "server" ELSE "client"

ASSUME MaxWrittenAssumption == MaxWritten \in [Side -> Nat]

Bit == {0, 1}

(* w1 and w2 of the header, with the top bits apart, and the reliable part. *)
Packet == [seq : Nat, rel : BOOLEAN, ack : Nat, relack : Bit, data : Seq(Msg)]

VARIABLES
    incoming_sequence,              \* the fields of netchan_t, for each side
    incoming_acknowledged,
    incoming_reliable_acknowledged,
    incoming_reliable_sequence,
    outgoing_sequence,
    reliable_sequence,
    last_reliable_sequence,
    message,                        \* netchan.message: written, not yet sent
    overflowed,                     \* netchan.message.overflowed
    reliable_buf,                   \* <<>> when reliable_length is 0
    send_message,                   \* client_t.send_message of the server
    net,                            \* net[e]: packets sent to e, not stale yet
    written,                        \* history: what e wrote and did not discard
    delivered                       \* history: what e's peer was handed of it

received == <<incoming_sequence, incoming_acknowledged,
              incoming_reliable_acknowledged, incoming_reliable_sequence>>
chan == <<received, outgoing_sequence, reliable_sequence,
          last_reliable_sequence, reliable_buf>>
vars == <<chan, message, overflowed, send_message, net, written, delivered>>

-----------------------------------------------------------------------------
(* Netchan_Setup on both sides: memset to 0, message may overflow. *)
Init ==
    /\ incoming_sequence = [e \in Side |-> 0]
    /\ incoming_acknowledged = [e \in Side |-> 0]
    /\ incoming_reliable_acknowledged = [e \in Side |-> 0]
    /\ incoming_reliable_sequence = [e \in Side |-> 0]
    /\ outgoing_sequence = [e \in Side |-> 0]
    /\ reliable_sequence = [e \in Side |-> 0]
    /\ last_reliable_sequence = [e \in Side |-> 0]
    /\ message = [e \in Side |-> <<>>]
    /\ overflowed = [e \in Side |-> FALSE]
    /\ reliable_buf = [e \in Side |-> <<>>]
    /\ send_message = FALSE
    /\ net = [e \in Side |-> {}]
    /\ written = [e \in Side |-> <<>>]
    /\ delivered = [e \in Side |-> <<>>]

(* Mutant: the bit is counted up, not toggled. *)
FlipByCounting(b) == b + 1

(* ^= 1 on reliable_sequence and incoming_reliable_sequence. *)
Flip(b) == 1 - b

(* What remains of e's writes when SZ_Clear empties its message. *)
Uncleared(e) == SubSeq(written[e], 1, Len(written[e]) - Len(message[e]))

(* MSG_Write* to netchan.message when there is room. *)
Write(e, m) ==
    /\ Len(written[e]) < MaxWritten[e]
    /\ Len(message[e]) < MaxMessage
    /\ message' = [message EXCEPT ![e] = Append(@, m)]
    /\ written' = [written EXCEPT ![e] = Append(@, m)]
    /\ UNCHANGED <<chan, overflowed, send_message, net, delivered>>

(* SZ_GetSpace when there is none: the buffer is cleared, marked, and the  *)
(* write goes to its start.                                                *)
WriteOverflow(e, m) ==
    /\ Len(message[e]) = MaxMessage
    /\ message' = [message EXCEPT ![e] = <<m>>]
    /\ overflowed' = [overflowed EXCEPT ![e] = TRUE]
    /\ written' = [written EXCEPT ![e] = Append(Uncleared(e), m)]
    /\ UNCHANGED <<chan, send_message, net, delivered>>

(* The server empties a client's message when signon starts again: SZ_Clear *)
(* in Cmd_Spawn_f, SV_ClearReliable, Cmd_New_f.                             *)
ClearReliable ==
    /\ message' = [message EXCEPT !["server"] = <<>>]
    /\ overflowed' = [overflowed EXCEPT !["server"] = FALSE]
    /\ written' = [written EXCEPT !["server"] = Uncleared("server")]
    /\ UNCHANGED <<chan, send_message, net, delivered>>

-----------------------------------------------------------------------------
(* Mutant: any acknowledgement with the wrong bit counts as a loss. *)
RemoteDroppedOnAnyAck(e) ==
    incoming_reliable_acknowledged[e] # reliable_sequence[e]

(* Mutant: the comparison of the bits the wrong way round. *)
RemoteDroppedInverted(e) ==
    /\ incoming_acknowledged[e] > last_reliable_sequence[e]
    /\ incoming_reliable_acknowledged[e] = reliable_sequence[e]

(* The remote side dropped the last reliable block: a packet after the one *)
(* that carried it has been acknowledged, with the wrong bit.              *)
RemoteDropped(e) ==
    /\ incoming_acknowledged[e] > last_reliable_sequence[e]
    /\ incoming_reliable_acknowledged[e] # reliable_sequence[e]

(* The packet e puts on the network for its peer. *)
PacketOf(e, rel, data) ==
    [seq |-> outgoing_sequence[e], rel |-> rel,
     ack |-> incoming_sequence[e],
     relack |-> incoming_reliable_sequence[e],
     data |-> IF rel THEN data ELSE <<>>]

(* Send a packet whose reliable part, if it has one, is data. *)
Send(e, rel, data) ==
    /\ outgoing_sequence' = [outgoing_sequence EXCEPT ![e] = @ + 1]
    /\ last_reliable_sequence' =
          IF rel
          THEN [last_reliable_sequence EXCEPT ![e] = outgoing_sequence[e] + 1]
          ELSE last_reliable_sequence
    /\ net' = [net EXCEPT ![Peer(e)] = @ \union {PacketOf(e, rel, data)}]

(* Netchan_Transmit, for a message that has not overflowed and holds msgs. *)
Transmit(e, msgs) ==
    /\ outgoing_sequence[e] < MaxSequence
    /\ \/ /\ reliable_buf[e] = <<>>
          /\ msgs # <<>>
          /\ reliable_buf' = [reliable_buf EXCEPT ![e] = msgs]
          /\ reliable_sequence' = [reliable_sequence EXCEPT ![e] = Flip(@)]
          /\ message' = [message EXCEPT ![e] = <<>>]
          /\ Send(e, TRUE, msgs)
       \/ /\ reliable_buf[e] # <<>> \/ msgs = <<>>
          /\ message' = [message EXCEPT ![e] = msgs]
          /\ Send(e, RemoteDropped(e), reliable_buf[e])
          /\ UNCHANGED <<reliable_buf, reliable_sequence>>
    /\ UNCHANGED <<received, delivered>>

(* The client sends one packet a frame, whatever it has received. *)
ClientTransmit ==
    /\ ~overflowed["client"]
    /\ Transmit("client", message["client"])
    /\ UNCHANGED <<overflowed, send_message, written>>

(* SV_SendClientMessages, for a message in order: one answer to the packet *)
(* received, or none when the bandwidth is choked.                         *)
ServerTransmit ==
    /\ send_message
    /\ ~overflowed["server"]
    /\ send_message' = FALSE
    /\ Transmit("server", message["server"])
    /\ UNCHANGED <<overflowed, written>>

ServerChoke ==
    /\ send_message
    /\ ~overflowed["server"]
    /\ send_message' = FALSE
    /\ UNCHANGED <<chan, message, overflowed, net, written, delivered>>

(* SV_SendClientMessages, for a message that overflowed: cleared, the drop *)
(* written in it (the broadcast and svc_disconnect, one message m here),   *)
(* and sent at once, choked or not.                                        *)
ServerDropOverflowed(m) ==
    /\ overflowed["server"]
    /\ overflowed' = [overflowed EXCEPT !["server"] = FALSE]
    /\ written' = [written EXCEPT !["server"] = Append(Uncleared("server"), m)]
    /\ send_message' = FALSE
    /\ Transmit("server", <<m>>)

(* SV_SendMessagesToAll: answer every client at the end of the frame. *)
SendMessagesToAll ==
    /\ send_message' = TRUE
    /\ UNCHANGED <<chan, message, overflowed, net, written, delivered>>

-----------------------------------------------------------------------------
(* Mutant: a packet with the number of the last one is taken again. *)
StaleOnlyIfOlder(e, k) == k.seq < incoming_sequence[e]

(* Stale or duplicated packets are discarded. *)
Stale(e, k) == k.seq <= incoming_sequence[e]

(* Mutant: whatever acknowledges the packet acknowledges the block. *)
AcknowledgesByNumber(e, k) == k.ack >= last_reliable_sequence[e]

(* Packet k says that the block in reliable_buf has been received. *)
Acknowledges(e, k) == k.relack = reliable_sequence[e]

(* Netchan_Process for packet k, which the network hands to e: gaps are    *)
(* not waited for.  A packet that has become stale leaves net: it can have *)
(* no effect any more.  One that stays may be delivered at any later time  *)
(* or never.                                                               *)
Process(e, k) ==
    /\ ~Stale(e, k)
    /\ reliable_buf' = IF Acknowledges(e, k)
                       THEN [reliable_buf EXCEPT ![e] = <<>>]
                       ELSE reliable_buf
    /\ incoming_sequence' = [incoming_sequence EXCEPT ![e] = k.seq]
    /\ incoming_acknowledged' = [incoming_acknowledged EXCEPT ![e] = k.ack]
    /\ incoming_reliable_acknowledged' =
          [incoming_reliable_acknowledged EXCEPT ![e] = k.relack]
    /\ incoming_reliable_sequence' =
          IF k.rel
          THEN [incoming_reliable_sequence EXCEPT ![e] = Flip(@)]
          ELSE incoming_reliable_sequence
    /\ delivered' = IF k.rel
                    THEN [delivered EXCEPT ![Peer(e)] = @ \o k.data]
                    ELSE delivered
    /\ net' = [net EXCEPT ![e] = {n \in @ : ~Stale(e, n)'}]
    /\ UNCHANGED <<reliable_sequence, last_reliable_sequence, message,
                   overflowed, written>>

ClientProcess ==
    /\ \E k \in net["client"] : Process("client", k)
    /\ UNCHANGED <<outgoing_sequence, send_message>>

(* Mutant: the server always takes over the client's number. *)
ServerAnswersAlways(seq) == seq >= 0

(* The client's packet seq is not behind the server's own numbers. *)
ServerAnswers(seq) == seq >= outgoing_sequence["server"]

(* SV_ExecuteClientMessage: keep the server's sequence number in step with *)
(* the client's, or stay silent when it has slipped ahead.                 *)
ServerProcess ==
    \E k \in net["server"] :
        /\ Process("server", k)
        /\ send_message' = ServerAnswers(k.seq)
        /\ outgoing_sequence' =
              IF ServerAnswers(k.seq)
              THEN [outgoing_sequence EXCEPT !["server"] = k.seq]
              ELSE outgoing_sequence

-----------------------------------------------------------------------------
Next ==
    \/ \E e \in Side, m \in Msg : Write(e, m) \/ WriteOverflow(e, m)
    \/ ClearReliable
    \/ ClientTransmit
    \/ ServerTransmit
    \/ ServerChoke
    \/ \E m \in Msg : ServerDropOverflowed(m)
    \/ SendMessagesToAll
    \/ ClientProcess
    \/ ServerProcess

Spec == Init /\ [][Next]_vars

-----------------------------------------------------------------------------
TypeOK ==
    /\ incoming_sequence \in [Side -> Nat]
    /\ incoming_acknowledged \in [Side -> Nat]
    /\ incoming_reliable_acknowledged \in [Side -> Bit]
    /\ incoming_reliable_sequence \in [Side -> Bit]
    /\ outgoing_sequence \in [Side -> Nat]
    /\ reliable_sequence \in [Side -> Bit]
    /\ last_reliable_sequence \in [Side -> Nat]
    /\ message \in [Side -> Seq(Msg)]
    /\ overflowed \in [Side -> BOOLEAN]
    /\ reliable_buf \in [Side -> Seq(Msg)]
    /\ send_message \in BOOLEAN
    /\ net \in [Side -> SUBSET Packet]
    /\ written \in [Side -> Seq(Msg)]
    /\ delivered \in [Side -> Seq(Msg)]

(* The block e has put on the network and its peer has not been handed.    *)
(* Neither side can see this: e does not know what arrived.                *)
InFlight(e) ==
    IF reliable_sequence[e] = incoming_reliable_sequence[Peer(e)]
    THEN <<>>
    ELSE reliable_buf[e]

(* Every message is handed over exactly once and in order: what was handed *)
(* over, the block in flight and the message buffer are, end to end, what  *)
(* was written.  Netchan_Process flips one bit per reliable packet and     *)
(* never compares the block with the previous one, so this rests on        *)
(* Netchan_Transmit resending only when it must (net_chan.c 255-269).      *)
ExactlyOnceInOrder ==
    \A e \in Side : written[e] = delivered[e] \o InFlight(e) \o message[e]

(* A block is sent again only if the peer has not been handed it, although *)
(* what the sender goes by is an acknowledgement that may be old           *)
(* (net_chan.c 44-46).                                                     *)
ResendsOnlyWhatIsMissing ==
    [][\A e \in Side :
          (\E k \in net'[Peer(e)] \ net[Peer(e)] : k.rel)
             /\ reliable_buf[e] # <<>>
          => InFlight(e) # <<>>]_vars

(* reliable_length is cleared only for a block the peer was handed: an     *)
(* acknowledgement bit left over from two blocks ago never frees it.       *)
FreedOnlyWhenDelivered ==
    [][\A e \in Side :
          reliable_buf[e] # <<>> /\ reliable_buf'[e] = <<>>
             => InFlight(e) = <<>>]_vars

(* The packet that is still acceptable to the peer and carries a block is  *)
(* unique: a second one would flip the peer's bit back.                    *)
OneLiveReliablePacket ==
    \A e \in Side :
        \A k1, k2 \in {k \in net[e] : k.rel /\ k.seq > incoming_sequence[e]} :
            k1 = k2

(* A side never has two packets under way with one sequence number,        *)
(* although the server moves its own number up to the client's             *)
(* (sv_user.c 3845-3849): the peer would drop one of them as a duplicate.  *)
SequenceNumbersAreFresh ==
    \A e \in Side : \A k1, k2 \in net[e] : k1.seq = k2.seq => k1 = k2

(* A packet that acknowledges one never sent has an illogical number and   *)
(* is dropped (net_chan.c 67): what a side accepts as acknowledged it has  *)
(* sent.                                                                   *)
AcknowledgesOnlySent ==
    [][\A e \in Side :
          incoming_acknowledged'[e] # incoming_acknowledged[e]
             => incoming_acknowledged'[e] < outgoing_sequence[e]]_vars

Channel == INSTANCE ReliableChannel WITH
    Side <- Side, Msg <- Msg, written <- written, delivered <- delivered
ImplementsReliableChannel == Channel!Spec
=============================================================================
