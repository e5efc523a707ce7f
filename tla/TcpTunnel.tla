----------------------------- MODULE TcpTunnel -----------------------------
(***************************************************************************)
(* A client behind a qizmo proxy (net.c): its packets come and go through  *)
(* one TCP connection, each behind its length, and TCP gives and takes     *)
(* them in pieces of any size.                                             *)
(*                                                                         *)
(* A packet is a header and as many further units as its length says; the  *)
(* greeting of the proxy is a unit of its own.                             *)
(***************************************************************************)
EXTENDS Integers, Sequences

CONSTANTS
    Lengths,        \* lengths of the packets the proxy sends, in order
    Replies,        \* ... and of those the server sends
    MaxPacket,      \* net_message.maxsize
    InSize,         \* sizeof st->inbuffer
    OutSize         \* sizeof st->outbuffer

ASSUME TcpAssumption ==
    /\ Lengths \in Seq(Nat) /\ Replies \in Seq(Nat)
    /\ InSize \in Nat /\ OutSize \in Nat /\ MaxPacket \in Nat

VARIABLES
    wire,           \* what TCP has taken from the proxy and not delivered
    stream,         \* the svtcpstream_t
    received,       \* history: packets handed to the server
    returned,       \* history: what TCP has delivered to the proxy
    replied,        \* replies so far
    accepted        \* history: what was put in the buffer, reply after reply

tcp == <<wire, stream, received, returned, replied, accepted>>

Greeting == <<0, 0>>
Units(p, length) == [i \in 1..length + 1 |-> <<p, i - 1>>]

(* What the proxy says from packet p on. *)
From[p \in 1..Len(Lengths) + 1] ==
    IF p > Len(Lengths) THEN <<>> ELSE Units(p, Lengths[p]) \o From[p + 1]

(* sv_tcp_connection_new: the greeting has come, with some of the rest.    *)
(* The proxy sends all it has to say.                                      *)
TcpInit ==
    LET all == <<Greeting>> \o From[1]
    IN \E n \in 1..Len(all) :
          /\ n < InSize
          /\ wire = SubSeq(all, n + 1, Len(all))
          /\ stream = [in |-> SubSeq(all, 1, n), out |-> <<>>,
                       waiting |-> TRUE, drop |-> FALSE, open |-> TRUE]
          /\ received = <<>> /\ returned = <<>>
          /\ replied = 0 /\ accepted = <<>>

Alive == stream.open /\ ~stream.drop

(* Mutant: the bytes of the length count as part of the packet. *)
CompleteWithLength(length, buffer) == length <= Len(buffer)
Complete(length, buffer) == length + 1 <= Len(buffer)

(* NET_GetTCPPacket_SV after recv has left in in the buffer: the greeting  *)
(* is taken off, and one packet if it is there.                            *)
Unpack(in) ==
    LET greeted == ~stream.waiting \/ in[1] = Greeting
        rest    == IF stream.waiting THEN Tail(in) ELSE in
        length  == Lengths[rest[1][1]]
    IN IF in = <<>> THEN [stream EXCEPT !.in = in]
       ELSE IF ~greeted THEN [stream EXCEPT !.drop = TRUE]
       ELSE IF rest # <<>> /\ length >= MaxPacket THEN [stream EXCEPT !.drop = TRUE]
       ELSE [stream EXCEPT !.waiting = FALSE,
                !.in = IF rest # <<>> /\ Complete(length, rest)
                       THEN SubSeq(rest, length + 2, Len(rest)) ELSE rest]

Handed(in, left) ==
    LET rest == IF stream.waiting THEN Tail(in) ELSE in
    IN SubSeq(rest, 1, Len(rest) - Len(left))

(* The server looks for a packet: recv brings any part of what has come    *)
(* and fits, or nothing.                                                   *)
GetPacket ==
    /\ Alive
    /\ Len(stream.in) < InSize
    /\ \E n \in 0..Len(wire) :
          LET in == stream.in \o SubSeq(wire, 1, n)
              st == Unpack(in)
          IN /\ Len(in) <= InSize
             /\ stream' = st
             /\ wire' = SubSeq(wire, n + 1, Len(wire))
             /\ received' = IF st.drop \/ in = <<>> \/ Handed(in, st.in) = <<>>
                            THEN received
                            ELSE Append(received, Handed(in, st.in))
    /\ UNCHANGED <<returned, replied, accepted>>

(* ... and finds the connection closed, broken or silent for too long, or  *)
(* the buffer full of a packet that is not complete: recv into no room     *)
(* returns what it returns at the end.                                     *)
Broken ==
    /\ Alive
    /\ stream' = [stream EXCEPT !.drop = TRUE]
    /\ UNCHANGED <<wire, received, returned, replied, accepted>>

(* sv_tcp_connection_free, the next time the server looks for packets.     *)
Free ==
    /\ stream.open
    /\ stream.drop
    /\ stream' = [stream EXCEPT !.open = FALSE]
    /\ UNCHANGED <<wire, received, returned, replied, accepted>>

(* NET_SendTCPPacket_SV: a packet that does not fit the buffer is lost;    *)
(* else TCP takes any part of the buffer, or fails.                        *)
SendPacket ==
    /\ stream.open
    /\ replied < Len(Replies)
    /\ replied' = replied + 1
    /\ LET units == Units(replied', Replies[replied'])
           out   == stream.out \o units
       IN IF Len(out) >= OutSize
          THEN UNCHANGED <<stream, returned, accepted>>
          ELSE /\ accepted' = accepted \o units
               /\ \/ \E n \in 0..Len(out) :
                        /\ stream' = [stream EXCEPT !.out = SubSeq(out, n + 1, Len(out))]
                        /\ returned' = returned \o SubSeq(out, 1, n)
                  \/ /\ stream' = [stream EXCEPT !.out = out, !.drop = TRUE]
                     /\ UNCHANGED returned
    /\ UNCHANGED <<wire, received>>

TcpNext == GetPacket \/ Broken \/ Free \/ SendPacket

TcpSpec == TcpInit /\ [][TcpNext]_tcp

-----------------------------------------------------------------------------
(* However TCP cuts it up, what is handed over are the packets that were   *)
(* sent, each whole and in order, and what the proxy gets are the replies  *)
(* that were accepted, as far as they have come.                           *)
FramesWhole ==
    /\ \A i \in DOMAIN received : received[i] = Units(i, Lengths[i])
    /\ Len(returned) <= Len(accepted)
    /\ returned = SubSeq(accepted, 1, Len(returned))
=============================================================================
