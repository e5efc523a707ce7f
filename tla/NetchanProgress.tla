-------------------------- MODULE NetchanProgress --------------------------
(***************************************************************************)
(* The netchan when a round trip is shorter than the client's frame and at *)
(* most MaxLoss packets are lost: everything written arrives.  Netchan     *)
(* has the overlapping exchanges; here each frame of the client is a round *)
(* of its own, so that enough of them fit to recover from the losses.  The *)
(* sequence bound is large enough never to be what stops the exchange.     *)
(***************************************************************************)
EXTENDS Netchan

CONSTANTS
    MaxLoss     \* bound: packets lost, or not sent because of a choke

VARIABLE losses

pvars == <<vars, losses>>

(* The oldest packet under way, and no other, is taken from net[e]. *)
TakesOldest(e) == \E k \in net[e] : net' = [net EXCEPT ![e] = @ \ {k}]

Lose ==
    /\ losses < MaxLoss
    /\ losses' = losses + 1
    /\ \E e \in Side : TakesOldest(e)
    /\ UNCHANGED <<chan, message, overflowed, send_message, written, delivered>>

Choke ==
    /\ losses < MaxLoss
    /\ losses' = losses + 1
    /\ ServerChoke

WriteSome ==
    /\ \E e \in Side, m \in Msg : Write(e, m)
    /\ UNCHANGED losses

(* Netchan_Process returns false: the packet was stale when it arrived. *)
DiscardStale ==
    /\ \E e \in Side : \E k \in net[e] :
          /\ Stale(e, k)
          /\ net' = [net EXCEPT ![e] = @ \ {k}]
    /\ UNCHANGED <<chan, message, overflowed, send_message, written, delivered,
                   losses>>

(* Both sides write as soon as there is room. *)
AllWritten ==
    \A e \in Side : Len(message[e]) = MaxMessage \/ Len(written[e]) = MaxWritten[e]

(* The client's next frame comes after the last round trip; frames that    *)
(* would find nothing left to deliver are left out.                        *)
ClientFrame ==
    /\ AllWritten
    /\ delivered # written
    /\ net = [e \in Side |-> {}]
    /\ ~send_message
    /\ ClientTransmit
    /\ UNCHANGED losses

ServerFrame == ServerTransmit /\ UNCHANGED losses

ClientReceives == ClientProcess /\ TakesOldest("client") /\ UNCHANGED losses
ServerReceives == ServerProcess /\ TakesOldest("server") /\ UNCHANGED losses

PInit == Init /\ losses = 0

PNext ==
    \/ WriteSome
    \/ ClientFrame
    \/ ServerFrame
    \/ ClientReceives
    \/ ServerReceives
    \/ DiscardStale
    \/ Choke
    \/ Lose

PFairness ==
    /\ WF_pvars(WriteSome)
    /\ WF_pvars(ClientFrame)
    /\ WF_pvars(ServerFrame)
    /\ WF_pvars(ClientReceives)
    /\ WF_pvars(ServerReceives)
    /\ WF_pvars(DiscardStale)

PSpec == PInit /\ [][PNext]_pvars /\ PFairness

-----------------------------------------------------------------------------
(* However packets are lost, as long as it stops, everything either side   *)
(* writes reaches the other.  The first packet of a connection never       *)
(* counts: its number is not above the peer's initial incoming_sequence.   *)
EverythingArrives ==
    \A e \in Side : <>(Len(delivered[e]) = MaxWritten[e])
=============================================================================
