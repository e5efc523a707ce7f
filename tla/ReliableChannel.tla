-------------------------- MODULE ReliableChannel --------------------------
(***************************************************************************)
(* What a QuakeWorld netchan promises to the code above it, one FIFO per   *)
(* direction: every message written is handed to the other side exactly    *)
(* once and in order, in blocks of one or more messages, unless the writer *)
(* itself throws away the tail that has not been handed over (SZ_Clear of  *)
(* netchan.message, done by the server when signon restarts, and by        *)
(* SZ_GetSpace when a message does not fit).  Nothing handed over is ever  *)
(* taken back, repeated or reordered.                                      *)
(*                                                                         *)
(* Netchan implements this specification.                                  *)
(***************************************************************************)
EXTENDS Naturals, Sequences

CONSTANTS
    Side,       \* the two ends of the connection
    Msg         \* the reliable messages

VARIABLES
    written,    \* written[e]: the messages e has written and not discarded
    delivered   \* delivered[e]: those of them handed to the other side

vars == <<written, delivered>>

Init ==
    /\ written = [e \in Side |-> <<>>]
    /\ delivered = [e \in Side |-> <<>>]

(* e discards an undelivered tail of what it wrote (possibly nothing). *)
Kept(e) ==
    {SubSeq(written[e], 1, n) : n \in Len(delivered[e]) .. Len(written[e])}

(* A message is written after what is kept. *)
Write(e, m) ==
    /\ \E s \in Kept(e) : written' = [written EXCEPT ![e] = Append(s, m)]
    /\ UNCHANGED delivered

Discard(e) ==
    /\ \E s \in Kept(e) : written' = [written EXCEPT ![e] = s]
    /\ UNCHANGED delivered

(* The other side is handed the next block. *)
Deliver(e) ==
    /\ \E n \in Len(delivered[e]) + 1 .. Len(written[e]) :
          delivered' = [delivered EXCEPT ![e] = SubSeq(written[e], 1, n)]
    /\ UNCHANGED written

Next ==
    \E e \in Side :
        \/ \E m \in Msg : Write(e, m)
        \/ Discard(e)
        \/ Deliver(e)

Spec == Init /\ [][Next]_vars
=============================================================================
