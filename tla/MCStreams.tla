----------------------------- MODULE MCStreams -----------------------------
(***************************************************************************)
(* What goes into and out of the server beside the packets of the game:    *)
(* the packets that are held back (DelayedPackets), the recorder of demos, *)
(* the connections of QTV proxies and the tunnel of a client behind qizmo, *)
(* side by side; part says which of them goes on.  A part that does not    *)
(* waits in a state with nothing to do.                                    *)
(***************************************************************************)
EXTENDS DelayedPackets, MvdRecorder, QtvStreams, TcpTunnel

VARIABLE part

others == <<recorder, qtv, tcp>>

(* Headers of proxies that are let in, refused and asked for a password.   *)
Asks(auth, password, version, name) ==
    [auth |-> auth, password |-> password, version |-> version, name |-> name]
Requests == {Asks("MD4", "right", TRUE, "q"), Asks("PLAIN", "right", TRUE, "none"),
             Asks("MD4", "none", TRUE, "q"), Asks("PLAIN", "wrong", TRUE, "q")}

(* Packets of every length that the buffers make a difference to. *)
FromProxy == <<1, 2, 4, 1>>
ToProxy == <<2, 1, 1>>

NobodyHeldBack == Init /\ delay = [s \in Slot |-> 0]
NoTcp == TcpInit /\ stream.in = <<Greeting>>

InitEach ==
    /\ RecorderInit /\ QtvInit
    /\ \/ part = "packets" /\ Init /\ NoTcp
       \/ part \in {"recorder", "qtv"} /\ NobodyHeldBack /\ NoTcp
       \/ part = "tcp" /\ NobodyHeldBack /\ TcpInit

NextEach ==
    /\ part' = part
    /\ \/ part = "packets" /\ Next /\ UNCHANGED others
       \/ part = "recorder" /\ RecorderNext /\ UNCHANGED <<vars, qtv, tcp>>
       \/ part = "qtv" /\ QtvNext /\ UNCHANGED <<vars, recorder, tcp>>
       \/ part = "tcp" /\ TcpNext /\ UNCHANGED <<vars, recorder, qtv>>

(* Fairness of DelayedPackets and of QtvStreams. *)
FairnessEach ==
    /\ WF_vars(part = "packets" /\ Frame)
    /\ WF_qtv(part = "qtv" /\ PollClosed)
    /\ WF_qtv(part = "qtv" /\ FlushDests)
    /\ WF_qtv(part = "qtv" /\ SilentFrame)

SpecEach == InitEach /\ [][NextEach]_<<part, vars, others>> /\ FairnessEach
=============================================================================
