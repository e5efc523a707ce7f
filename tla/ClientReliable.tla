--------------------------- MODULE ClientReliable ---------------------------
(***************************************************************************)
(* The reliable stream of the server to one client, above the netchan:     *)
(* sv_nchan.c and the part of SV_SendClientMessages that feeds it.         *)
(*                                                                         *)
(* A block goes to netchan.message while it fits and no backbuf is in use; *)
(* otherwise to the last of up to MAX_BACK_BUFFERS backbufs, and one       *)
(* backbuf a frame moves to netchan.message.  When all are full the client *)
(* is to be dropped.  What the server has to say to everybody collects in  *)
(* sv.reliable_datagram and reaches each client once a frame as one block. *)
(*                                                                         *)
(* The other clients are the environment: what they do to this one is a    *)
(* Write or a WriteDatagram.  The netchan is reduced to one outstanding    *)
(* buffer (module Netchan shows what it does with it).                     *)
(***************************************************************************)
EXTENDS Integers, SequencesExt

CONSTANTS
    MaxMessage,     \* netchan.message.maxsize, 1350 to 1450 by the client's mtu
    MaxDatagram,    \* sv.reliable_datagram.maxsize, 1450
    MaxBackbuf,     \* MAX_BACK_BUFFERS
    BlockSize,      \* sizes of the blocks written by ClientReliableWrite_*
    DatagramSize,   \* sizes of what is written to sv.reliable_datagram
    MaxWritten,     \* bound: blocks written
    MayRespawn      \* whether the client may repeat its signon

ASSUME BlocksAssumption ==
    BlockSize \subseteq Nat /\ DatagramSize \subseteq Nat /\ MaxBackbuf \in Nat \ {0}

VARIABLES
    client,             \* the client_t
    reliable_datagram,  \* sv.reliable_datagram
    error,              \* the Sys_Error that ended the server, or "none"
    queued,             \* history: blocks accepted in order, not discarded
    sent,               \* history: blocks handed to the netchan
    ids                 \* blocks written so far

reliable == <<client, reliable_datagram, error, queued, sent, ids>>

Block(id, size, kind) == [id |-> id, size |-> size, kind |-> kind]
Disconnect == Block(0, 1, "disconnect")     \* svc_disconnect
Overflowed == Block(0, 1, "overflowed")     \* "%s overflowed\n"
FullClientUpdate == Block(0, 1, "update")   \* of the client being dropped

SizeOf(s) ==
    LET size[i \in 0..Len(s)] == IF i = 0 THEN 0 ELSE size[i - 1] + s[i].size
    IN size[Len(s)]

ReliableInit ==
    /\ client = [state |-> "active", message |-> <<>>, overflowed |-> FALSE,
                 backbuf |-> <<>>, allowoverflow |-> FALSE,
                 reliable_buf |-> <<>>]
    /\ reliable_datagram = <<>>
    /\ error = "none"
    /\ queued = <<>>
    /\ sent = <<>>
    /\ ids = 0

-----------------------------------------------------------------------------
(* Mutant: a block that fits netchan.message goes there, backbufs and all. *)
CheckBlockForgetful(c, n) ==
    IF \/ SizeOf(c.message) <= MaxMessage - n - 1
       \/ c.backbuf # <<>> /\ SizeOf(Last(c.backbuf)) <= MaxMessage - n - 1
    THEN IF SizeOf(c.message) <= MaxMessage - n - 1
         THEN [c EXCEPT !.backbuf = <<>>] ELSE c
    ELSE IF Len(c.backbuf) = MaxBackbuf
    THEN [c EXCEPT !.backbuf[MaxBackbuf] = <<>>, !.overflowed = TRUE]
    ELSE [c EXCEPT !.backbuf = Append(@, <<>>), !.allowoverflow = TRUE]

(* Mutant: room in netchan.message is taken for room in the backbuf.       *)
CheckBlockByMessage(c, n) ==
    IF \/ SizeOf(c.message) <= MaxMessage - n - 1
       \/ c.backbuf # <<>> /\ SizeOf(Last(c.backbuf)) <= MaxMessage - n - 1
    THEN c
    ELSE IF Len(c.backbuf) = MaxBackbuf
    THEN [c EXCEPT !.backbuf[MaxBackbuf] = <<>>, !.overflowed = TRUE]
    ELSE [c EXCEPT !.backbuf = Append(@, <<>>), !.allowoverflow = TRUE]

(* Mutant: one backbuf more than there are.                                *)
CheckBlockOneMore(c, n) ==
    IF SizeOf(IF c.backbuf = <<>> THEN c.message ELSE Last(c.backbuf))
          <= MaxMessage - n - 1
    THEN c
    ELSE IF Len(c.backbuf) > MaxBackbuf
    THEN [c EXCEPT !.backbuf[MaxBackbuf] = <<>>, !.overflowed = TRUE]
    ELSE [c EXCEPT !.backbuf = Append(@, <<>>), !.allowoverflow = TRUE]

(* Mutant: running out of backbufs is not recorded.                        *)
CheckBlockSilent(c, n) ==
    IF SizeOf(IF c.backbuf = <<>> THEN c.message ELSE Last(c.backbuf))
          <= MaxMessage - n - 1
    THEN c
    ELSE IF Len(c.backbuf) = MaxBackbuf
    THEN [c EXCEPT !.backbuf[MaxBackbuf] = <<>>]
    ELSE [c EXCEPT !.backbuf = Append(@, <<>>), !.allowoverflow = TRUE]

(* ClientReliableCheckBlock: find a buffer with room for n bytes.          *)
CheckBlock(c, n) ==
    IF SizeOf(IF c.backbuf = <<>> THEN c.message ELSE Last(c.backbuf))
          <= MaxMessage - n - 1
    THEN c
    ELSE IF Len(c.backbuf) = MaxBackbuf
    THEN [c EXCEPT !.backbuf[MaxBackbuf] = <<>>, !.overflowed = TRUE]
    ELSE [c EXCEPT !.backbuf = Append(@, <<>>), !.allowoverflow = TRUE]

(* SZ_GetSpace on a buffer that holds s: what it dies of, or "none".       *)
SpaceError(s, bs, max, allowoverflow) ==
    CASE SizeOf(s) + SizeOf(bs) <= max -> "none"
      [] ~allowoverflow -> "overflow without allowoverflow set"
      [] SizeOf(bs) > max -> "is > full buffer size"
      [] OTHER -> "none"

(* SZ_Write to netchan.message.  *)
WriteMessage(c, bs) ==
    IF SizeOf(c.message) + SizeOf(bs) <= MaxMessage
    THEN [c EXCEPT !.message = @ \o bs]
    ELSE [c EXCEPT !.message = bs, !.overflowed = TRUE]

(* SZ_Write to the last backbuf and ClientReliable_FinishWrite. *)
WriteBackbuf(c, bs) ==
    LET k == Len(c.backbuf) IN
    IF SizeOf(c.backbuf[k]) + SizeOf(bs) <= MaxMessage
    THEN [c EXCEPT !.backbuf[k] = @ \o bs]
    ELSE [c EXCEPT !.backbuf[k] = bs, !.overflowed = TRUE]

(* ClientReliableWrite_*: one block into the buffer CheckBlock has found.  *)
Put(c, bs) ==
    IF c.backbuf = <<>> THEN WriteMessage(c, bs) ELSE WriteBackbuf(c, bs)

PutError(c, bs) ==
    IF c.backbuf = <<>>
    THEN SpaceError(c.message, bs, MaxMessage, TRUE)
    ELSE SpaceError(Last(c.backbuf), bs, MaxMessage, c.allowoverflow)

(* ClientReliableCheckBlock, then the writes. *)
ReliableWrite(c, bs) == Put(CheckBlock(c, SizeOf(bs)), bs)
ReliableWriteError(c, bs) == PutError(CheckBlock(c, SizeOf(bs)), bs)

-----------------------------------------------------------------------------
(* A print, a stufftext, an update for this client alone.                  *)
Write(size) ==
    LET b == Block(ids + 1, size, "block") IN
    /\ error = "none"
    /\ client.state = "active"
    /\ ids < MaxWritten
    /\ ids' = ids + 1
    /\ client' = ReliableWrite(client, <<b>>)
    /\ error' = ReliableWriteError(client, <<b>>)
    /\ queued' = Append(queued, b)
    /\ UNCHANGED <<reliable_datagram, sent>>

(* MSG_Write* straight to netchan.message, backbufs or not: sv_login.c,    *)
(* central.c and the signon commands.                                      *)
WriteDirect(size) ==
    LET b == Block(ids + 1, size, "direct") IN
    /\ error = "none"
    /\ client.state = "active"
    /\ ids < MaxWritten
    /\ ids' = ids + 1
    /\ client' = WriteMessage(client, <<b>>)
    /\ error' = SpaceError(client.message, <<b>>, MaxMessage, TRUE)
    /\ UNCHANGED <<reliable_datagram, queued, sent>>

(* To everybody: SV_FullClientUpdate, a setinfo, MSG_ALL of the progs.     *)
(* sv.reliable_datagram has no allowoverflow.                              *)
WriteDatagram(size) ==
    LET b == Block(ids + 1, size, "block") IN
    /\ error = "none"
    /\ ids < MaxWritten
    /\ ids' = ids + 1
    /\ reliable_datagram' = Append(reliable_datagram, b)
    /\ error' = SpaceError(reliable_datagram, <<b>>, MaxDatagram, FALSE)
    /\ UNCHANGED <<client, queued, sent>>

(* The netchan has an acknowledgement for the outstanding buffer.          *)
Acked ==
    /\ error = "none"
    /\ client.reliable_buf # <<>>
    /\ client' = [client EXCEPT !.reliable_buf = <<>>]
    /\ UNCHANGED <<reliable_datagram, error, queued, sent, ids>>

(* The blocks among s that went through ClientReliableCheckBlock. *)
Checked(s) ==
    FlattenSeq([i \in DOMAIN s |-> IF s[i].kind = "block" THEN <<s[i]>> ELSE <<>>])

(* Cmd_Spawn_f before it sends the names and frags: netchan.message is     *)
(* emptied, the backbufs are kept.                                         *)
Respawn ==
    /\ MayRespawn
    /\ error = "none"
    /\ client.state = "active"
    /\ client' = [client EXCEPT !.message = <<>>, !.overflowed = FALSE]
    /\ queued' = Checked(sent \o FlattenSeq(client.backbuf))
    /\ UNCHANGED <<reliable_datagram, error, sent, ids>>

(* SV_ClearReliable, and the start of Cmd_New_f: everything goes.          *)
ClearReliable ==
    /\ MayRespawn
    /\ error = "none"
    /\ client.state = "active"
    /\ client' = [client EXCEPT !.message = <<>>, !.overflowed = FALSE,
                                !.backbuf = <<>>]
    /\ queued' = Checked(sent)
    /\ UNCHANGED <<reliable_datagram, error, sent, ids>>

(* What SV_DropClient does here: svc_disconnect goes straight to           *)
(* netchan.message, before anything in the backbufs.                       *)
DropClient(c) ==
    [WriteMessage(c, <<Disconnect>>) EXCEPT !.state = "zombie"]

(* A kick, a timeout, the client's own "drop".                             *)
Drop ==
    /\ error = "none"
    /\ client.state = "active"
    /\ client' = DropClient(client)
    /\ reliable_datagram' = Append(reliable_datagram, FullClientUpdate)
    /\ error' = SpaceError(reliable_datagram, <<FullClientUpdate>>,
                           MaxDatagram, FALSE)
    /\ UNCHANGED <<queued, sent, ids>>

-----------------------------------------------------------------------------
(* SV_UpdateToReliableMessages: reliable_datagram as one block, written    *)
(* even when it is empty.                                                  *)
Distribute(c) ==
    IF c.state = "active" THEN ReliableWrite(c, reliable_datagram) ELSE c

DistributeError ==
    IF client.state = "active"
    THEN ReliableWriteError(client, reliable_datagram)
    ELSE "none"

(* Mutant: a backbuf moves only into an empty message that is also free    *)
(* to go at once.                                                          *)
RotateWhenIdle(c) ==
    IF \/ c.backbuf = <<>>
       \/ SizeOf(c.message) + SizeOf(Head(c.backbuf)) >= MaxMessage - 1
    THEN c
    ELSE [WriteMessage(c, Head(c.backbuf))
             EXCEPT !.backbuf = Tail(@), !.allowoverflow = FALSE]

(* The oldest backbuf moves to netchan.message if it leaves room there;    *)
(* the last one, set up again, has lost its allowoverflow.                 *)
Rotate(c) ==
    IF \/ c.backbuf = <<>>
       \/ SizeOf(c.message) + SizeOf(Head(c.backbuf)) >= MaxMessage
    THEN c
    ELSE [WriteMessage(c, Head(c.backbuf))
             EXCEPT !.backbuf = Tail(@), !.allowoverflow = FALSE]

(* Mutant: the overflow is cleared and nobody dropped. *)
DropOverflowedForgiving(c) ==
    IF c.overflowed THEN [c EXCEPT !.message = <<>>, !.overflowed = FALSE]
    ELSE c

(* An overflowed client is told so, like everybody, and dropped.  The      *)
(* print can overflow the backbufs once more.                              *)
DropOverflowed(c) ==
    IF ~c.overflowed THEN c
    ELSE LET d == [c EXCEPT !.message = <<>>, !.overflowed = FALSE]
             e == IF d.state = "active"
                  THEN ReliableWrite(d, <<Overflowed>>) ELSE d
         IN DropClient(e)

(* Netchan_Transmit, which does nothing for an overflowed message. *)
Transmits(c) ==
    ~c.overflowed /\ c.reliable_buf = <<>> /\ c.message # <<>>

TransmitMessage(c) ==
    IF Transmits(c)
    THEN [c EXCEPT !.reliable_buf = c.message, !.message = <<>>] ELSE c

(* SV_SendClientMessages for this client.  answer: it has sent a packet    *)
(* and its bandwidth is not choked.  A client dropped here is answered     *)
(* whether or not.                                                         *)
SendClientMessages(answer) ==
    /\ error = "none"
    /\ error' = DistributeError
    /\ queued' = IF client.state = "active"
                 THEN queued \o Checked(reliable_datagram) ELSE queued
    /\ UNCHANGED ids
    /\ \E c \in {Rotate(Distribute(client))} : \E d \in {DropOverflowed(c)} :
          /\ reliable_datagram' =
                IF c.overflowed THEN <<FullClientUpdate>> ELSE <<>>
          /\ IF answer \/ c.overflowed
             THEN /\ client' = TransmitMessage(d)
                  /\ sent' = IF Transmits(d) THEN sent \o d.message ELSE sent
             ELSE client' = d /\ UNCHANGED sent

-----------------------------------------------------------------------------
ReliableNext ==
    \/ \E size \in BlockSize : Write(size) \/ WriteDirect(size)
    \/ \E size \in DatagramSize : WriteDatagram(size)
    \/ Acked
    \/ Respawn
    \/ ClearReliable
    \/ Drop
    \/ \E answer \in BOOLEAN : SendClientMessages(answer)

ReliableSpec == ReliableInit /\ [][ReliableNext]_reliable

(* The client goes on sending packets: its acknowledgements arrive, and    *)
(* frame after frame it is answered.                                       *)
ReliableFairness ==
    /\ WF_reliable(Acked)
    /\ WF_reliable(SendClientMessages(TRUE))

-----------------------------------------------------------------------------
Kinds == {"block", "direct", "disconnect", "overflowed", "update"}
BlockOK(b) == /\ b.id \in 0..MaxWritten
              /\ b.size \in 1..MaxDatagram
              /\ b.kind \in Kinds
BlocksOK(s) == \A i \in DOMAIN s : BlockOK(s[i])

ReliableTypeOK ==
    /\ client.state \in {"active", "zombie"}
    /\ client.overflowed \in BOOLEAN /\ client.allowoverflow \in BOOLEAN
    /\ BlocksOK(client.message) /\ BlocksOK(client.reliable_buf)
    /\ Len(client.backbuf) <= MaxBackbuf
    /\ \A k \in DOMAIN client.backbuf : BlocksOK(client.backbuf[k])
    /\ BlocksOK(reliable_datagram) /\ BlocksOK(queued) /\ BlocksOK(sent)
    /\ error \in {"none", "overflow without allowoverflow set",
                  "is > full buffer size"}

(* While the client is to be kept, every block written for it has been     *)
(* sent, is in netchan.message or is in a backbuf, in the order it was     *)
(* written: nothing is lost, repeated or overtaken on its way through      *)
(* the backbufs, however writes and frames alternate (sv_nchan.c 26-49,    *)
(* sv_send.c 1101-1131).                                                   *)
KeptInOrder ==
    client.state = "active" /\ ~client.overflowed =>
        Checked(sent \o client.message \o FlattenSeq(client.backbuf)) = queued

(* What was handed over before svc_disconnect, or all. *)
BeforeDisconnect ==
    LET told == {i \in DOMAIN sent : sent[i] = Disconnect}
    IN IF told = {} THEN sent ELSE SubSeq(sent, 1, Min(told) - 1)

(* Nothing a client was to be told is lost or overtaken unless it is told  *)
(* to disconnect: whatever happens later, what the client is sent before   *)
(* svc_disconnect has no hole in it, and what is written for it while it   *)
(* is to be kept waits in order (sv_nchan.c, sv_send.c).                   *)
NoHoleBeforeDisconnect ==
    /\ KeptInOrder
    /\ IsPrefix(Checked(BeforeDisconnect), queued)

(* No buffer holds more bytes than it has, and no reliable write to the    *)
(* client's own buffers ends the server: a write goes to a backbuf that    *)
(* was set up without allowoverflow only if it fits (sv_nchan.c 37).       *)
BuffersHold ==
    /\ SizeOf(client.message) <= MaxMessage
    /\ \A k \in DOMAIN client.backbuf : SizeOf(client.backbuf[k]) <= MaxMessage
    /\ error # "is > full buffer size"
    /\ error # "none" => SizeOf(reliable_datagram) > MaxDatagram

(* A client whose stream overflowed is told to disconnect, even if the     *)
(* print about it overflows the backbufs again and the packet is not sent, *)
(* unless it repeats its signon in the same frame, which clears the mark.  *)
OverflowedIsDisconnected ==
    client.overflowed ~> \/ Disconnect \in ToSet(sent)
                         \/ client.state = "active" /\ ~client.overflowed
                         \/ error # "none"

(* "save it for next" (sv_nchan.c 31): what goes to a backbuf goes out,    *)
(* and the client's stream is back in netchan.message.                     *)
BackbufsDrain ==
    client.backbuf # <<>> ~> \/ client.backbuf = <<>>
                             \/ client.state = "zombie"
                             \/ error # "none"

=============================================================================
