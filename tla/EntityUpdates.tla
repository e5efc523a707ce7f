---------------------------- MODULE EntityUpdates ----------------------------
(***************************************************************************)
(* What a client in the game is told of the entities it can see            *)
(* (sv_ents.c, with the sequence numbers of SV_ExecuteClientMessage).      *)
(*                                                                         *)
(* Each packet of the client names the last update it could use; the       *)
(* answer holds the entities that are new, changed or gone since that one, *)
(* which the server finds in the last UPDATE_BACKUP frames of the client.  *)
(* A frame is kept as the client will know it, so what did not fit the     *)
(* datagram is put back in it.                                             *)
(*                                                                         *)
(* Packets are lost and overtake each other; those the netchan would throw *)
(* away for their number are never received (module Netchan).  The client, *)
(* which is not part of this repository, uses an update only against the   *)
(* frame it asked for, and only while it still has that frame.             *)
(***************************************************************************)
EXTENDS Integers, Functions, FiniteSetsExt

CONSTANTS
    Backup,         \* UPDATE_BACKUP
    Byte,           \* 256: clc_delta carries a sequence number in one byte
    Entity,         \* numbers of the entities there may be
    Large,          \* those a client needs FTE_PEXT_ENTITYDBL for, 512 and up
    Extended,       \* whether the client has that extension
    MaxEntities,    \* MAX_PACKET_ENTITIES, or MAX_PEXT256_PACKET_ENTITIES
    Distance,       \* of each entity from the client
    World,          \* what may be in sight: functions from entities to states
    Baseline,       \* the states of the entities there were at the level's start
    MaxSequence     \* bound: packets the client sends

(* A state is made of fields, of which an update carries those that        *)
(* changed; an entity spawned later has a baseline that is all zero.       *)
Field == {"origin", "frame"}
State == [Field -> 0..1]
Zero == [f \in Field |-> 0]

VARIABLES
    netchan,        \* incoming_sequence and outgoing_sequence of the client's netchan
    delta_sequence, \* client->delta_sequence, or None
    send_message,   \* client->send_message
    frames,         \* client->frames: the entities of each, and its sequence number
    view,           \* history: what was in sight for the last of them
    toServer,       \* packets on their way
    toClient,
    cl              \* the client: its numbers, valid update and frames

server == <<netchan, delta_sequence, send_message, frames, view>>
vars == <<server, toServer, toClient, cl>>

None == -1
Slot(n) == n % Backup
Ring == 0..(Backup - 1)
NoFrame == [sequence |-> 0, entities |-> <<>>]

(* The state deltas start from for an entity the old frame has not.        *)
BaselineOf(e) == IF e \in DOMAIN Baseline THEN Baseline[e] ELSE Zero

Init ==
    /\ netchan = [incoming |-> 0, outgoing |-> 0]
    /\ delta_sequence = None
    /\ send_message = FALSE
    /\ frames = [i \in Ring |-> NoFrame]
    /\ view = [seen |-> <<>>, whole |-> FALSE, slot |-> 0]
    /\ toServer = {} /\ toClient = {}
    /\ cl = [outgoing |-> 1, validsequence |-> 0,
             asked |-> [i \in Ring |-> None], frames |-> [i \in Ring |-> NoFrame]]

-----------------------------------------------------------------------------
(* SV_ExecuteClientMessage: the answer takes the number of the packet, and *)
(* no delta unless this very packet asks for it.                           *)
ExecuteClientMessage(p) ==
    LET slipped == p.sequence < netchan.outgoing IN
    /\ p \in toServer
    /\ toServer' = {q \in toServer : q.sequence > p.sequence}
    /\ netchan' = [incoming |-> p.sequence,
                   outgoing |-> IF slipped THEN netchan.outgoing ELSE p.sequence]
    /\ send_message' = ~slipped
    /\ delta_sequence' = p.delta
    /\ UNCHANGED <<frames, view, toClient, cl>>

(* Mutant: one more than there is room for. *)
AddEntityBeyond(pack, e) ==
    IF Cardinality(pack) <= MaxEntities THEN pack \union {e} ELSE pack

(* Mutant: the furthest makes room whether or not this one is nearer. *)
AddEntityAlways(pack, e) ==
    IF Cardinality(pack) < MaxEntities THEN pack \union {e}
    ELSE (pack \ {CHOOSE x \in pack : \A y \in pack : Distance[y] <= Distance[x]})
            \union {e}

(* The loop over the edicts in SV_WriteEntitiesToClient: once there are    *)
(* MaxEntities, one that is nearer takes the place of the furthest, of     *)
(* the first where there are several.                                      *)
AddEntity(pack, e) ==
    LET furthest ==
            Min({x \in pack : \A y \in pack : Distance[y] <= Distance[x]})
    IN  IF Cardinality(pack) < MaxEntities THEN pack \union {e}
        ELSE IF Distance[furthest] <= Distance[e] THEN pack
        ELSE (pack \ {furthest}) \union {e}

Pack(w) ==
    Restrict(w, DOMAIN w \intersect MapThenFoldSet(LAMBDA e, pack : AddEntity(pack, e),
                                                   {}, LAMBDA e : e, Max, DOMAIN w))

(* SV_WriteDelta writes the fields of an entity that differ from the old   *)
(* frame, or from the baseline if it is new.  Entities go by their number, *)
(* and beyond the number "fits" there is no room left.                     *)
StateBefore(from, e) == IF e \in DOMAIN from THEN from[e] ELSE BaselineOf(e)

Written(from, to, fits) ==
    {e \in DOMAIN to : /\ e <= fits
                       /\ e \in Large => Extended
                       /\ e \in DOMAIN from => to[e] # from[e]}

Differing(before, now) == Restrict(now, {f \in Field : now[f] # before[f]})

(* SV_EmitPacketEntities.  Removals are written whatever the room. *)
Update(from, to, fits) ==
    [changed |-> [e \in Written(from, to, fits) |->
                     Differing(StateBefore(from, e), to[e])],
     removed |-> DOMAIN from \ DOMAIN to]

(* Mutant: the frame is kept as it was packed. *)
RecordedAsPacked(from, to, fits) == to

(* What the frame is left with: "*to = *from" for an entity there is no    *)
(* room for.  A baseline that was never made has no number: the entry it   *)
(* leaves is the next update's first removal, which means nothing to the   *)
(* client, and is left out here.                                           *)
Recorded(from, to, fits) ==
    [e \in {x \in DOMAIN to : x <= fits \/ x \in DOMAIN from \union DOMAIN Baseline} |->
        IF e <= fits THEN to[e] ELSE StateBefore(from, e)]

(* Mutant: the frame goes where the answer after this one belongs. *)
FrameSlotOfNext(n) == Slot(n + 1)

FrameSlot(n) == Slot(n)

(* SV_SendClientDatagram, by the time there is something to answer and     *)
(* bandwidth to do it: w is in sight.  A datagram that overflows is        *)
(* emptied, which is to the client as if it were lost (it is never         *)
(* received).                                                              *)
SendClientDatagram(w, fits) ==
    LET to == Pack(w)
        kept == FrameSlot(netchan.incoming)
        base == Slot(delta_sequence)
        from == IF delta_sequence = None THEN <<>>
                ELSE IF base = kept THEN to ELSE frames[base].entities
    IN
    /\ send_message
    /\ send_message' = FALSE
    /\ frames' = [frames EXCEPT ![kept] = [sequence |-> netchan.outgoing,
                                          entities |-> Recorded(from, to, fits)]]
    /\ view' = [seen |-> w, whole |-> \A e \in DOMAIN to : e <= fits, slot |-> kept]
    /\ toClient' = toClient \union
           {[sequence |-> netchan.outgoing, base |-> delta_sequence,
             against |-> IF delta_sequence = None THEN None
                         ELSE frames[base].sequence,
             update |-> Update(from, to, fits)]}
    /\ netchan' = [netchan EXCEPT !.outgoing = @ + 1]
    /\ UNCHANGED <<delta_sequence, toServer, cl>>

-----------------------------------------------------------------------------
(* The client's next packet asks for a delta from the last update it could *)
(* use, if that is recent enough.                                          *)
ClientSend ==
    LET n == cl.outgoing
        valid == IF n - cl.validsequence >= Backup - 1 THEN 0 ELSE cl.validsequence
    IN
    /\ n <= MaxSequence
    /\ cl' = [cl EXCEPT !.outgoing = n + 1, !.validsequence = valid,
                        !.asked[Slot(n)] = IF valid = 0 THEN None ELSE valid]
    /\ toServer' = toServer \union
           {[sequence |-> n, delta |-> IF valid = 0 THEN None ELSE valid % Byte]}
    /\ UNCHANGED <<server, toClient>>

(* An update is against nothing, or against the frame asked for, which the *)
(* client must still have.                                                 *)
Usable(q) ==
    LET asked == cl.asked[Slot(q.sequence)] IN
    \/ q.base = None
    \/ /\ asked # None /\ cl.outgoing - q.sequence <= Backup
       /\ q.base = asked % Byte
       /\ cl.outgoing - asked < Backup - 1

(* A state after the fields an update carries. *)
Over(fields, before) ==
    [f \in Field |-> IF f \in DOMAIN fields THEN fields[f] ELSE before[f]]

Updated(old, update) ==
    [e \in (DOMAIN old \ update.removed) \union DOMAIN update.changed |->
        IF e \in DOMAIN update.changed
        THEN Over(update.changed[e], StateBefore(old, e))
        ELSE old[e]]

Decoded(q) ==
    Updated(IF q.base = None THEN <<>>
            ELSE cl.frames[Slot(cl.asked[Slot(q.sequence)])].entities, q.update)

ClientReceive(q) ==
    /\ q \in toClient
    /\ toClient' = {r \in toClient : r.sequence > q.sequence}
    /\ cl' = IF Usable(q)
             THEN [cl EXCEPT !.validsequence = q.sequence,
                             !.frames[Slot(q.sequence)] =
                                 [sequence |-> q.sequence, entities |-> Decoded(q)]]
             ELSE [cl EXCEPT !.validsequence = 0,
                             !.frames[Slot(q.sequence)] = NoFrame]
    /\ UNCHANGED <<server, toServer>>

-----------------------------------------------------------------------------
Next ==
    \/ \E p \in toServer : ExecuteClientMessage(p)
    \/ \E w \in World, fits \in Entity \union {0} : SendClientDatagram(w, fits)
    \/ ClientSend
    \/ \E q \in toClient : ClientReceive(q)

Spec == Init /\ [][Next]_vars

-----------------------------------------------------------------------------
Entities(f) ==
    DOMAIN f \subseteq Entity /\ \A e \in DOMAIN f : f[e] \in State

TypeOK ==
    /\ netchan \in [incoming : 0..MaxSequence, outgoing : 0..(MaxSequence + 1)]
    /\ delta_sequence \in {None} \union 0..(Byte - 1)
    /\ send_message \in BOOLEAN
    /\ \A i \in Ring : /\ frames[i].sequence \in 0..MaxSequence
                       /\ Entities(frames[i].entities)
                       /\ Cardinality(DOMAIN frames[i].entities) <= MaxEntities
                       /\ Entities(cl.frames[i].entities)
    /\ \A p \in toServer : p.sequence \in 1..MaxSequence
    /\ \A q \in toClient : q.update.removed \subseteq Entity
    /\ cl.validsequence \in 0..MaxSequence

(* However packets are lost and late, the frame the client has put         *)
(* together is the one the server remembers for it (sv_ents.c 304-310):    *)
(* the same entities in the same states, but for those that had no room    *)
(* (sv_ents.c 174) and so are at their baseline, where the next update     *)
(* takes both up from, and those the client cannot know.                   *)
FramesAgree ==
    \A i \in Ring :
        LET has == cl.frames[i].entities
            kept == frames[i].entities
        IN  /\ cl.frames[i].sequence # 0
            /\ cl.frames[i].sequence = frames[i].sequence
            => /\ IsRestriction(has, kept)
               /\ \A e \in DOMAIN kept \ DOMAIN has :
                     kept[e] = BaselineOf(e) \/ (e \in Large /\ ~Extended)

(* The slot an update is made against still holds the frame the client     *)
(* asked for: none of the answers since has taken it (sv_ents.c 306, 802). *)
BaseIsTheOneAskedFor ==
    \A q \in toClient : q.base # None => q.against % Byte = q.base

(* No entity in sight is left out for one that is further away (sv_ents.c  *)
(* 904-925).                                                               *)
NearestAreSent ==
    view.whole =>
        LET sent == DOMAIN frames[view.slot].entities
            seen == DOMAIN view.seen
        IN  /\ Cardinality(sent) = Min({MaxEntities, Cardinality(seen)})
            /\ \A e \in sent, f \in seen \ sent : Distance[e] <= Distance[f]

(* "don't send the entity this frame. (not sending means nothing changes,  *)
(* and it takes no bytes!!)" (sv_ents.c 175): once there is room for all,  *)
(* the client sees all.                                                    *)
LeftOutComesLater ==
    view.whole /\ cl.frames[view.slot].sequence = frames[view.slot].sequence =>
        DOMAIN cl.frames[view.slot].entities = DOMAIN Pack(view.seen)

=============================================================================
