---------------------------- MODULE MvdRecorder ----------------------------
(***************************************************************************)
(* MVD recording (sv_demo.c, sv_send.c): one stream of the game, buffered  *)
(* in a ring of frames and written to every destination - files, buffered  *)
(* files, QTV streams - each of which may fail at any write.               *)
(*                                                                         *)
(* What is written between two demo frames is a block; blocks are numbered *)
(* in the order they are written.  An entity update is a block that names  *)
(* the one it is a delta of.  A destination holds the initial gamestate,   *)
(* marked by the number of blocks there were, and blocks after it.         *)
(***************************************************************************)
EXTENDS Integers, SequencesExt, FiniteSetsExt

CONSTANTS
    File, Stream,   \* names of destinations: files and QTV streams
    MaxCache,       \* maxcachesize, in blocks
    MaxSize,        \* sv_demoMaxSize, in blocks; 0: no limit
    MaxFrame,       \* blocks that fit the _buf_ of a frame
    Backup,         \* UPDATE_BACKUP
    Lag,            \* frames kept back for interpolation, 5 in the code
    Byte,           \* 256: delta_sequence is a byte
    MaxBlocks,      \* bound: blocks written; an "EndOfDemo" may come after
    MaxLevels       \* bound: levels begun and entity updates too long to be written

(* A frame is written before its place in the ring is used again. *)
ASSUME RecorderAssumption ==
    /\ Lag \in Nat /\ Backup \in Nat /\ Lag + 2 <= Backup
    /\ Byte \in Nat \ {0}

VARIABLES
    demo,           \* sv.mvdrecording and the fields of demo_t
    closed,         \* history: the destinations the last step closed
    levels,         \* levels begun
    unwritten       \* history: the entity updates too long to be written: after how
                    \* many blocks, and whether they were to be full

recorder == <<demo, closed, levels, unwritten>>

Dest == File \union Stream

None == 0           \* base of a full update
Event == -1         \* "base" of what is no entity update
Gamestate == -2     \* "base" of the mark of a gamestate
Unwritten == -3     \* base of a delta of an update that was not written

Item(n, base) == [n |-> n, base |-> base]

(* A destination just made (SV_InitRecordFile, SV_InitStream). *)
NewDest(d, type) == [id |-> d, type |-> type, error |-> FALSE,
                     cache |-> <<>>, out |-> <<>>]

EmptyFrame == [blocks |-> <<>>, overflowed |-> FALSE]

(* The part of demo_t before mem_set_point, cleared.                       *)
Cleared(d) ==
    [d EXCEPT !.parsecount = 0, !.lastwritten = 0,
              !.frames = [s \in 0..Backup - 1 |-> EmptyFrame],
              !.delta = 0, !.incoming = 0,
              !.updates = [s \in 0..Backup - 1 |-> 0]]

RecorderInit ==
    /\ demo = [recording |-> FALSE, dest |-> <<>>, closing |-> <<>>, blocks |-> 0,
               parsecount |-> 0, lastwritten |-> 0,
               frames |-> [s \in 0..Backup - 1 |-> EmptyFrame],
               delta |-> 0, incoming |-> 0,
               updates |-> [s \in 0..Backup - 1 |-> 0]]
    /\ closed = <<>>
    /\ levels = 1
    /\ unwritten = <<>>

(* What the operating system does with the files and sockets written to in *)
(* one step: one of them may fail, or a socket be not ready.               *)
AllWork == [d \in Dest |-> "works"]
IO(to) == {AllWork}
          \union {[AllWork EXCEPT ![d] = "fails"] : d \in to}
          \union {[AllWork EXCEPT ![d] = "blocks"] : d \in to \intersect Stream}

-----------------------------------------------------------------------------
(* Operators from demo to demo, one for each function of sv_demo.c.  The   *)
(* destinations a step closes go to demo.closing with how they ended.      *)

Close(d, es, how) ==
    [d EXCEPT !.closing = @ \o [i \in DOMAIN es |->
        [id |-> es[i].id, out |-> es[i].out, how |-> how,
         error |-> es[i].error, blocks |-> d.blocks]]]

(* The body of DestFlush for one destination. *)
FlushDest(e, complete, io) ==
    LET tooLarge == e.type # "stream" /\ MaxSize > 0
                    /\ Len(e.out) + Len(e.cache) > MaxSize
        written  == [e EXCEPT !.out = @ \o e.cache, !.cache = <<>>]
        e1 == CASE e.type = "file" -> e
                [] e.type = "buffered" ->
                      IF ~complete /\ Len(e.cache) < MaxCache THEN e
                      ELSE IF io = "fails"
                           THEN [e EXCEPT !.cache = <<>>, !.error = TRUE]
                           ELSE written
                [] e.type = "stream" ->
                      IF io = "fails" THEN [e EXCEPT !.error = TRUE]
                      ELSE IF io = "blocks" THEN e ELSE written
    IN [e1 EXCEPT !.error = @ \/ tooLarge]

(* The entries of a list at some of its places. *)
Those(list, places) ==
    FlattenSeq([i \in DOMAIN list |-> IF i \in places THEN <<list[i]>> ELSE <<>>])

(* DestFlush.  Destinations that have failed before are closed; one that   *)
(* fails now is closed by the next flush.  When none was left, SV_MVDStop  *)
(* is called, which has nothing to close and ends the recording.           *)
DestFlush(d, complete, io) ==
    LET failed == {i \in DOMAIN d.dest : d.dest[i].error}
        live == Those(d.dest, DOMAIN d.dest \ failed)
    IN [Close(d, Those(d.dest, failed), "failed") EXCEPT
            !.dest = [i \in DOMAIN live |-> FlushDest(live[i], complete, io[live[i].id])],
            !.recording = @ /\ live # <<>>]

(* Mutant: what is still in the caches is not written. *)
DestCloseAllFlushCached(d, how, mvdonly, io) ==
    LET d1 == DestFlush(d, FALSE, io)
        stay == {i \in DOMAIN d1.dest : mvdonly /\ d1.dest[i].type = "stream"}
    IN [Close(d1, Those(d1.dest, DOMAIN d1.dest \ stay), how) EXCEPT
            !.dest = Those(@, stay)]

DestCloseAllFlush(d, how, mvdonly, io) ==
    LET d1 == DestFlush(d, TRUE, io)
        stay == {i \in DOMAIN d1.dest : mvdonly /\ d1.dest[i].type = "stream"}
    IN [Close(d1, Those(d1.dest, DOMAIN d1.dest \ stay), how) EXCEPT
            !.dest = Those(@, stay)]

(* Mutant: a block that does not fit the cache is passed over. *)
DemoWriteDestDropping(e, item, io) ==
    IF e.error \/ (e.type # "file" /\ Len(e.cache) + 1 > MaxCache) THEN e
    ELSE IF e.type = "file" THEN [e EXCEPT !.out = Append(@, item)]
    ELSE [e EXCEPT !.cache = Append(@, item)]

(* DemoWriteDest: nothing more goes to a destination that has failed. *)
DemoWriteDest(e, item, io) ==
    IF e.error THEN e
    ELSE IF e.type = "file"
    THEN IF io = "fails" THEN [e EXCEPT !.error = TRUE]
         ELSE [e EXCEPT !.out = Append(@, item)]
    ELSE IF Len(e.cache) + 1 > MaxCache THEN [e EXCEPT !.error = TRUE]
    ELSE [e EXCEPT !.cache = Append(@, item)]

(* DemoWrite to those in only, which is all of them unless singledest.     *)
DemoWrite(d, item, only, io) ==
    [d EXCEPT !.dest = [i \in DOMAIN @ |->
        IF @[i].id \in only THEN DemoWriteDest(@[i], item, io[@[i].id]) ELSE @[i]]]

(* SV_MVDStop for reasons 2 to 4: what was recorded is removed. *)
StopAndRemove(d, mvdonly, io) ==
    IF ~d.recording THEN d
    ELSE LET d1 == DestCloseAllFlush(d, "removed", mvdonly, io)
         IN [d1 EXCEPT !.recording = d1.dest # <<>>]

Current(d) == d.parsecount % Backup

(* What MVDWrite_Begin and the writes after it add to the current frame.   *)
(* A buffer that overflows is cleared and marked.                          *)
AddToFrame(d, base) ==
    LET f == d.frames[Current(d)]
        n == d.blocks + 1
        fits == Len(f.blocks) < MaxFrame
    IN [d EXCEPT !.blocks = n,
                 !.frames[Current(d)] =
                    IF fits THEN [f EXCEPT !.blocks = Append(@, Item(n, base))]
                    ELSE [blocks |-> <<>>, overflowed |-> TRUE]]

(* MVDWrite_Begin and the write: an overflowed frame stops all recording.  *)
MVDWrite(d, base, io) ==
    IF ~d.recording THEN d
    ELSE IF d.frames[Current(d)].overflowed THEN StopAndRemove(d, FALSE, io)
    ELSE AddToFrame(d, base)

(* Block after block to all destinations. *)
DemoWriteAll(d, items, io) ==
    LET after[i \in 0..Len(items)] ==
            IF i = 0 THEN d ELSE DemoWrite(after[i - 1], items[i], Dest, io)
    IN after[Len(items)]

(* SV_MVDWritePacketsEx: up to num frames from lastwritten on, up to the   *)
(* first that has overflowed.                                              *)
WritePacketsEx(d, num, io) ==
    LET last == Min({d.lastwritten + num - 1, d.parsecount})
        bad  == {k \in d.lastwritten..last : d.frames[k % Backup].overflowed}
        end  == IF bad = {} THEN last + 1 ELSE Min(bad)
        items == FlattenSeq([i \in 1..(end - d.lastwritten) |->
                                d.frames[(d.lastwritten + i - 1) % Backup].blocks])
        d1 == DemoWriteAll(d, items, io)
    IN [ok |-> bad = {},
        demo |-> [d1 EXCEPT
           !.frames = [s \in DOMAIN @ |->
               IF s \in {k % Backup : k \in d.lastwritten..end - 1}
               THEN EmptyFrame ELSE @[s]],
           !.lastwritten = IF bad = {} THEN Min({end, d.parsecount}) ELSE end]]

(* SV_MVDWritePackets: an error stops all recording. *)
WritePackets(d, num, io) ==
    IF ~d.recording THEN d
    ELSE LET w == WritePacketsEx(d, num, io)
         IN IF w.ok THEN w.demo ELSE StopAndRemove(w.demo, FALSE, io)

(* SV_MVDStop for reason 0: "EndOfDemo", what is still buffered, and the   *)
(* files are closed.  While it runs it refuses to be called again, so the  *)
(* errors that would stop all recording do not.                            *)
StopRecording(d, io) ==
    IF ~d.recording THEN d
    ELSE LET d1 == IF d.frames[Current(d)].overflowed THEN d ELSE AddToFrame(d, Event)
             d2 == WritePacketsEx(d1, d1.parsecount - d1.lastwritten + 1, io)
             d3 == DestCloseAllFlush(d2.demo, IF d2.ok THEN "stopped" ELSE "cut", TRUE, io)
         IN [d3 EXCEPT !.recording = d3.dest # <<>>]

(* SV_MVD_SendInitialGamestate to those in only. *)
SendInitialGamestate(d, only, io) ==
    IF d.dest = <<>> THEN d
    ELSE DemoWrite([d EXCEPT !.recording = TRUE], Item(d.blocks, Gamestate), only, io)

(* SV_MVD_Record for a new destination. *)
Record(d, e, io) ==
    LET d1 == IF d.recording THEN d ELSE Cleared(d)
    IN SendInitialGamestate([d1 EXCEPT !.dest = <<e>> \o @], {e.id}, io)

(* The end of SV_SpawnServer, which has cleared sv.mvdrecording. *)
RecordMapChange(d, io) == SendInitialGamestate(Cleared(d), Dest, io)

-----------------------------------------------------------------------------
(* Bounds. *)
MoreBlocks == demo.blocks < MaxBlocks
MayGoOn == levels + Len(unwritten) < MaxLevels

(* A step of the recorder: demo becomes d, and what d closes is closed.    *)
Becomes(d) ==
    /\ demo' = [d EXCEPT !.closing = <<>>]
    /\ closed' = d.closing

Open == {demo.dest[i].id : i \in DOMAIN demo.dest}
Unused == Dest \ Open

(* A multicast, a print, a stat or the pings: something goes to the demo.  *)
Write ==
    /\ MoreBlocks
    /\ demo.recording
    /\ \E io \in IO(Open) : Becomes(MVDWrite(demo, Event, io))
    /\ UNCHANGED <<levels, unwritten>>

(* SV_MVD_Record_f, SV_MVDEasyRecord_f. *)
RecordFile ==
    /\ \E d \in Unused \intersect File, type \in {"file", "buffered"} : \E io \in IO(Open \union {d}) :
          Becomes(Record(demo, NewDest(d, type), io))
    /\ UNCHANGED <<levels, unwritten>>

(* A QTV proxy has been let in (SV_MVD_RunPendingConnections). *)
RecordStream ==
    /\ \E d \in Unused \intersect Stream : \E io \in IO(Open \union {d}) :
          Becomes(Record(demo, NewDest(d, "stream"), io))
    /\ UNCHANGED <<levels, unwritten>>

(* SV_MVDStop_f, also when a demo that is being recorded is removed.       *)
Stop_f ==
    /\ demo.recording
    /\ demo.blocks <= MaxBlocks
    /\ \E io \in IO(Open) : Becomes(StopRecording(demo, io))
    /\ UNCHANGED <<levels, unwritten>>

(* SV_MVD_Cancel_f. *)
Cancel_f ==
    /\ demo.recording
    /\ \E io \in IO(Open) : Becomes(StopAndRemove(demo, TRUE, io))
    /\ UNCHANGED <<levels, unwritten>>

(* A new level: "map" stops the recording of files first, loading a saved  *)
(* game does not.                                                          *)
NewLevel ==
    /\ MayGoOn
    /\ levels' = levels + 1
    /\ UNCHANGED unwritten

Map_f ==
    /\ NewLevel
    /\ demo.blocks <= MaxBlocks
    /\ \E io \in IO(Open) : Becomes(RecordMapChange(StopRecording(demo, io), io))

LoadGame_f == NewLevel /\ \E io \in IO(Open) : Becomes(RecordMapChange(demo, io))

(* A QTV stream sends what it must not, or the port is closed.             *)
StreamFails ==
    /\ \E i \in DOMAIN demo.dest :
          /\ demo.dest[i].type = "stream"
          /\ Becomes([demo EXCEPT !.dest[i].error = TRUE])
    /\ UNCHANGED <<levels, unwritten>>

(* An entity update, a delta of base, if it fits its buffer.  The recorder *)
(* goes on as if it had been written when it does not.                     *)
UpdateWritten(d, base, fits, io) ==
    LET d1 == IF fits THEN MVDWrite(d, base, io) ELSE d
    IN [d1 EXCEPT !.updates[d.incoming % Backup] = IF fits THEN d1.blocks ELSE Unwritten,
                  !.delta = d.incoming % Byte,
                  !.incoming = @ + 1]

(* Mutant: no full update when delta_sequence has become 0. *)
WriteUpdateAlwaysDelta(d, fits, io) ==
    UpdateWritten(d, d.updates[d.delta % Backup], fits, io)

(* The recorder's entity update (SV_WriteEntitiesToClient): a delta of the *)
(* one before, or a full update once delta_sequence has become 0.          *)
WriteUpdate(d, fits, io) ==
    UpdateWritten(d, IF d.delta = 0 THEN None ELSE d.updates[d.delta % Backup], fits, io)

(* SV_SendDemoMessage, when it is time for a demo frame. *)
SendDemoMessage ==
    /\ demo.recording
    /\ MoreBlocks
    /\ \E io \in IO(Open), fits \in BOOLEAN :
          /\ fits \/ MayGoOn
          /\ LET d1 == WriteUpdate(demo, fits, io)
                 d2 == IF d1.parsecount - d1.lastwritten > Lag
                       THEN WritePackets(d1, 1, io) ELSE d1
                 d3 == DestFlush(d2, FALSE, io)
             IN Becomes([d3 EXCEPT !.parsecount = IF d3.recording THEN @ + 1 ELSE @])
          /\ unwritten' = IF fits THEN unwritten
                          ELSE Append(unwritten, [at |-> demo.blocks, full |-> demo.delta = 0])
    /\ UNCHANGED levels

RecorderNext ==
    \/ Write
    \/ RecordFile
    \/ RecordStream
    \/ Stop_f
    \/ Cancel_f
    \/ Map_f
    \/ LoadGame_f
    \/ StreamFails
    \/ SendDemoMessage

RecorderSpec == RecorderInit /\ [][RecorderNext]_recorder

-----------------------------------------------------------------------------
(* What a destination that is open holds, on the disk or in its cache.     *)
Contents ==
    {demo.dest[i].out \o demo.dest[i].cache : i \in {j \in DOMAIN demo.dest : ~demo.dest[j].error}}
    \union {demo.dest[i].out : i \in DOMAIN demo.dest}
    \union {closed[i].out : i \in DOMAIN closed}

(* A recording that is stopped, with none of its writes failing, is whole: *)
(* the frames held back and the cache have been written.                   *)
StoppedIsWhole ==
    \A i \in DOMAIN closed :
        closed[i].how = "stopped" /\ ~closed[i].error
            => closed[i].out # <<>> /\ Last(closed[i].out).n = closed[i].blocks

(* Every destination, however it ended, holds a gamestate and then the     *)
(* stream: no block is missing, repeated or out of place.  After a         *)
(* gamestate the stream goes on with what had not been written yet, and    *)
(* one that is stopped is whole.                                           *)
NothingMissing ==
    /\ StoppedIsWhole
    /\ \A c \in Contents :
          /\ c # <<>> => c[1].base = Gamestate
          /\ \A i \in 2..Len(c) :
                IF c[i].base = Gamestate THEN c[i].n >= c[i - 1].n
                ELSE IF c[i - 1].base = Gamestate THEN c[i].n <= c[i - 1].n + 1
                ELSE c[i].n = c[i - 1].n + 1

(* sv.mvdrecording says whether there is anybody to record for. *)
RecordingForSomebody == demo.recording <=> demo.dest # <<>>

(* A destination's update is a delta only of what came right before it     *)
(* there, or it has just joined, or an update was lost in between because  *)
(* it was too long; of Byte updates that are written one is full, or the   *)
(* gamestate of who joins, so that it is resynchronised in time, unless    *)
(* the full one was lost that way (then it takes Byte more).               *)
Updates(c) == SelectSeq(c, LAMBDA item : item.base # Event)

ResynchronisedInTime ==
    \A c \in Contents :
        LET u == Updates(c)
            Joined(i) == \E j \in 1..i : /\ u[j].base = Gamestate
                                        /\ \A k \in j + 1..i : u[k].base # None
            Lost(i, j) == {k \in DOMAIN unwritten : unwritten[k].at \in u[i].n..(u[j].n - 1)}
        IN \A i \in DOMAIN u :
              /\ u[i].base > None => Joined(i) \/ u[i - 1].n = u[i].base
              /\ u[i].base = Unwritten => Joined(i) \/ Lost(i - 1, i) # {}
              /\ LET first == Max({1, i - Byte + 1}) IN
                 \/ \E j \in first..i : u[j].base \in {None, Gamestate}
                 \/ \E k \in Lost(first, i) : unwritten[k].full
=============================================================================
