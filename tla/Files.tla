------------------------------- MODULE Files --------------------------------
(***************************************************************************)
(* Files and the memory they are loaded into: the search path and its hash *)
(* (fs.c, vfs_os.c, hash.c), files inside of packs (vfs_pak.c), the hunk    *)
(* and the cache between its ends (zone.c), and saved games (sv_save.c,     *)
(* pr_edict.c).  part says which of them a behaviour is about.              *)
(***************************************************************************)
EXTENDS Integers, FiniteSetsExt, SequencesExt

CONSTANTS
    Parts,              \* of "paths", "packs", "hunk", "saves"
    Name, Gamedir,      \* names: <<name in lower case, spelling>>; directories of games
    OnDisk,             \* the names that are in each directory at first
    Numbered, Wild,     \* for each, what pak0.pak, pak1.pak.. and its other packs hold
    Archive,            \* for each pack, the files in it: their offsets and lengths
    HunkSize, HostSize, \* the hunk and what the host keeps of it, headers included
    User, BlockSize,    \* who caches; sizes of what is asked for, headers included
    Fresh, Text,        \* texts of the edicts a level starts with; of fields
    MaxSteps            \* bound, for each part

VARIABLES part, paths, packs, hunk, saves, steps

vars == <<part, paths, packs, hunk, saves, steps>>

-----------------------------------------------------------------------------
(* The search path, the first to be searched first; a pack is known by its *)
(* directory and place.  The hash gives for a name in lower case the place *)
(* where it was found: a directory, or a file of a pack.  unseen are names *)
(* that came or went without the hash being flushed.                       *)
Os(dir) == [dir |-> dir, pak |-> 0]
Pak(dir, i) == [dir |-> dir, pak |-> i]
Packs(dir) == Numbered[dir] \o Wild[dir]
Key(name) == name[1]
(* Mutant: searched after all others. *)
AddPathHandleLast(list, e) == Append(list, e)
AddPathHandle(list, e) == <<e>> \o list
(* The packs that a wildcard finds are those with numbers, too. *)
FS_AddWildDataFiles(list, e) == IF e \in Range(list) THEN list ELSE AddPathHandle(list, e)
FS_AddDataFiles(list, dir) ==
    LET numbered == FoldLeft(AddPathHandle, list, [i \in 1..Len(Numbered[dir]) |-> Pak(dir, i)])
    IN FoldLeft(FS_AddWildDataFiles, numbered, [i \in 1..Len(Packs(dir)) |-> Pak(dir, i)])
FS_AddGameDirectory(list, dir) ==
    IF Os(dir) \in Range(list) THEN list
    ELSE FS_AddDataFiles(AddPathHandle(list, Os(dir)), dir)
BaseDirs == <<"id1", "qw">>
Base == FoldLeft(FS_AddGameDirectory, <<>>, BaseDirs)

NoHash == [k \in {} |-> {}]
FS_FlushFSHash(p) == [p EXCEPT !.hash = NoHash, !.changed = TRUE, !.unseen = {}]
Added(hash, k, place) == [x \in DOMAIN hash \cup {k} |-> IF x = k THEN place ELSE hash[x]]
(* Mutant: a name that is there already is hidden by the later. *)
HashedLast(hash, k, place) == Added(hash, k, place)
Hashed(hash, k, place) == IF k \in DOMAIN hash THEN hash ELSE Added(hash, k, place)
FSPAK_BuildHash(hash, e) ==
    LET names == Packs(e.dir)[e.pak] IN
    FoldLeft(LAMBDA h, i : Hashed(h, Key(names[i]), [in |-> e, index |-> i]),
             hash, [i \in 1..Len(names) |-> i])
FSOS_BuildHash(hash, e, disk) ==
    FoldSet(LAMBDA n, h : Hashed(h, Key(n), [in |-> e, index |-> 0]), hash, disk[e.dir])
FS_RebuildFSHash(p) ==
    [FS_FlushFSHash(p) EXCEPT
       !.hash = FoldLeft(LAMBDA h, e : IF e.pak = 0 THEN FSOS_BuildHash(h, e, p.disk)
                                       ELSE FSPAK_BuildHash(h, e), NoHash, p.list),
       !.changed = FALSE]

(* The places of a name in an element of the path; with a hash, hit is what *)
(* it says: packs look no further, directories ask the disk still.          *)
FSOS_FLocate(e, disk, name, hit) ==
    IF (hit = {} \/ \E h \in hit : h.in = e) /\ name \in disk[e.dir]
    THEN {[in |-> e, index |-> 0]} ELSE {}
FSPAK_FLocate(e, name, hit) ==
    IF hit # {} THEN {h \in hit : h.in = e}
    ELSE LET names == Packs(e.dir)[e.pak]
             i == SelectInSeq(names, LAMBDA n : n = name)
         IN IF i = 0 THEN {} ELSE {[in |-> e, index |-> i]}
FindFile(e, disk, name, hit) ==
    IF e.pak = 0 THEN FSOS_FLocate(e, disk, name, hit) ELSE FSPAK_FLocate(e, name, hit)
Searched(p, name, hit) ==
    FoldLeft(LAMBDA found, e : IF found # {} THEN found ELSE FindFile(e, p.disk, name, hit),
             {}, p.list)
Uptodate(p) == IF p.changed THEN FS_RebuildFSHash(p) ELSE p
FS_FLocateFile(p, name, cache) ==
    LET q == Uptodate(p) IN
    IF ~cache THEN Searched(p, name, {})
    ELSE IF Key(name) \in DOMAIN q.hash THEN Searched(q, name, {q.hash[Key(name)]}) ELSE {}
InitPaths == [list |-> Base, gamedir |-> "qw", disk |-> OnDisk, hash |-> NoHash,
              changed |-> TRUE, unseen |-> {}]
FS_SetGamedir ==
    \E dir \in Gamedir, force \in BOOLEAN :
       /\ force \/ paths.gamedir # dir
       /\ LET flushed == FS_FlushFSHash(paths)
              base == SubSeq(paths.list, Len(paths.list) - Len(Base) + 1, Len(paths.list)) IN
          paths' = [flushed EXCEPT !.gamedir = dir, !.list = FS_AddGameDirectory(base, dir)]
Locate == paths' = Uptodate(paths)
(* FS_OpenVFS to write: what the server writes itself is followed by a      *)
(* flush, what its programs write (PF2_FS_OpenFile) is not.                 *)
FS_OpenVFS ==
    \E n \in Name, flush \in BOOLEAN :
       LET p == [paths EXCEPT !.disk[paths.gamedir] = @ \cup {n}] IN
       paths' = IF flush THEN FS_FlushFSHash(p) ELSE [p EXCEPT !.unseen = @ \cup {Key(n)}]
RemoveFile ==
    \E n \in paths.disk[paths.gamedir] :
       paths' = FS_FlushFSHash([paths EXCEPT !.disk[paths.gamedir] = @ \ {n}])
Paths == FS_SetGamedir \/ Locate \/ FS_OpenVFS \/ RemoveFile

Everywhere(p) ==
    UNION {IF e.pak = 0 THEN p.disk[e.dir] ELSE Range(Packs(e.dir)[e.pak]) : e \in Range(p.list)}
SpeltOneWay(p, n) == \A m \in Everywhere(p) : Key(m) = Key(n) => m = n
(* A file found with the help of the hash is the one that a search of the  *)
(* path would find, and none is missed, in whatever order games are chosen *)
(* and files come and go, as long as what comes and goes is told to it and  *)
(* no two names differ by case alone.                                       *)
FoundAsSearched ==
    part = "paths" =>
        \A n \in Name :
           SpeltOneWay(paths, n) /\ Key(n) \notin paths.unseen =>
              FS_FLocateFile(paths, n, TRUE) = FS_FLocateFile(paths, n, FALSE)
(* Files of the game hide those of the base, files of a directory are      *)
(* hidden by its packs, and those by packs of higher numbers.              *)
Outranks(a, b, gamedir) ==
    LET rank == [d \in Gamedir \cup {"id1", "qw"} |->
                   IF d = "id1" THEN 1 ELSE IF d = "qw" THEN 2 ELSE IF d = gamedir THEN 3 ELSE 0] IN
    rank[a.dir] > rank[b.dir] \/ (a.dir = b.dir /\ a.pak >= b.pak)
GameHidesBase ==
    part = "paths" =>
        \A n \in Name : \A f \in FS_FLocateFile(paths, n, FALSE) : \A e \in Range(paths.list) :
           /\ FindFile(e, paths.disk, n, {}) # {} => Outranks(f.in, e, paths.gamedir)
           /\ e.dir \in {"id1", "qw", paths.gamedir}

-----------------------------------------------------------------------------
(* A pack is read through one handle of the system, at os; filepos is      *)
(* where the server believes it is.  It is kept as long as it is on the    *)
(* search path or files of it are open.  read is the last read: of which   *)
(* file, where in it, and what bytes of the pack came.                     *)
NotOpen == [pak |-> 0, start |-> 0, length |-> 0, current |-> 0]
Readers == 1..2
InitPacks == [pak |-> [i \in DOMAIN Archive |-> [refs |-> 1, os |-> 0, filepos |-> 0, isOpen |-> TRUE]],
              onpath |-> DOMAIN Archive, file |-> [r \in Readers |-> NotOpen],
              read |-> [want |-> <<>>, got |-> <<>>]]
Tell(f) == f.current - f.start
FSPAK_OpenVFS ==
    \E r \in Readers, i \in packs.onpath : \E place \in Archive[i] :
       /\ packs.file[r] = NotOpen
       /\ packs' = [packs EXCEPT !.pak[i].refs = @ + 1,
                      !.file[r] = [pak |-> i, start |-> place[1], length |-> place[2],
                                   current |-> place[1]]]
(* What is read past the end of a file is not read, and a pack that was     *)
(* cut ends where it was.                                                   *)
Within(f, n) == IF Tell(f) + n > f.length THEN f.length - Tell(f) ELSE n
PackEnd(i) == Max({place[1] + place[2] : place \in Archive[i]}) - (IF i = 2 THEN 1 ELSE 0)
(* Mutant: where another file left the handle is not asked. *)
SeekNever(pak, f) == pak.os
SeekBefore(pak, f) == IF pak.filepos # f.current THEN f.current ELSE pak.os
VFSPAK_ReadBytes ==
    \E r \in Readers, asked \in {1, 3} :
       LET f == packs.file[r]
           n == Within(f, asked)
           at == SeekBefore(packs.pak[f.pak], f)
           end == Min({at + n, Max({at, PackEnd(f.pak)})}) IN
       /\ f # NotOpen
       /\ packs' = IF n <= 0 THEN packs
                   ELSE [packs EXCEPT !.file[r].current = @ + (end - at),
                           !.pak[f.pak].os = end,
                           !.pak[f.pak].filepos = f.current + (end - at),
                           !.read = [want |-> [k \in 1..(end - at) |-> f.start + Tell(f) + k],
                                     got |-> [k \in 1..(end - at) |-> at + k]]]
(* To a place in the file, on or back, or to its end; also past the end.   *)
VFSPAK_Seek ==
    \E r \in Readers : \E offset \in {-1, 0, 1} :
       LET f == packs.file[r] IN
       /\ f # NotOpen
       /\ \E to \in {f.start + offset, f.current + offset, f.start + f.length + offset} :
             to >= f.start /\ packs' = [packs EXCEPT !.file[r].current = to]
(* Mutant: a pack that leaves the path is closed at once. *)
ClosedAtOnce(p, i) == [p EXCEPT !.pak[i].refs = @ - 1, !.pak[i].isOpen = FALSE]
FSPAK_ClosePath(p, i) ==
    [p EXCEPT !.pak[i].refs = @ - 1, !.pak[i].isOpen = p.pak[i].refs > 1]
VFSPAK_Close ==
    \E r \in Readers :
       /\ packs.file[r] # NotOpen
       /\ packs' = FSPAK_ClosePath([packs EXCEPT !.file[r] = NotOpen], packs.file[r].pak)
LeavePath ==
    \E i \in packs.onpath : packs' = FSPAK_ClosePath([packs EXCEPT !.onpath = @ \ {i}], i)
PackFiles == FSPAK_OpenVFS \/ VFSPAK_ReadBytes \/ VFSPAK_Seek \/ VFSPAK_Close \/ LeavePath

(* Whoever reads a file of a pack reads bytes of that file, the next ones, *)
(* though others read and seek in other files of the pack in between, and  *)
(* though the game has changed; the pack is closed when the last is done.   *)
ReadsItsOwn ==
    part = "packs" =>
        /\ packs.read.got = packs.read.want
        /\ \A i \in DOMAIN Archive :
             packs.pak[i].isOpen <=> i \in packs.onpath \/ \E r \in Readers : packs.file[r].pak = i

-----------------------------------------------------------------------------
(* The hunk: blocks from its low end, of the host and of the level, with   *)
(* their sizes; at its high end a temporary block.  The cache is what lies *)
(* between, by address; lru are its users, the last used first.  holds is  *)
(* what each user has been told to have.                                   *)
Size(blocks) == FoldLeft(LAMBDA n, b : n + b.size, 0, blocks)
InitHunk == [low |-> HostSize, host |-> HostSize, high |-> 0, temp |-> FALSE, cache |-> <<>>,
             lru |-> <<>>]
Top(h) == HunkSize - h.high
Without(seq, u) == SelectSeq(seq, LAMBDA c : c.user # u)
Cache_Free(h, u) == [h EXCEPT !.cache = Without(@, u), !.lru = SelectSeq(@, LAMBDA x : x # u)]
(* The first gap that is large enough, the one before the first block left *)
(* out when the bottom is being cleared: after so many blocks, or none.     *)
GapStart(h, i) == IF i = 0 THEN h.low ELSE h.cache[i].at + h.cache[i].size
(* Mutant: the end of the last gap is the hunk's. *)
GapEndHigh(h, i) == IF i = Len(h.cache) THEN HunkSize ELSE h.cache[i + 1].at
GapEnd(h, i) == IF i = Len(h.cache) THEN Top(h) ELSE h.cache[i + 1].at
Gaps(h, size, nobottom) ==
    {i \in (IF nobottom THEN 1 ELSE 0)..Len(h.cache) : GapEnd(h, i) - GapStart(h, i) >= size}
Cache_TryAlloc(h, u, size, nobottom) ==
    LET i == Min(Gaps(h, size, nobottom)) IN
    [h EXCEPT !.cache = InsertAt(@, i + 1, [user |-> u, at |-> GapStart(h, i), size |-> size]),
              !.lru = <<u>> \o @]
(* The new block is for the same user, who is told of it last. *)
Cache_Move(h, c) ==
    LET moved == Cache_TryAlloc(h, "moved", c.size, TRUE) IN
    IF Gaps(h, c.size, TRUE) = {} THEN Cache_Free(h, c.user)
    ELSE LET freed == Cache_Free(moved, c.user) IN
         [freed EXCEPT
            !.cache = [i \in DOMAIN @ |-> [@[i] EXCEPT !.user = IF @ = "moved" THEN c.user ELSE @]],
            !.lru = [i \in DOMAIN @ |-> IF @[i] = "moved" THEN c.user ELSE @[i]]]
Times == 1..(2 * Cardinality(User))
(* Mutant: only the first block in the way is moved. *)
Cache_FreeLowOnce(h) ==
    IF h.cache # <<>> /\ Head(h.cache).at < h.low THEN Cache_Move(h, Head(h.cache)) ELSE h
Cache_FreeLow(h) ==
    FoldLeft(LAMBDA g, n : IF g.cache # <<>> /\ Head(g.cache).at < g.low
                           THEN Cache_Move(g, Head(g.cache)) ELSE g, h, [n \in Times |-> n])
Cache_FreeHigh(h) ==
    FoldLeft(LAMBDA g, n : IF g.cache # <<>> /\ Last(g.cache).at + Last(g.cache).size > Top(g)
                           THEN Cache_Move(g, Last(g.cache)) ELSE g, h, [n \in Times |-> n])

Hunk_FreeToHighMark(h, mark) == [h EXCEPT !.high = mark, !.temp = FALSE]
Hunk_HighMark(h) == IF h.temp THEN Hunk_FreeToHighMark(h, 0) ELSE h
(* A server that runs out of memory stops (Sys_Error). *)
Fits(h, size) == HunkSize - h.low - h.high >= size
Hunk_AllocName ==
    \E size \in BlockSize :
       Fits(hunk, size) /\ hunk' = Cache_FreeLow([hunk EXCEPT !.low = @ + size])
(* A file is loaded for a while, by what parses it. *)
Hunk_TempAlloc ==
    \E size \in BlockSize :
       LET h == Hunk_HighMark(hunk) IN
       Fits(h, size) /\ hunk' = [Cache_FreeHigh([h EXCEPT !.high = @ + size]) EXCEPT !.temp = TRUE]
Hunk_FreeToLowMark == hunk.low # hunk.host /\ hunk' = [hunk EXCEPT !.low = hunk.host]
Cache_Alloc ==
    \E u \in User, size \in BlockSize :
       LET left == [n \in 0..Len(hunk.lru) |->
                      FoldLeft(Cache_Free, hunk, Reverse(SubSeq(hunk.lru, Len(hunk.lru) - n + 1,
                                                                Len(hunk.lru))))]
           enough == {n \in DOMAIN left : Gaps(left[n], size, FALSE) # {}} IN
       /\ u \notin Range(hunk.lru) /\ enough # {}
       /\ hunk' = Cache_TryAlloc(left[Min(enough)], u, size, FALSE)
Cache_Check ==
    \E u \in Range(hunk.lru) :
       hunk' = [hunk EXCEPT !.lru = <<u>> \o SelectSeq(@, LAMBDA x : x # u)]
Cache_Flush == hunk.cache # <<>> /\ hunk' = [hunk EXCEPT !.cache = <<>>, !.lru = <<>>]
Hunk ==
    \/ Hunk_AllocName \/ Hunk_TempAlloc \/ Hunk_FreeToLowMark
    \/ Cache_Alloc \/ Cache_Check \/ Cache_Flush

(* No two blocks share memory: the cache lies between the ends of the hunk *)
(* as they grow, each of its blocks after the one before, and every block  *)
(* has one user.                                                           *)
NothingShared ==
    part = "hunk" =>
        LET c == hunk.cache IN
        /\ hunk.low + hunk.high <= HunkSize
        /\ \A i \in DOMAIN c : c[i].at >= GapStart(hunk, i - 1) /\ c[i].at + c[i].size <= Top(hunk)
        /\ Len(hunk.lru) = Len(c) /\ Range(hunk.lru) = {c[i].user : i \in DOMAIN c}

-----------------------------------------------------------------------------
(* A level of one player: edict 1 is the player's, the others are what the *)
(* map starts with and what comes later.  Texts are sequences of "a", "n", *)
(* "newline" and "backslash".  file is what was saved: till says whether    *)
(* all is there that was written of what follows the "head", the "styles"   *)
(* or the globals and edicts, or the server stopped inside of it; asSaved   *)
(* is what the level was then, to compare with what is loaded.              *)
Edict(text, owner, solid) ==
    [free |-> FALSE, text |-> text, owner |-> owner, solid |-> solid, linked |-> solid]
Clear == [Edict(<<>>, 0, FALSE) EXCEPT !.linked = FALSE]
Zero(e) == e.text = <<>> /\ e.owner = 0 /\ ~e.solid
ED_NewString(string) ==
    FoldLeft(LAMBDA out, i :
               IF i > 1 /\ string[i - 1] = "backslash" /\ (i = 2 \/ string[i - 2] # "backslash")
               THEN Append(Front(out), IF string[i] = "n" THEN "newline" ELSE "backslash")
               ELSE Append(out, string[i]),
             <<>>, [i \in DOMAIN string |-> i])
(* A field that is all 0 is not written, nor is any of a free edict. *)
ED_Write(e) ==
    IF e.free THEN <<>>
    ELSE (IF e.text = <<>> THEN <<>> ELSE <<[key |-> "text", text |-> e.text, num |-> 0]>>)
         \o (IF e.owner = 0 THEN <<>> ELSE <<[key |-> "owner", text |-> <<>>, num |-> e.owner]>>)
         \o (IF e.solid THEN <<[key |-> "solid", text |-> <<>>, num |-> 1]>> ELSE <<>>)
ED_ParseEpair(e, pair) ==
    CASE pair.key = "text" -> [e EXCEPT !.text = ED_NewString(pair.text)]
      [] pair.key = "owner" -> [e EXCEPT !.owner = pair.num]
      [] OTHER -> [e EXCEPT !.solid = pair.num # 0]
ED_ParseEdict(pairs, e) ==
    IF pairs = <<>> THEN [e EXCEPT !.free = TRUE] ELSE FoldLeft(ED_ParseEpair, e, pairs)
(* The areas keep what was linked, unless it is linked anew. *)
ED_ClearEdict(e) == [Clear EXCEPT !.linked = e.linked]
SV_LinkEdict(e) == IF e.free THEN e ELSE [e EXCEPT !.linked = e.solid]

Level(loading) ==
    [edicts |-> <<Clear>> \o [i \in DOMAIN Fresh |->
                   SV_LinkEdict(Edict(ED_NewString(Fresh[i]), 0, i % 2 = 1))],
     num |-> Len(Fresh) + 1, style |-> "", time |-> 1, paused |-> FALSE, loadgame |-> FALSE,
     global |-> 0, parm |-> IF loading THEN 0 ELSE 1, player |-> "connecting"]
NoFile == [till |-> "none"]
InitSaves == [level |-> Level(FALSE), file |-> NoFile, asSaved |-> Level(FALSE), loaded |-> FALSE]

(* What the game does, a frame at a time, when not paused: edicts come     *)
(* (the first free one is used again), change and go.                       *)
Changed(level) == [saves EXCEPT !.level = [level EXCEPT !.time = @ + 1], !.loaded = FALSE]
New(l) == Max({2, l.num + 1})
GameSpawns(l) ==
    {[l EXCEPT !.edicts[i] = [Clear EXCEPT !.text = t]] :
       i \in {k \in 2..l.num : l.edicts[k].free}, t \in Text}
      \cup {[l EXCEPT !.num = @ + 1,
               !.edicts = SubSeq(@, 1, New(l) - 1) \o <<Edict(t, 1, TRUE)>>
                          \o SubSeq(@, New(l) + 1, Len(@))] : t \in Text}
GameFrees(l) ==
    {[l EXCEPT !.edicts[i] = [Clear EXCEPT !.free = TRUE]] : i \in {k \in 2..l.num : ~l.edicts[k].free}}
GameChanges(l) ==
    {[l EXCEPT !.edicts[i].solid = ~@, !.edicts[i].linked = ~l.edicts[i].solid, !.global = 1] :
       i \in {k \in 1..l.num : ~l.edicts[k].free}}
      \cup {[l EXCEPT !.style = IF @ = "a" THEN "" ELSE "a"]}
Play ==
    LET l == saves.level IN
    /\ ~l.paused /\ l.player = "spawned" /\ l.num <= Len(Fresh) + 1 \* bound
    /\ saves' \in {Changed(x) : x \in GameSpawns(l) \cup GameFrees(l) \cup GameChanges(l)}
(* SV_SaveGame_f: for one player who is alive.  NULL styles are "m".        *)
(* entities: the globals, then the edicts, each flushed as it is written.   *)
Saved(l) ==
    [till |-> "end", parm |-> l.parm, time |-> l.time, style |-> IF l.style = "" THEN "m" ELSE l.style,
     entities |-> <<l.global>> \o [i \in 1..l.num |-> ED_Write(l.edicts[i])]]
(* What there is of it when the server stops as it writes. *)
CutShort(f) ==
    {[f EXCEPT !.till = at, !.entities = <<>>] : at \in {"head", "styles", "entity"}}
      \cup {[f EXCEPT !.entities = SubSeq(@, 1, n)] : n \in 0..(Len(f.entities) - 1)}
SV_SaveGame_f ==
    LET file == Saved(saves.level) IN
    /\ saves.level.player = "spawned"
    /\ \/ saves' = [saves EXCEPT !.file = file, !.asSaved = saves.level, !.loaded = FALSE]
       \/ \E cut \in CutShort(file) :                     \* the server starts anew
             saves' = [InitSaves EXCEPT !.file = cut, !.asSaved = saves.level]

(* Mutant: the edict of the level that is there is not cleared. *)
LoadedOver(e, pairs) == SV_LinkEdict(ED_ParseEdict(pairs, [e EXCEPT !.free = FALSE]))
Loaded(e, pairs) == SV_LinkEdict(ED_ParseEdict(pairs, ED_ClearEdict(e)))
LoadedLevel(f) ==
    LET l == Level(TRUE)
        n == Len(f.entities) - 1
        was == [i \in 1..Max({n, l.num}) |-> IF i <= l.num THEN l.edicts[i] ELSE Clear] IN
    [l EXCEPT !.style = f.style, !.paused = TRUE, !.loadgame = TRUE,
              !.global = IF n < 0 THEN l.global ELSE f.entities[1],
              !.edicts = [i \in DOMAIN was |-> IF i <= n THEN Loaded(was[i], f.entities[i + 1])
                                               ELSE was[i]],
              !.num = n, !.time = f.time, !.parm = f.parm]
(* A file that ends in its head is not loaded; one that ends in the styles *)
(* leaves the level as it starts; one that ends inside of the globals or of *)
(* an edict stops the server (SV_Error); one that ends between them is      *)
(* taken for whole.                                                         *)
SV_LoadGame_f ==
    /\ saves.file # NoFile
    /\ saves' = CASE saves.file.till = "head" -> saves
                  [] saves.file.till = "styles" -> [saves EXCEPT !.level = Level(TRUE), !.loaded = FALSE]
                  [] saves.file.till = "entity" -> [InitSaves EXCEPT !.file = saves.file,
                                                                     !.asSaved = saves.asSaved]
                  [] OTHER -> [saves EXCEPT !.level = LoadedLevel(saves.file), !.loaded = TRUE]
(* The player of a loaded game finds itself as it was, and lets it go on.  *)
Cmd_Spawn_f ==
    LET l == saves.level IN
    /\ l.player = "connecting"
    /\ saves' = [saves EXCEPT !.level =
                   IF l.loadgame THEN [l EXCEPT !.player = "spawned", !.paused = FALSE]
                   ELSE [l EXCEPT !.player = "spawned", !.edicts[1] = Edict(<<"a">>, 0, TRUE)]]
Saves == Play \/ SV_SaveGame_f \/ SV_LoadGame_f \/ Cmd_Spawn_f

Backslash(e) == "backslash" \in Range(e.text)
SameEdict(now, then) ==
    IF then.free \/ Zero(then) THEN now.free
    ELSE /\ ~now.free /\ now.owner = then.owner /\ now.solid = then.solid
         /\ now.linked = then.linked
         /\ Backslash(then) \/ now.text = then.text
(* A game that is loaded is the game that was saved, whatever the level    *)
(* starts with and was since: time, styles, globals and every edict under  *)
(* its number, until the player is in it; free edicts are touched by none.  *)
(* When the server stopped as it saved, it is that game without the globals *)
(* and edicts, from some number on, that were not written: the loader takes *)
(* what is left for a whole game (sv_save.c 148-151, 276-299).              *)
LoadedAsSaved ==
    part = "saves" =>
        LET l == saves.level
            was == saves.asSaved
            n == Len(saves.file.entities) IN
        saves.loaded =>
            /\ l.num = n - 1 /\ n <= Len(Saved(was).entities) /\ l.time = was.time /\ l.parm = was.parm
            /\ n > 0 => l.global = was.global
            /\ was.style # "" => l.style = was.style
            /\ \A i \in 1..l.num : SameEdict(l.edicts[i], was.edicts[i])
            /\ \A i \in DOMAIN l.edicts : l.edicts[i].free => ~l.edicts[i].solid
            /\ l.player = "connecting" => l.paused

-----------------------------------------------------------------------------
Init ==
    /\ part \in Parts /\ steps = 0
    /\ paths = InitPaths /\ packs = InitPacks /\ hunk = InitHunk /\ saves = InitSaves

Next ==
    /\ part' = part /\ steps < MaxSteps[part] /\ steps' = steps + 1   \* bound
    /\ \/ part = "paths" /\ Paths /\ UNCHANGED <<packs, hunk, saves>>
       \/ part = "packs" /\ PackFiles /\ UNCHANGED <<paths, hunk, saves>>
       \/ part = "hunk" /\ Hunk /\ UNCHANGED <<paths, packs, saves>>
       \/ part = "saves" /\ Saves /\ UNCHANGED <<paths, packs, hunk>>

Spec == Init /\ [][Next]_vars
=============================================================================
