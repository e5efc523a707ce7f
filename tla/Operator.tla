------------------------------ MODULE Operator ------------------------------
(***************************************************************************)
(* What the server's operator works with (sv_send.c, sv_ccmds.c,            *)
(* sv_main.c, sv_demo_misc.c): what commands print and for whom, the logs,  *)
(* the frags that ranking programs ask for, the addresses of VIPs, the      *)
(* list of maps, files that clients upload, and the directory of demos.     *)
(* part says which of them a behaviour is about.                            *)
(***************************************************************************)
EXTENDS Integers, FiniteSetsExt, SequencesExt

CONSTANTS
    Parts,              \* of "printing", "logs", "frags", "vips", "maps", "uploads", "demos"
    OutputSize,         \* MIN_MTU - 10, MAX_REDIRECTMESSAGES
    MaxMessages,
    MaxLogs, MaxLogSize,\* 1000 numbers of log files, sv_maxlogsize
    LogSize, HighWater, \* sizes of svs.log_buf: MAX_DATAGRAM, LOG_HIGHWATER
    Net, Host,          \* vip addresses as typed: sequences of numbers, 0 for any; hosts
    MaxNets,            \* MAX_IPFILTERS
    Map, MaxMaps,       \* maps; LOCALINFO_MAPS_LIST_START to _END
    Upload, Snap,       \* lengths of what is uploaded, in chunks; names of snaps (100)
    MaxUpload,          \* sv_maxuploadsize
    Demo, LastDemos,    \* names of demos; the 16 of demo.lastdemosname
    MaxSteps            \* bound, for each part

VARIABLES part, printing, logs, frags, vips, maps, uploads, demos, steps

vars == <<part, printing, logs, frags, vips, maps, uploads, demos, steps>>

-----------------------------------------------------------------------------
(* Texts are numbers in the order they are printed; to is sv_redirected.   *)
(* The programs read what a command prints ("mod") or have it sent to a    *)
(* player ("player"), inside of commands that are redirected themselves.   *)
Reader == {"packet", "client", "player", "mod", "none"}
(* part[n] is the redirection during which text n was printed, the k-th,   *)
(* and cut are those that ended as the programs read what another command  *)
(* prints, before they were given what the first had (histories).          *)
InitPrinting ==
    [to |-> "none", buf |-> <<>>, count |-> 0, calls |-> <<>>, said |-> 0, spawned |-> TRUE,
     k |-> 0, part |-> <<>>, cut |-> {}, meant |-> [r \in Reader |-> {}], got |-> [r \in Reader |-> <<>>],
     lost |-> [r \in Reader |-> {}]]
Size(buf) == FoldLeft(LAMBDA n, t : n + t.len, 0, buf)
Numbers(buf) == [i \in DOMAIN buf |-> buf[i].n]

Sent(p) ==
    CASE p.to = "packet" -> TRUE
      [] p.to = "client" -> p.count < MaxMessages
      [] p.to = "player" -> p.count < MaxMessages /\ p.spawned
      [] OTHER -> FALSE
SV_FlushRedirect(p) ==
    IF Sent(p) THEN [p EXCEPT !.got[p.to] = @ \o Numbers(p.buf), !.count = @ + 1, !.buf = <<>>]
    ELSE [p EXCEPT !.lost[p.to] = @ \cup Range(Numbers(p.buf)), !.buf = <<>>]
SV_BeginRedirect(p, to) == [p EXCEPT !.to = to, !.buf = <<>>, !.count = 0, !.k = @ + 1]
SV_EndRedirect(p) == [SV_FlushRedirect(p) EXCEPT !.to = "none"]
SV_AddToRedirect(p, t) ==
    LET room == IF Size(p.buf) + t.len > OutputSize THEN SV_FlushRedirect(p) ELSE p
    IN [room EXCEPT !.buf = Append(@, t)]
Con_Printf(len) ==
    LET t == [n |-> printing.said + 1, len |-> len]
        p == [printing EXCEPT !.said = @ + 1, !.part = Append(@, printing.k),
                              !.meant[printing.to] = @ \cup {t.n}] IN
    printing' = IF p.to = "none" THEN [p EXCEPT !.got["none"] = Append(@, t.n)]
                ELSE SV_AddToRedirect(p, t)

Calls(p, kind) == [p EXCEPT !.calls = Append(@, [kind |-> kind, old |-> p.to])]
(* Mutant: what was printed before for another is not sent first. *)
PF2_readcmdHasty(p) == SV_BeginRedirect(Calls(p, "read"), "mod")
PF2_readcmd(p) ==
    LET q == [Calls(p, "read") EXCEPT !.cut = IF p.to = "mod" THEN @ \cup {p.k} ELSE @]
    IN SV_BeginRedirect(IF p.to = "none" THEN q ELSE SV_EndRedirect(q), "mod")
PF2_redirectcmd(p) ==
    IF p.to # "none" THEN Calls(p, "through") ELSE SV_BeginRedirect(Calls(p, "redirect"), "player")
(* sv_onrecordfinish runs for the console, whoever ended the recording. *)
OnRecordFinish(p) == [Calls(p, "script") EXCEPT !.to = "none"]
(* "say" is given to the programs before it is printed for the client. *)
Say(p) == SV_EndRedirect(Calls(p, "say"))

(* strlcpy of outputbuf to the programs, which is then flushed to nobody.  *)
Read(p) == [p EXCEPT !.got["mod"] = @ \o Numbers(p.buf), !.buf = <<>>]
Returned(p) ==
    LET c == Last(p.calls)
        q == [p EXCEPT !.calls = Front(@)] IN
    CASE c.kind = "command" -> SV_EndRedirect(q)
      [] c.kind = "redirect" -> SV_EndRedirect(q)
      [] c.kind = "through" -> q
      [] c.kind = "script" -> [q EXCEPT !.to = c.old]
      [] c.kind = "say" -> SV_BeginRedirect(q, "client")
      [] OTHER -> LET r == SV_EndRedirect(Read(q))
                  IN IF c.old = "none" THEN r ELSE SV_BeginRedirect(r, c.old)

Deep == Len(printing.calls) = 3            \* bound
InScript == printing.calls # <<>> /\ Last(printing.calls).kind = "script"
StartCommand ==
    /\ printing.calls = <<>>
    /\ \E to \in {"packet", "client"} :
          printing' = SV_BeginRedirect(Calls(printing, "command"), to)
CallAnother ==
    /\ ~Deep /\ ~InScript
    /\ printing' \in {PF2_readcmd(printing), PF2_redirectcmd(printing)}
          \cup (IF printing.calls = <<>> THEN {} ELSE {OnRecordFinish(printing)})
          \cup (IF Len(printing.calls) = 1 /\ printing.to = "client" THEN {Say(printing)} ELSE {})
ReturnFrom == printing.calls # <<>> /\ printing' = Returned(printing)
(* Cmd_Drop_f: the client is told before it is dropped. *)
Cmd_Drop_f == Len(printing.calls) = 1 /\ printing.to = "client" /\ printing' = SV_EndRedirect(printing)
PlayerLeaves == printing.spawned /\ printing' = [printing EXCEPT !.spawned = FALSE]

Printing ==
    \/ \E len \in {1, 2} : Con_Printf(len)
    \/ StartCommand \/ CallAnother \/ ReturnFrom \/ Cmd_Drop_f \/ PlayerLeaves

Increasing(s) == \A i \in 1..(Len(s) - 1) : s[i] < s[i + 1]
(* Whoever runs a command gets what it prints, in order and once, however  *)
(* commands are called from within: a packet all of it, a client, and a    *)
(* player as long as it is in the game, at least the first                 *)
(* MAX_REDIRECTMESSAGES messages, the programs at least the last part that *)
(* fits the buffer.  But programs that read what a command prints in the   *)
(* middle of a command they read lose what the outer one printed before,   *)
(* all of that and no more (SV_EndRedirect at pr2_cmds.c 854 throws it    *)
(* away, sv_send.c 73).                                                    *)
PrintedForWhoAsked ==
    part = "printing" =>
        \A r \in Reader :
           LET of == IF InScript THEN Last(printing.calls).old ELSE printing.to
               waits == IF of = r THEN Range(Numbers(printing.buf)) ELSE {}
               has == Range(printing.got[r])
               lost == printing.lost[r] IN
           /\ Increasing(printing.got[r])
           /\ has \cup waits \cup lost = printing.meant[r]
           /\ r \in {"packet", "none"} => lost = {}
           /\ r = "client" \/ (r = "player" /\ printing.spawned) =>
                \A n \in lost : Cardinality({m \in has : m < n}) >= MaxMessages
           /\ r = "mod" =>
                \A n \in lost :
                   \/ printing.part[n] \in printing.cut
                   \/ \E m \in has \cup waits : m > n /\ printing.part[m] = printing.part[n]

-----------------------------------------------------------------------------
(* A log: the files there are, which is open (0 for none), its level.      *)
(* Lines are numbers; logged are those that were written.                  *)
InitLogs(always) ==
    [always |-> always, file |-> [i \in 1..MaxLogs |-> <<>>], there |-> 0, open |-> 0,
     level |-> 0, said |-> 0, logged |-> <<>>]
Closed(l) == [l EXCEPT !.open = 0]
(* Mutant: a file that is opened again is emptied. *)
OpenedAnew(l, i) == [l EXCEPT !.open = i, !.level = 1, !.there = Max({@, i}), !.file[i] = <<>>]
Opened(l, i) == [l EXCEPT !.open = i, !.level = 1, !.there = Max({@, i})]
SV_Logfile(l, newlog, opens) ==
    IF l.open # 0 /\ ~newlog THEN [Closed(l) EXCEPT !.level = 0]
    ELSE LET free == l.there + 1
             i == IF newlog \/ l.always THEN Min({free, MaxLogs}) ELSE Max({1, l.there})
         IN IF opens THEN Opened(l, i) ELSE Closed(l)
SV_Write_Log(l, level, writes, opens) ==
    LET n == l.said + 1
        said == [l EXCEPT !.said = n]
        line == [said EXCEPT !.file[l.open] = Append(@, n), !.logged = Append(@, n)] IN
    IF l.open = 0 \/ l.level < level THEN said
    ELSE IF ~writes THEN SV_Logfile(said, FALSE, TRUE)
    ELSE IF Len(line.file[l.open]) > MaxLogSize THEN SV_Logfile(line, TRUE, opens) ELSE line
SV_Shutdown(l) == [Closed(l) EXCEPT !.level = 0]
Logs ==
    \/ \E opens \in BOOLEAN : logs' = SV_Logfile(logs, FALSE, opens)
    \/ \E level \in {0, 2}, writes, opens \in BOOLEAN :
          logs' = SV_Write_Log(logs, level, writes, opens)
    \/ logs' = SV_Shutdown(logs)

(* What was logged is in the files, in the order of their numbers, however *)
(* logging is turned off and on, fails, or goes on in another file.        *)
LogsAreWhole == part = "logs" => logs.logged = FoldLeft(\o, <<>>, logs.file)

-----------------------------------------------------------------------------
(* The frags since the last block and the block before, for those who ask  *)
(* again and again with the number of the last block they have.            *)
InitFrags ==
    [logsequence |-> 1, log |-> [i \in {0, 1} |-> <<>>], due |-> FALSE, said |-> 0,
     overflowed |-> FALSE, block |-> <<>>, last |-> -1, got |-> <<>>]
SZ_Print(f) ==
    LET i == f.logsequence % 2
        over == Len(f.log[i]) = LogSize IN
    [f EXCEPT !.said = @ + 1, !.overflowed = @ \/ over,
              !.log[i] = IF over THEN <<f.said + 1>> ELSE Append(@, f.said + 1)]
(* Mutant: the buffer is used again as it is. *)
SwappedOver(f) == [f EXCEPT !.logsequence = @ + 1, !.due = FALSE, !.block = Append(@, f.log[f.logsequence % 2])]
Swapped(f) == [f EXCEPT !.logsequence = @ + 1, !.due = FALSE, !.block = Append(@, f.log[f.logsequence % 2]),
                        !.log[(f.logsequence + 1) % 2] = <<>>]
SV_CheckLog(f) ==
    LET n == Len(f.log[f.logsequence % 2]) IN
    IF n > HighWater \/ (f.due /\ n > 0) THEN Swapped(f) ELSE f
SVC_Log(f, seq) ==
    IF seq = f.logsequence - 1 THEN f
    ELSE [f EXCEPT !.last = f.logsequence - 1,
                   !.got = Append(@, [number |-> f.logsequence - 1,
                                      frags |-> f.log[(f.logsequence - 1) % 2]])]
Frags ==
    \/ frags' = SZ_Print(frags)
    \/ frags' = SV_CheckLog(frags)
    \/ frags' = [frags EXCEPT !.due = TRUE]          \* ten minutes later
    \/ frags' = SVC_Log(frags, frags.last)

(* A ranking program gets each block at most once and as it was when it    *)
(* was ended, and the blocks together are all the frags, each once (but    *)
(* for what a frame of more than fits makes the buffer forget).            *)
EachBlockOnce ==
    part = "frags" =>
        /\ \A i \in DOMAIN frags.got :
              LET g == frags.got[i] IN
              /\ g.frags = IF g.number = 0 THEN <<>> ELSE frags.block[g.number]
              /\ i > 1 => frags.got[i - 1].number < g.number
        /\ LET all == FoldLeft(\o, <<>>, frags.block) \o frags.log[frags.logsequence % 2] IN
           /\ Increasing(all)
           /\ ~frags.overflowed => Len(all) = frags.said

-----------------------------------------------------------------------------
(* Hosts and nets whose clients may take a slot of VIPs.  A number that is *)
(* 0 stands for any.  answered is what each host was when the file was     *)
(* written.                                                                *)
InitVips == [list |-> <<>>, file |-> <<>>, answered |-> [h \in Host |-> 0], changed |-> {}]
Matches(host, net) == \A i \in DOMAIN net : net[i] \in {0, host[i]}
Everyone(net) == \A i \in DOMAIN net : net[i] = 255
SV_VIPbyIP(list, host) ==
    LET k == SelectInSeq(list, LAMBDA f : Matches(host, f.net)) IN
    IF k = 0 THEN 0 ELSE list[k].level
Spot(list, net) == SelectInSeq(list, LAMBDA f : Everyone(f.net) \/ f.net = net)
SV_AddIPVIP(list, net, level) ==
    LET k == Spot(list, net)
        f == [net |-> net, level |-> Max({level, 1})] IN
    IF k # 0 THEN [list EXCEPT ![k] = f]
    ELSE IF Len(list) = MaxNets THEN list ELSE Append(list, f)
(* Mutant: the last takes the place of the one that is removed. *)
SV_RemoveIPVIPBySwap(list, net) ==
    LET k == SelectInSeq(list, LAMBDA f : f.net = net) IN
    IF k = 0 THEN list ELSE Front([list EXCEPT ![k] = Last(list)])
SV_RemoveIPVIP(list, net) ==
    LET k == SelectInSeq(list, LAMBDA f : f.net = net) IN
    IF k = 0 THEN list ELSE RemoveAt(list, k)

Answers(list) == [h \in Host |-> SV_VIPbyIP(list, h)]
AddVip == \E n \in Net, l \in {0, 2} : vips' = [vips EXCEPT !.list = SV_AddIPVIP(@, n, l), !.changed = {}]
RemoveVip ==
    \E n \in Net :
       LET list == SV_RemoveIPVIP(vips.list, n) IN
       vips' = [vips EXCEPT !.list = list,
                   !.changed = {h \in Host : ~Matches(h, n)
                                   /\ SV_VIPbyIP(list, h) # SV_VIPbyIP(vips.list, h)}]
SV_WriteIPVIP_f == vips' = [vips EXCEPT !.file = vips.list, !.answered = Answers(vips.list), !.changed = {}]
(* Mutant: executed from its end. *)
ExecutedBackwards(file) == FoldRight(LAMBDA f, l : SV_AddIPVIP(l, f.net, f.level), file, <<>>)
Executed(file) == FoldLeft(LAMBDA l, f : SV_AddIPVIP(l, f.net, f.level), <<>>, file)
RestartVips == vips' = [vips EXCEPT !.list = Executed(vips.file), !.changed = {}]
Vips == AddVip \/ RemoveVip \/ SV_WriteIPVIP_f \/ RestartVips

(* A server that executes the file it wrote answers as it did then, for    *)
(* every host, and a net that is removed changes nothing for the hosts     *)
(* outside of it, though the first net that matches is what counts.        *)
VipsAreKept ==
    part = "vips" => Answers(Executed(vips.file)) = vips.answered /\ vips.changed = {}

-----------------------------------------------------------------------------
(* Localinfo keys "1000" on hold the maps players may vote for: those of   *)
(* two directories, sorted, each once.  A map of both leaves a key of the  *)
(* second as it is.  What "maps" prints of a key it may pad with blanks.   *)
NoMap == "none"
InitMaps == [id1 |-> <<>>, qw |-> <<>>, cell |-> [i \in 1..MaxMaps |-> NoMap], fresh |-> FALSE]
CellsSet(cell, i, names) ==
    [k \in 1..MaxMaps |-> IF k \in i..(i + Len(names) - 1) THEN names[k - i + 1] ELSE cell[k]]
(* Mutant: compared with what all keys held. *)
Check_mapsAll(m) ==
    LET n == Min({Len(m.id1), MaxMaps})
        first == CellsSet(m.cell, 1, m.id1)
        new == [k \in DOMAIN m.qw |->
                  IF \E j \in 1..MaxMaps : first[j] = m.qw[k] THEN "same" ELSE "new"]
    IN [k \in 1..MaxMaps |->
          IF k <= n THEN first[k]
          ELSE IF k - n > Len(m.qw) THEN NoMap
          ELSE IF new[k - n] = "new" THEN m.qw[k - n] ELSE first[k]]
Check_maps(m) ==
    LET n == Min({Len(m.id1), MaxMaps})
        first == CellsSet(m.cell, 1, m.id1)
        new == [k \in DOMAIN m.qw |->
                  IF \E j \in 1..n : first[j] = m.qw[k] THEN "same" ELSE "new"]
    IN [k \in 1..MaxMaps |->
          IF k <= n THEN first[k]
          ELSE IF k - n > Len(m.qw) THEN NoMap
          ELSE IF new[k - n] = "new" THEN m.qw[k - n] ELSE first[k]]
SV_Check_maps_f == maps' = [maps EXCEPT !.cell = Check_maps(maps), !.fresh = TRUE]
SV_Localinfo_f ==
    \E k \in 1..MaxMaps, v \in {NoMap} \cup Map :
       maps' = [maps EXCEPT !.cell[k] = v, !.fresh = @ /\ maps.cell[k] = NoMap]
DirectoriesChange ==
    \E a, b \in SUBSET Map :
       maps' = [maps EXCEPT !.id1 = SetToSeq(a), !.qw = SetToSeq(b), !.fresh = FALSE]
Maps == SV_Check_maps_f \/ SV_Localinfo_f \/ DirectoriesChange
(* After the directories were looked at every map of either is listed,     *)
(* if there are keys for the files of both.                                *)
EveryMapListed ==
    (part = "maps" /\ maps.fresh /\ Len(maps.id1) + Len(maps.qw) <= MaxMaps) =>
        Range(maps.id1) \cup Range(maps.qw) \subseteq Range(maps.cell)

-----------------------------------------------------------------------------
(* A client that is asked for a picture of its screen, or may upload files *)
(* itself.  The client (external) uploads one thing at a time, a chunk     *)
(* each time it is told to, and ignores requests while it does.  A         *)
(* "stopul" is sent as a chunk of one upload comes in; crossed says that   *)
(* one stopped another upload, begun while it was under way.               *)
File == Range(Snap) \cup {"own"}
NotThere == [chunks |-> <<>>, there |-> FALSE, done |-> FALSE]
InitUploads ==
    [uploadfn |-> "", upload |-> "", remote |-> FALSE, file |-> [f \in File |-> NotThere],
     client |-> [id |-> 0, len |-> 0, at |-> 0], ids |-> 0, asked |-> 0, crossed |-> FALSE,
     toClient |-> <<>>, toServer |-> <<>>]
Tell(u, what) == [u EXCEPT !.toClient = Append(@, [what |-> what, id |-> 0])]
Stop(u, c) == [u EXCEPT !.toClient = Append(@, [what |-> "stopul", id |-> c.id])]
SV_Snap(u, remote) ==
    LET i == SelectInSeq(Snap, LAMBDA f : ~u.file[f].there) IN
    IF i = 0 THEN u ELSE Tell([u EXCEPT !.uploadfn = Snap[i], !.remote = remote], "snap")
(* The name is taken over before the file is looked for. *)
Cmd_Upload_f(u) ==
    LET named == [u EXCEPT !.uploadfn = "own"] IN
    IF u.file["own"].there THEN named ELSE Tell([named EXCEPT !.remote = FALSE], "fileul")
(* Mutant: the file stays open. *)
SV_CancelUploadOpen(u, c) == Stop(u, c)
SV_CancelUpload(u, c) == [Stop(u, c) EXCEPT !.upload = ""]
Cmd_NoSnap_f(u) == [u EXCEPT !.uploadfn = ""]
Chunk(u, c, opens) ==
    LET new == u.upload = ""
        into == IF new THEN u.uploadfn ELSE u.upload
        was == IF new THEN <<>> ELSE u.file[into].chunks
        file == [chunks |-> Append(was, <<c.id, c.at>>), there |-> TRUE, done |-> c.at = c.len]
        written == [u EXCEPT !.upload = IF file.done THEN "" ELSE into, !.file[into] = file] IN
    IF u.uploadfn = "" \/ (~new /\ u.remote /\ Len(was) + 1 > MaxUpload) THEN SV_CancelUpload(u, c)
    ELSE IF new /\ ~opens THEN [Stop(u, c) EXCEPT !.uploadfn = ""]
    ELSE IF file.done THEN written ELSE Tell(written, "nextul")
SV_NextUpload ==
    /\ uploads.toServer # <<>>
    /\ \E opens \in BOOLEAN :
          uploads' = Chunk([uploads EXCEPT !.toServer = Tail(@)], Head(uploads.toServer), opens)
Idle == [id |-> 0, len |-> 0, at |-> 0]
ClientSends(u) ==
    LET c == [u.client EXCEPT !.at = @ + 1] IN
    [u EXCEPT !.toServer = Append(@, c), !.client = IF c.at = c.len THEN Idle ELSE c]
ClientReads ==
    /\ uploads.toClient # <<>>
    /\ LET u == [uploads EXCEPT !.toClient = Tail(@)]
           what == Head(uploads.toClient).what IN
       CASE what \in {"snap", "fileul"} /\ u.client.id = 0 ->
              \E l \in Upload :
                 uploads' = ClientSends([u EXCEPT !.ids = @ + 1,
                                                  !.client = [id |-> u.ids + 1, len |-> l, at |-> 0]])
         [] what = "nextul" /\ u.client.id # 0 -> uploads' = ClientSends(u)
         [] what = "stopul" ->
              uploads' = [u EXCEPT !.client = Idle,
                            !.crossed = @ \/ u.client.id \notin {0, Head(uploads.toClient).id}]
         [] OTHER -> uploads' = u
DropUploader ==
    uploads' = [uploads EXCEPT !.uploadfn = "", !.upload = "", !.client = Idle,
                               !.toClient = <<>>, !.toServer = <<>>]
AskFor ==
    /\ uploads.asked < 3                    \* bound
    /\ LET u == [uploads EXCEPT !.asked = @ + 1] IN
       uploads' \in {SV_Snap(u, TRUE), SV_Snap(u, FALSE), Cmd_Upload_f(u)}
Refuse == uploads.uploadfn # "" /\ uploads' = Cmd_NoSnap_f(uploads)
Uploads == AskFor \/ SV_NextUpload \/ ClientReads \/ Refuse \/ DropUploader
(* A file that is complete holds what the client uploaded at one time,     *)
(* from its beginning, whatever was refused, cut off or left by its client *)
(* before, and however often it is asked meanwhile.  But once a "stopul"   *)
(* has stopped another upload than the one refused, the server waits for   *)
(* the rest of that and adds a later upload to it.  What is in the file is *)
(* even then in the order it was sent, and nothing twice.                  *)
UploadsAreWhole ==
    part = "uploads" =>
        \A f \in File : uploads.file[f].done =>
           LET c == uploads.file[f].chunks IN
           /\ ~uploads.crossed => \A i \in DOMAIN c : c[i] = <<c[1][1], i>>
           /\ \A i \in 1..(Len(c) - 1) :
                 \/ c[i][1] < c[i + 1][1]
                 \/ c[i][1] = c[i + 1][1] /\ c[i][2] < c[i + 1][2]

-----------------------------------------------------------------------------
(* The directory of demos, oldest file first: a demo and, under its name,  *)
(* a text about it.  dests are the demos being recorded, the latest first; *)
(* names of easyrecord are tried in the order of Demo.                     *)
InitDemos == [dir |-> <<>>, dests |-> <<>>, name |-> [i \in 0..(LastDemos - 1) |-> 0],
              pos |-> 0, recorded |-> <<>>, cleared |-> FALSE]
Mvd(n) == <<"mvd", n>>
Txt(n) == <<"txt", n>>
Removed(dir, f) == SelectSeq(dir, LAMBDA g : g # f)
Touched(dir, f) == Append(Removed(dir, f), f)
List(dir) == SelectSeq(dir, LAMBDA f : f[1] = "mvd")
WriteText(dir, n) == Touched(dir, Txt(n))
(* Demos that are recorded are written to, those removed no longer have a name. *)
Growing(dir, dests) ==
    FoldRight(LAMBDA n, r : IF Mvd(n) \in Range(r) THEN Touched(r, Mvd(n)) ELSE r, dests, dir)

(* With sv_demotxt twice sv_demoClearOld files are removed, the oldest; a  *)
(* demo that is recorded was written just now.                             *)
ClearOld(d) ==
    LET dir == Growing(d.dir, d.dests) IN
    [d EXCEPT !.dir = SubSeq(dir, Min({3, Len(dir) + 1}), Len(dir)), !.cleared = @ \/ dir # <<>>]
SV_DirSizeCheck(d, full) == IF full THEN ClearOld(d) ELSE d
SV_InitRecordFile(d, n) ==
    [d EXCEPT !.dir = WriteText(Touched(@, Mvd(n)), n), !.dests = <<n>> \o @]
SV_MVD_Record_f ==
    \E n \in Demo, full \in BOOLEAN :
       demos' = SV_InitRecordFile(SV_DirSizeCheck(demos, full), n)
SV_MVDEasyRecord_f ==
    \E full \in BOOLEAN :
       LET d == SV_DirSizeCheck(demos, full)
           free == {n \in Demo : Mvd(n) \notin Range(d.dir)} IN
       free # {} /\ demos' = SV_InitRecordFile(d, Min(free))

SV_AddLastDemo(d) ==
    IF d.dests = <<>> THEN d
    ELSE LET pos == (d.pos + 1) % LastDemos IN
         [d EXCEPT !.pos = pos, !.name[pos] = Head(d.dests), !.recorded = <<Head(d.dests)>> \o @]
SV_MVDStop(d) ==
    LET e == SV_AddLastDemo(d) IN
    [e EXCEPT !.dests = <<>>,
              !.dir = FoldLeft(WriteText, Growing(@, d.dests), d.dests)]
SV_MVD_Cancel_f ==
    /\ demos.dests # <<>>
    /\ demos' = [demos EXCEPT !.dests = <<>>,
                   !.dir = FoldLeft(LAMBDA dir, n : Removed(Removed(dir, Mvd(n)), Txt(n)), @, demos.dests)]
SV_MVDStop_f == demos.dests # <<>> /\ demos' = SV_MVDStop(demos)

(* Mutant: removed first. *)
WithoutDemoFirst(d, n) ==
    LET e == [d EXCEPT !.dir = Removed(Removed(@, Mvd(n)), Txt(n))] IN
    IF n \in Range(d.dests) THEN SV_MVDStop(e) ELSE e
WithoutDemo(d, n) ==
    LET e == IF n \in Range(d.dests) THEN SV_MVDStop(d) ELSE d IN
    [e EXCEPT !.dir = Removed(Removed(@, Mvd(n)), Txt(n))]
SV_MVDRemove_f ==
    \/ \E n \in Demo : demos' = WithoutDemo(demos, n)
    \/ demos' = FoldLeft(LAMBDA d, f : WithoutDemo(d, f[2]), demos, List(demos.dir))
(* Numbers from the list of demos; those with dots are of demos recorded.  *)
NumNumbered(d, k) == IF k \in 1..Len(List(d.dir)) THEN List(d.dir)[k][2] ELSE 0
(* Mutant: the place after. *)
NumDottedNext(d, dots) ==
    LET n == d.name[(d.pos - dots + 2) % LastDemos] IN IF Mvd(n) \in Range(d.dir) THEN n ELSE 0
NumDotted(d, dots) ==
    LET n == d.name[(d.pos - dots + 1) % LastDemos] IN IF Mvd(n) \in Range(d.dir) THEN n ELSE 0
SV_MVDRemoveNum_f ==
    \E k \in 1..Cardinality(Demo) :
       NumNumbered(demos, k) # 0 /\ demos' = WithoutDemo(demos, NumNumbered(demos, k))
SV_MVDInfo ==
    \E n \in {NumNumbered(demos, k) : k \in 1..Cardinality(Demo)}
               \cup (IF demos.dests = <<>> THEN {} ELSE {Head(demos.dests)}) :
       /\ n # 0
       /\ demos' \in {[demos EXCEPT !.dir = WriteText(@, n)], [demos EXCEPT !.dir = Removed(@, Txt(n))]}
Demos ==
    \/ SV_MVD_Record_f \/ SV_MVDEasyRecord_f \/ SV_MVDStop_f \/ SV_MVD_Cancel_f
    \/ SV_MVDRemove_f \/ SV_MVDRemoveNum_f \/ SV_MVDInfo

(* As long as the directory was not cleared of its oldest files, a demo    *)
(* that is recorded is in it, and no text is there without its demo, even  *)
(* when a demo is removed as it is recorded.                               *)
TextsHaveDemos ==
    (part = "demos" /\ ~demos.cleared) =>
        /\ \A n \in Range(demos.dests) : Mvd(n) \in Range(demos.dir)
        /\ \A n \in Demo : Txt(n) \in Range(demos.dir) => Mvd(n) \in Range(demos.dir)
(* So many dots are the demo that was recorded so many ago, or none when   *)
(* it was removed since.                                                   *)
DotsCountBack ==
    part = "demos" =>
        \A k \in 1..Min({LastDemos, Len(demos.recorded)}) :
           NumDotted(demos, k) =
              IF Mvd(demos.recorded[k]) \in Range(demos.dir) THEN demos.recorded[k] ELSE 0

-----------------------------------------------------------------------------
Init ==
    /\ part \in Parts /\ steps = 0
    /\ printing = InitPrinting /\ frags = InitFrags /\ vips = InitVips
    /\ maps = InitMaps /\ uploads = InitUploads /\ demos = InitDemos
    /\ logs \in (IF part = "logs" THEN {InitLogs(TRUE), InitLogs(FALSE)} ELSE {InitLogs(FALSE)})

Next ==
    /\ part' = part /\ steps < MaxSteps[part] /\ steps' = steps + 1   \* bound
    /\ \/ part = "printing" /\ Printing /\ UNCHANGED <<logs, frags, vips, maps, uploads, demos>>
       \/ part = "logs" /\ Logs /\ UNCHANGED <<printing, frags, vips, maps, uploads, demos>>
       \/ part = "frags" /\ Frags /\ UNCHANGED <<printing, logs, vips, maps, uploads, demos>>
       \/ part = "vips" /\ Vips /\ UNCHANGED <<printing, logs, frags, maps, uploads, demos>>
       \/ part = "maps" /\ Maps /\ UNCHANGED <<printing, logs, frags, vips, uploads, demos>>
       \/ part = "uploads" /\ Uploads /\ UNCHANGED <<printing, logs, frags, vips, maps, demos>>
       \/ part = "demos" /\ Demos /\ UNCHANGED <<printing, logs, frags, vips, maps, uploads>>

Spec == Init /\ [][Next]_vars
=============================================================================
