------------------------------ MODULE MCWorld ------------------------------
(***************************************************************************)
(* The world as a client is shown it (EntityUpdates), and what the server  *)
(* does besides letting clients in and talking to them, each part on an    *)
(* instance of its own.  part says which it is; its variables are the      *)
(* first of s1, s2, ..., in the order of its INSTANCE, and the others      *)
(* stay 0.                                                                 *)
(***************************************************************************)
EXTENDS EntityUpdates, SequencesExt, TLC

VARIABLES part, s1, s2, s3, s4, s5, s6, s7, s8, s9

others == <<s1, s2, s3, s4, s5, s6, s7, s8, s9>>

-----------------------------------------------------------------------------
(* Two entities that are there from the start, as they were made; all three *)
(* there are, one of them changed, of which one does not fit the frame.    *)
Was(x, y) == [origin |-> x, frame |-> y]
FirstTwo == 1 :> Was(1, 0) @@ 2 :> Was(1, 1)
NearAndFar == 1 :> 2 @@ 2 :> 3 @@ 3 :> 1
Sights == {FirstTwo, 1 :> Was(0, 0) @@ 2 :> Was(1, 1) @@ 3 :> Was(1, 0)}

-----------------------------------------------------------------------------
(* An alias, two files that commands execute, one that waits inside a file *)
Consoles == INSTANCE Console WITH
    MaxCmdBuf <- 10, MaxLine <- 3, Wait <- "wait", Semicolon <- ";", Newline <- "\n",
    Alias <- [al |-> <<"c", ";", "c">>],
    File <- [ex |-> <<"c", "\n", "al">>, long |-> <<"c", "\n", "c", "\n", "c">>],
    ModCommand <- {"mod"},
    Given <- {<<"al", "\n">>, <<"ex", "\n", "c", "\n">>, <<"c", "c", "c">>,
              <<"mod", "\n", "wait", "\n", "c">>, <<"long", ";", "c", "\n">>,
              <<"mod", ";", "wait", "\n", "c", "\n">>, <<"wait", ";", "c", "\n">>,
              <<"al", ";", "c", "\n">>},
    MaxGiven <- 3, MaxRuns <- 8,
    cbuf <- s1, calls <- s2, current <- s3, wanted <- s4, taken <- s5, resumed <- s6,
    given <- s7, runs <- s8

(* Names of two buckets, that differ in case, begin with each other, and   *)
(* are commands, variables and aliases at once                             *)
Var(n, v, f) == [name |-> n, value |-> v, flags |-> f]
Word == INSTANCE Names WITH
    Lower <- [A |-> "a", B |-> "b"], Code <- [a |-> 1, b |-> 2], Buckets <- 2,
    Command <- {<<"a">>, <<"b">>}, ProgsName <- {<<"b", "b">>},
    Variable <- {Var(<<"a", "b">>, <<"1">>, ""), Var(<<"A">>, <<"b">>, "rom")},
    Lines <- {<<"alias", " ", "a", "b", " ", "2">>, <<"alias", " ", "a", " ", "1", " ", "2">>,
              <<"alias", " ", "A", "B", "a", " ", "$", "a", "b">>,
              <<"unalias", " ", "a", "b", "a">>, <<"unalias", " ", "A">>, <<"unaliasall">>,
              <<"set", " ", "B", " ", "1">>,
              <<"set", " ", "b", "a", " ", "\"", "a", " ", "a", "\"">>,
              <<"toggle", " ", "a", "B">>, <<"inc", " ", "b", "a">>, <<"a", "b", " ", "b">>,
              <<"if", " ", "$", "a", "b", " ", "==", " ", "b", " ", "then", " ", "x", " ",
                "else", " ", "y">>,
              <<"if", " ", "b", " ", "==", " ", "b", " ", "x">>, <<"A">>, <<"a", "b", "a">>},
    Texts <- SeqOf({"a", "b", " ", "\"", "+", "$"}, 4) \cup SeqOf({"a", "/", "\n", "-", "+"}, 4),
    MaxRuns <- 4,
    cmds <- s1, cvars <- s2, aliases <- s3, initialized <- s4, inserted <- s5, wanted <- s6,
    runs <- s7

(* Demos with numbers that are none, and a file that is gone *)
Download == INSTANCE Downloads WITH
    File <- [a |-> 3, b |-> 1], Absent <- "x",
    Queue <- {<<"x", "b", "a", "x">>, <<"b", "gone">>}, MaxAsked <- 3, MaxLevels <- 1,
    server <- s1, rate <- s2, client <- s3, toClient <- s4, toServer <- s5,
    cut <- s6, bad <- s7, asked <- s8, levels <- s9

(* What the programs run on, write, and keep in the server *)
Program == INSTANCE Programs WITH
    Func <- {1, 2}, Value <- {1, 2}, MaxDepth <- 5, LocalStack <- 4, Memory <- 20,
    MaxReenter <- 2, Files <- {"native", "qvm", "dat"}, MaxSteps <- 7,
    machine <- s1, engine <- s2, self <- s3, error <- s4, frames <- s5, steps <- s6

NQMessage ==
    [foundsecret |-> <<1>>, updatestat |-> <<1, 1, 4>>, print |-> <<1, 3>>,
     setview |-> <<1, 2>>, updatefrags |-> <<1, 1, 2>>, updatecolors |-> <<1, 1, 1>>,
     updatename |-> <<1, 1, 3>>, cdtrack |-> <<1, 1, 1>>, finale |-> <<1, 3>>,
     intermission |-> <<1>>, cutscene |-> <<1, 3>>, spike |-> <<1, 1, 2, 2, 2>>,
     gunshot |-> <<1, 1, 2, 2, 2>>, lightning |-> <<1, 1, 2, 2, 2, 2, 2, 2, 2>>,
     beam |-> <<1, 1, 2, 2, 2, 2, 2, 2, 2>>, explosion2 |-> <<1, 1, 2, 2, 2, 1, 1>>,
     badeffect |-> <<1, 1>>, bad |-> <<1>>]
Message == INSTANCE Messages WITH
    Client <- {1, 2}, Chunks <- NQMessage, Pieces <- {<<"a">>, <<"b", "\n">>}, MaxStuff <- 4,
    Effect <- {<<"all", TRUE>>, <<"phs", FALSE>>, <<"pvs", TRUE>>}, Outside <- {},
    Near <- {<<0, 0>>}, Sees <- {<<0, 0>>}, Hears <- {<<0, 0>>}, At <- <<{0}, {0, 1}>>,
    SpecPrint <- {"sprint", "stuffcmd"}, MaxTold <- 2, MaxSaid <- 4,
    sv <- s1, clients <- s2, nqp <- s3, error <- s4, writing <- s5, told <- s6,
    stuffed <- s7, said <- s8

(* Land with a step up and an edge, a bridge over a pit and a low ceiling, *)
(* and water with a wall in it                                             *)
Row(x, y) == [floor |-> x, ceil |-> y]
Lands ==
    [hill |-> [map |-> [p \in (0..6) \X (0..3) |->
                 CASE p[1] <= 2 -> Row(0, 20) [] p[1] \in 3..4 -> Row(2, 20)
                   [] OTHER -> Row(IF p[2] = 0 THEN -3 ELSE 1, 20)],
      bridge |-> (3..5) \X (0..3), water |-> 0,
      spawns |-> {[moves |-> "walks", at |-> <<1, 1, 1>>], [moves |-> "flies", at |-> <<1, 1, 1>>]},
      goal |-> <<5, 2, 3>>, goals |-> {<<5, 2, 3>>, <<1, 1, 0>>}],
     lake |-> [map |-> [p \in (0..6) \X (0..3) |-> Row(IF p[1] = 3 /\ p[2] < 3 THEN 8 ELSE 0, IF p[1] = 6 THEN 5 ELSE 12)],
      bridge |-> {<<5, 1>>}, water |-> 4,
      spawns |-> {[moves |-> "walks", at |-> <<5, 2, 0>>], [moves |-> "swims", at |-> <<1, 1, 3>>]},
      goal |-> <<1, 2, 6>>, goals |-> {<<1, 2, 6>>, <<5, 1, 0>>}]]
Builtin == INSTANCE Builtins WITH
    Parts <- {"strings", "walk", "turns", "files", "lists", "monster", "thinks"},
    Text <- {"a", "b"}, Land <- Lands, Step <- 2, Tall <- 3, YawSpeed <- 90,
    MinTic <- 1, MaxTic <- 2, Far <- 2, MaxTime <- 4,
    Progs <- {1, 2}, MaxZoned <- 3, MaxEdicts <- 6, Matching <- {2, 3, 5}, MaxClients <- 3,
    File <- {1, 2}, Missing <- {3}, MaxFiles <- 2, Model <- {1, 2, 3}, MaxModels <- 3,
    MaxStatic <- 1, MaxCalls <- 9,
    part <- s1, strings <- s2, walk <- s3, turns <- s4, files <- s5, lists <- s6, calls <- s7,
    monster <- s8, thinks <- s9

(* Keys that differ only in case; items that end in the middle of others   *)
Said(k, v) == [name |-> k, value |-> v]
PutAs(k, v) == [kind |-> k, v |-> v]
Encoding == INSTANCE Encodings WITH
    Parts <- {"infos", "message", "match"}, Name <- {"a", "A", "b", "s"},
    Fold <- [a |-> "a", A |-> "a", b |-> "b", s |-> "s"], Star <- {"s"},
    Values <- {<<>>, <<"x">>, <<"x", "y">>, <<"^">>, <<"x", "^">>, <<";">>, <<"z", "z", "z">>},
    Client <- {<<Said("a", <<"x">>), Said("A", <<"y">>), Said("s", <<"y">>)>>,
               <<Said("a", <<"y">>), Said("b", <<"z", "z", "z", "z">>)>>},
    MaxKey <- 4, MaxInfos <- 2, MaxString <- 12, Base <- 4,
    Item <- {PutAs("byte", <<3>>), PutAs("char", <<-1>>), PutAs("short", <<-3>>),
             PutAs("long", <<-70>>), PutAs("string", <<1, 3, 2>>), PutAs("coord", <<5>>),
             PutAs("coord", <<-9>>), PutAs("angle", <<13>>), PutAs("angle", <<-20>>),
             PutAs("usercmd", <<5, -2, 1, 3>>), PutAs("usercmd", <<0, -2, 1, 2>>),
             PutAs("usercmd", <<-7, 0, 1, 1>>), PutAs("usercmd", <<-7, 3, 0, 3>>)},
    MaxSize <- 12, Pattern <- SeqOf({"a", "b", "*", "?"}, 4), Subject <- SeqOf({"a", "b"}, 4),
    MaxCalls <- 3,
    part <- s1, infos <- s2, message <- s3, match <- s4, calls <- s5

(* Names that differ in case; packs with numbers, also out of turn, and    *)
(* without; a pack that was cut; edicts with texts that are written anew   *)
LowerA == <<"a", "a">>
LowerB == <<"b", "b">>
UpperB == <<"b", "B">>
LowerC == <<"c", "c">>
FileDirs == {"id1", "qw", "ctf", "tf"}
Directory ==
    [d \in FileDirs |->
       CASE d = "id1" -> {LowerA, LowerC} [] d = "tf" -> {UpperB} [] OTHER -> {}]
NumberedPacks ==
    [d \in FileDirs |->
       IF d = "id1" THEN <<<<LowerA, LowerB>>, <<LowerB, LowerA>>>> ELSE <<>>]
WildPacks == [d \in FileDirs |-> IF d = "ctf" THEN <<<<LowerB>>, <<LowerC>>>> ELSE <<>>]
File == INSTANCE Files WITH
    Parts <- {"paths", "packs", "hunk", "saves"},
    Name <- {LowerA, LowerB, UpperB, LowerC}, Gamedir <- {"qw", "ctf", "tf"},
    OnDisk <- Directory, Numbered <- NumberedPacks, Wild <- WildPacks,
    Archive <- <<{<<0, 2>>, <<2, 3>>}, {<<1, 3>>}>>, HunkSize <- 10, HostSize <- 2,
    User <- {"u", "v", "w"}, BlockSize <- {1, 2, 3},
    Fresh <- <<<<"a", "backslash", "n">>, <<"n">>>>,
    Text <- {<<"a">>, <<"newline", "n">>, <<"a", "backslash">>},
    MaxSteps <- [paths |-> 6, packs |-> 8, hunk |-> 7, saves |-> 7],
    part <- s1, paths <- s2, packs <- s3, hunk <- s4, saves <- s5, steps <- s6

-----------------------------------------------------------------------------
After5 == <<s6, s7, s8, s9>>
After6 == <<s7, s8, s9>>
After7 == <<s8, s9>>
After8 == <<s9>>
Unused8 == s9 = 0
Unused7 == s8 = 0 /\ Unused8
Unused6 == s7 = 0 /\ Unused7
Unused5 == s6 = 0 /\ Unused6
Unused == s1 = 0 /\ s2 = 0 /\ s3 = 0 /\ s4 = 0 /\ s5 = 0 /\ Unused5

InitEach ==
    /\ Init
    /\ \/ part = "updates" /\ Unused
       \/ part = "console" /\ Consoles!Init /\ Unused8
       \/ part = "names" /\ Word!Init /\ Unused7
       \/ part = "downloads" /\ Download!Init
       \/ part = "programs" /\ Program!Init /\ Unused6
       \/ part = "messages" /\ Message!Init /\ Unused8
       \/ part = "builtins" /\ Builtin!Init
       \/ part = "encodings" /\ Encoding!Init /\ Unused5
       \/ part = "files" /\ File!Init /\ Unused6

NextEach ==
    /\ part' = part
    /\ \/ part = "updates" /\ Next /\ UNCHANGED others
       \/ /\ UNCHANGED vars
          /\ \/ part = "console" /\ Consoles!Next /\ UNCHANGED After8
             \/ part = "names" /\ Word!Next /\ UNCHANGED After7
             \/ part = "downloads" /\ Download!Next
             \/ part = "programs" /\ Program!Next /\ UNCHANGED After6
             \/ part = "messages" /\ Message!Next /\ UNCHANGED After8
             \/ part = "builtins" /\ Builtin!Next
             \/ part = "encodings" /\ Encoding!Next /\ UNCHANGED After5
             \/ part = "files" /\ File!Next /\ UNCHANGED After6

SpecEach == InitEach /\ [][NextEach]_<<part, vars, others>>

(* EntityUpdates alone. *)
SpecUpdates == InitEach /\ part = "updates" /\ [][NextEach]_<<part, vars, others>>

-----------------------------------------------------------------------------

(* A file a client is sent, the server finds, loads or saves is whole and  *)
(* the one that was asked for, but for a saved game whose end is missing,  *)
(* of which the edicts that are there are loaded (sv_user.c, fs.c,         *)
(* vfs_pak.c, zone.c, sv_save.c).                                          *)
FilesAreWhole ==
    /\ part = "downloads" =>
           Download!FilesAreWhole /\ Download!RateFits /\ Download!ToldToReconnect
    /\ part = "files" =>
           /\ File!FoundAsSearched /\ File!GameHidesBase /\ File!ReadsItsOwn
           /\ File!NothingShared /\ File!LoadedAsSaved

(* What the programs write reaches a client as whole messages and lines,   *)
(* and what is encoded is decoded as what it was (pr_cmds.c, bothtools.c, *)
(* common.c).                                                              *)
WrittenAsMeant ==
    /\ part = "messages" => Message!StuffedInLines /\ Message!TranslatedWhole
    /\ part = "encodings" =>
           /\ Encoding!OneKeyChanges /\ Encoding!ListIsAMap /\ Encoding!ConvertedBack
           /\ Encoding!ReadAsWritten /\ Encoding!MatchesAsMeant

(* A function has its locals back when one it called returns (pr_exec.c),  *)
(* and the strings, files, lists and models that the programs hold in the  *)
(* server are the ones they asked for, until other programs than those     *)
(* that gave a string back make its mark memory (pr_cmds.c, pr2_cmds.c).   *)
ProgramsAreServed ==
    /\ part = "programs" => Program!LocalsKept
    /\ part = "builtins" =>
           /\ Builtin!StringsAreOwn /\ Builtin!AllAreFound /\ Builtin!EachInTurn
           /\ Builtin!HandlesAreRight /\ Builtin!NumbersNameModels
           /\ Builtin!MonstersKeepFooting /\ Builtin!ThinksInTime
=============================================================================
