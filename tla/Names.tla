--------------------------------- MODULE Names ---------------------------------
(***************************************************************************)
(* What the words of the console stand for (cmd.c, cvar.c): commands,      *)
(* variables and aliases, each in a list and in a hash of chains; and how  *)
(* a line becomes words.                                                   *)
(*                                                                         *)
(* Text is a sequence of characters; the names of the commands that change *)
(* the tables are characters of their own.                                 *)
(***************************************************************************)
EXTENDS Integers, SequencesExt

CONSTANTS
    Lower, Code,        \* of each letter: in lower case; what it adds to the hash
    Buckets,            \* of a hash: 32
    Command, Variable,  \* names that the server defines, in any order
    ProgsName,          \* names that the progs register
    Lines,              \* lines to execute
    Texts,              \* lines to take apart
    MaxRuns             \* bound: lines executed

VARIABLES
    cmds, cvars, aliases,
    initialized,        \* host_initialized
    inserted,           \* what the last line has put into the command buffer
    wanted,             \* history: a dictionary in place of each table
    runs                \* bound

vars == <<cmds, cvars, aliases, initialized, inserted, wanted, runs>>

-----------------------------------------------------------------------------
(* A table: its nodes, the list they are in and the chains of the hash.    *)
Fold(name) == [i \in DOMAIN name |-> IF name[i] \in DOMAIN Lower THEN Lower[name[i]] ELSE name[i]]
Com_HashKey(name) ==
    FoldLeft(LAMBDA v, c : (v + (IF c \in DOMAIN Code THEN Code[c] ELSE 0)) % Buckets, 0, Fold(name))
NoTable == [node |-> <<>>, list |-> <<>>, hash |-> [k \in 0..(Buckets - 1) |-> <<>>]]

InChain(t, chain, name) ==
    LET i == SelectInSeq(chain, LAMBDA p : Fold(t.node[p].name) = Fold(name))
    IN IF i = 0 THEN 0 ELSE chain[i]
Find(t, name) == InChain(t, t.hash[Com_HashKey(name)], name)
Exists(t, name) == Find(t, name) # 0

Node(name, value, flags) == [name |-> name, value |-> value, flags |-> flags]
Linked(t, n) ==
    LET p == CHOOSE i \in 1..(Len(t.list) + 1) : ~Contains(t.list, i) IN
    [node |-> [i \in DOMAIN t.node \cup {p} |-> IF i = p THEN n ELSE t.node[i]],
     list |-> <<p>> \o t.list,
     hash |-> [t.hash EXCEPT ![Com_HashKey(n.name)] = <<p>> \o @]]
Freed(t, p) == [t EXCEPT !.list = Remove(@, p),
                         !.node = [i \in DOMAIN @ \ {p} |-> @[i]]]

(* Mutant: the chain goes on after it, whatever came before. *)
Cmd_DeleteAliasAtHead(t, name) ==
    LET p == Find(t, name)  key == Com_HashKey(name)  chain == t.hash[key] IN
    IF p = 0 THEN t
    ELSE Freed([t EXCEPT !.hash[key] =
                   SubSeq(chain, SelectInSeq(chain, LAMBDA q : q = p) + 1, Len(chain))], p)
Cmd_DeleteAlias(t, name) ==
    LET p == Find(t, name)  key == Com_HashKey(name) IN
    IF p = 0 THEN t ELSE Freed([t EXCEPT !.hash[key] = Remove(@, p)], p)

(* What a listing shows of a table, sorted by whatever order. *)
Listed(t) == [i \in DOMAIN t.list |-> t.node[t.list[i]].name]

-----------------------------------------------------------------------------
(* How a line becomes words. *)
Blank == {" ", "\t", "\r"}
Place(text, i) == IF i = 0 THEN Len(text) + 1 ELSE i
End(text, i, stop) == Place(text, SelectInSubSeq(text, i, Len(text), LAMBDA c : c \in stop))
SkipBlanks(text, i, blank) ==
    Place(text, SelectInSubSeq(text, i, Len(text), LAMBDA c : c \notin blank))

(* From i: the token, and where to go on; 0 at the end.  A comment goes on *)
(* with the next line.                                                     *)
Comment(text, j) == j < Len(text) /\ text[j] = "/" /\ text[j + 1] = "/"
Quote(text, s, q) ==
    [token |-> SubSeq(text, s + 1, q - 1), next |-> IF q > Len(text) THEN q ELSE q + 1]
Token(text, s, e) == [token |-> SubSeq(text, s, e - 1), next |-> e]
TokenAt(text, s) ==
    CASE s > Len(text) -> [token |-> <<>>, next |-> 0]
      [] s <= Len(text) /\ text[s] = "\"" -> Quote(text, s, End(text, s + 1, {"\""}))
      [] OTHER -> Token(text, s, End(text, s, Blank \cup {"\n"}))
COM_Parse(text, i) ==
    LET Start[k \in 1..(Len(text) + 1)] ==
            LET j == SkipBlanks(text, k, Blank \cup {"\n"}) IN
            IF Comment(text, j) THEN Start[End(text, j, {"\n"})] ELSE j
    IN TokenAt(text, Start[i])

Cmd_TokenizeString(text) ==
    LET From[i \in 0..(Len(text) + 1)] ==
            LET j == SkipBlanks(text, i, Blank)
                t == COM_Parse(text, j) IN
            IF i = 0 \/ j > Len(text) \/ text[j] = "\n" \/ t.next = 0 THEN <<>>
            ELSE <<t.token>> \o From[t.next]
    IN From[1]

(* After a $ that is not in quotes: the longest name of a variable that    *)
(* what follows begins with.                                               *)
(* Mutant: the first that is found. *)
BestVarShortest(t, word) ==
    SelectInSeq([n \in DOMAIN word |-> SubSeq(word, 1, n)], LAMBDA w : Exists(t, w))
BestVar(t, word) ==
    SelectLastInSeq([n \in DOMAIN word |-> SubSeq(word, 1, n)], LAMBDA w : Exists(t, w))
Cmd_ExpandString(t, text) ==
    LET From[i \in 1..(Len(text) + 1), quoted \in BOOLEAN] ==
            LET e == End(text, i + 1, Blank \cup {"\n", "$"})
                word == SubSeq(text, i + 1, e - 1)
                n == BestVar(t, word) IN
            IF i > Len(text) THEN <<>>
            ELSE IF text[i] = "$" /\ ~quoted
            THEN (IF n = 0 THEN <<"$">> \o word
                  ELSE t.node[Find(t, SubSeq(word, 1, n))].value \o SubSeq(word, n + 1, Len(word)))
                 \o From[e, quoted]
            ELSE <<text[i]>> \o From[i + 1, quoted # (text[i] = "\"")]
    IN From[1, FALSE]

(* The words from one on, with blanks between: the quotes are gone. *)
Joined(argv, i) ==
    FoldLeft(LAMBDA s, w : IF s = <<>> THEN w ELSE s \o <<" ">> \o w, <<>>, SubSeq(argv, i, Len(argv)))

(* Commands of the command line begin with a + and end at a - or the next. *)
(* Mutant: it goes on behind the character that ended one. *)
NextCommandLate(j) == j + 1
NextCommand(j) == j
Cmd_StuffCmds_f(text) ==
    LET From[i \in 1..(Len(text) + 2)] ==
            LET j == End(text, i + 1, {"+", "-"}) IN
            IF i > Len(text) THEN <<>>
            ELSE IF text[i] = "+"
                 THEN <<SubSeq(text, i + 1, j - 1)>> \o From[NextCommand(j)]
            ELSE From[i + 1]
    IN From[1]

-----------------------------------------------------------------------------
(* The dictionaries. *)
NoWords == [n \in {} |-> <<>>]
With(d, name, value) ==
    [n \in DOMAIN d \cup {Fold(name)} |-> IF n = Fold(name) THEN value ELSE d[n]]
Without(d, name) == [n \in DOMAIN d \ {Fold(name)} |-> d[n]]
Known(d, name) == Fold(name) \in DOMAIN d

Builtin == {<<"alias">>, <<"unalias">>, <<"unaliasall">>, <<"set">>, <<"toggle">>, <<"inc">>, <<"if">>}
Init ==
    /\ cmds = FoldLeft(LAMBDA t, n : Linked(t, Node(n, <<>>, "")), NoTable, SetToSeq(Builtin))
    /\ cvars = NoTable /\ aliases = NoTable
    /\ initialized = FALSE /\ inserted = <<>> /\ runs = 0
    /\ wanted = [cmds |-> [n \in Builtin |-> <<>>], cvars |-> NoWords, aliases |-> NoWords]

Cmd_AddCommand ==
    /\ ~initialized
    /\ \E name \in Command :
          /\ ~Exists(cvars, name) /\ ~Exists(cmds, name)
          /\ cmds' = Linked(cmds, Node(name, <<>>, ""))
          /\ wanted' = [wanted EXCEPT !.cmds = With(@, name, <<>>)]
    /\ UNCHANGED <<cvars, aliases, initialized, inserted, runs>>

Cvar_Register ==
    /\ ~initialized
    /\ \E v \in Variable :
          /\ ~Exists(cvars, v.name) /\ ~Exists(cmds, v.name)
          /\ cvars' = Linked(cvars, v)
          /\ wanted' = [wanted EXCEPT !.cvars = With(@, v.name, v.value)]
    /\ UNCHANGED <<cmds, aliases, initialized, inserted, runs>>

Initialized ==
    /\ ~initialized /\ initialized' = TRUE
    /\ UNCHANGED <<cmds, cvars, aliases, inserted, wanted, runs>>

(* A variable keeps its value when it is read-only. *)
Cvar_Set(p, value) ==
    /\ cvars' = IF cvars.node[p].flags = "rom" THEN cvars
                ELSE [cvars EXCEPT !.node[p].value = value]
    /\ wanted' = IF cvars.node[p].flags = "rom" THEN wanted
                 ELSE [wanted EXCEPT !.cvars = With(@, cvars.node[p].name, value)]
Cvar_Create(name, value, flags) ==
    /\ cvars' = Linked(cvars, Node(name, value, flags))
    /\ wanted' = [wanted EXCEPT !.cvars = With(@, name, value)]

Same == UNCHANGED <<cmds, cvars, aliases, wanted, inserted>>
Digit == [d \in {<<"0">>, <<"1">>, <<"2">>} |-> CASE d = <<"0">> -> 0 [] d = <<"1">> -> 1 [] OTHER -> 2]
Number(value) == IF value \in DOMAIN Digit THEN Digit[value] ELSE 0
Text(n) == CHOOSE d \in DOMAIN Digit : Digit[d] = n

(* Mutant: an alias that is there is linked once more. *)
AliasSetTwice(t, name, value) == Linked(t, Node(name, value, ""))
AliasSet(t, name, value) ==
    LET p == Find(t, name) IN
    IF p = 0 THEN Linked(t, Node(name, value, "")) ELSE [t EXCEPT !.node[p] = Node(name, value, "")]
Cmd_Alias_f(argv) ==
    IF Len(argv) = 1 THEN Same
    ELSE LET value == Joined(argv, 3) IN
         /\ aliases' = AliasSet(aliases, argv[2], value)
         /\ wanted' = [wanted EXCEPT !.aliases = With(@, argv[2], value)]
         /\ UNCHANGED <<cmds, cvars, inserted>>
Cmd_UnAlias_f(argv) ==
    IF Len(argv) # 2 THEN Same
    ELSE /\ aliases' = Cmd_DeleteAlias(aliases, argv[2])
         /\ wanted' = [wanted EXCEPT !.aliases = Without(@, argv[2])]
         /\ UNCHANGED <<cmds, cvars, inserted>>
(* Mutant: the chains stay. *)
NoAliasesButChains(t) == [t EXCEPT !.node = <<>>, !.list = <<>>]
NoAliases(t) == NoTable
Cmd_UnAliasAll_f ==
    /\ aliases' = NoAliases(aliases)
    /\ wanted' = [wanted EXCEPT !.aliases = NoWords]
    /\ UNCHANGED <<cmds, cvars, inserted>>

MayCreate(name) == ~Exists(cmds, name)
Cvar_Set_f(argv) ==
    IF Len(argv) # 3 THEN Same
    ELSE LET p == Find(cvars, argv[2]) IN
         IF p # 0 THEN Cvar_Set(p, argv[3]) /\ UNCHANGED <<cmds, aliases, inserted>>
         ELSE IF MayCreate(argv[2])
         THEN Cvar_Create(argv[2], argv[3], "user") /\ UNCHANGED <<cmds, aliases, inserted>>
         ELSE Same
Cvar_Toggle_f(argv) ==
    LET p == Find(cvars, argv[2]) IN
    IF Len(argv) # 2 \/ p = 0 THEN Same
    ELSE /\ Cvar_Set(p, IF Number(cvars.node[p].value) # 0 THEN <<"0">> ELSE <<"1">>)
         /\ UNCHANGED <<cmds, aliases, inserted>>
Cvar_Inc_f(argv) ==
    LET p == Find(cvars, argv[2])
        n == Number(cvars.node[p].value) + 1 IN
    IF Len(argv) # 2 \/ p = 0 THEN Same
    ELSE n <= 2 /\ Cvar_Set(p, Text(n)) /\ UNCHANGED <<cmds, aliases, inserted>>     \* bound

(* if x == y [then] this [else that]: which of the two is put into the     *)
(* buffer; nothing when there is no else.                                  *)
Cmd_If_f(argv) ==
    LET else == IF SelectInSubSeq(argv, 5, Len(argv), LAMBDA w : w = <<"else">>) = 0 THEN Len(argv) + 1
                ELSE SelectInSubSeq(argv, 5, Len(argv), LAMBDA w : w = <<"else">>)
        this == SubSeq(argv, IF argv[5] = <<"then">> THEN 6 ELSE 5, else - 1)
        that == SubSeq(argv, else + 1, Len(argv)) IN
    /\ inserted' = CASE Len(argv) < 5 \/ argv[3] # <<"==">> -> inserted
                     [] argv[2] = argv[4] -> Joined(this, 1)
                     [] else > Len(argv) -> inserted
                     [] OTHER -> Joined(that, 1)
    /\ UNCHANGED <<cmds, cvars, aliases, wanted>>

Runs(argv) ==
    CASE argv[1] = <<"alias">> -> Cmd_Alias_f(argv)
      [] argv[1] = <<"unalias">> -> Cmd_UnAlias_f(argv)
      [] argv[1] = <<"unaliasall">> -> Cmd_UnAliasAll_f
      [] argv[1] = <<"set">> -> Cvar_Set_f(argv)
      [] argv[1] = <<"toggle">> -> Len(argv) > 1 /\ Cvar_Toggle_f(argv)
      [] argv[1] = <<"inc">> -> Len(argv) > 1 /\ Cvar_Inc_f(argv)
      [] argv[1] = <<"if">> -> Cmd_If_f(argv)
      [] OTHER -> Same
Cvar_Command(argv) ==
    IF Len(argv) = 1 THEN Same
    ELSE Cvar_Set(Find(cvars, argv[1]), Joined(argv, 2)) /\ UNCHANGED <<cmds, aliases, inserted>>

(* A command, a variable or an alias, in this order; the progs come last.  *)
Cmd_ExecuteString ==
    /\ initialized /\ runs < MaxRuns /\ runs' = runs + 1                    \* bound
    /\ \E line \in Lines :
       \E argv \in {Cmd_TokenizeString(Cmd_ExpandString(cvars, line))} :
       IF argv = <<>> THEN Same
       ELSE IF Exists(cmds, argv[1]) THEN Runs(argv)
       ELSE IF Exists(cvars, argv[1]) THEN Cvar_Command(argv)
       ELSE IF Exists(aliases, argv[1])
       THEN /\ inserted' = aliases.node[Find(aliases, argv[1])].value
            /\ UNCHANGED <<cmds, cvars, aliases, wanted>>
       ELSE Same
    /\ UNCHANGED initialized

(* The progs: only whether there is such a variable is asked. *)
PF_registercvar ==
    /\ initialized
    /\ \E name \in ProgsName :
          /\ ~Exists(cvars, name)
          /\ Cvar_Create(name, <<"0">>, "progs")
    /\ UNCHANGED <<cmds, aliases, initialized, inserted, runs>>

Next ==
    \/ Cmd_AddCommand \/ Cvar_Register \/ Initialized
    \/ Cmd_ExecuteString \/ PF_registercvar

Spec == Init /\ [][Next]_vars

-----------------------------------------------------------------------------
(* Each table is what a dictionary would be: found by the hash, whatever   *)
(* the case, are exactly the names that were defined and not deleted, with *)
(* the last value; a listing shows the same, each once (cmd.c:393-554,     *)
(* 671-705, cvar.c:60-72, 231-261, 390-414).                               *)
Agrees(t, d) ==
    /\ \A n \in DOMAIN d : Exists(t, n) /\ t.node[Find(t, n)].value = d[n]
    /\ Len(Listed(t)) = Cardinality(DOMAIN d)
    /\ {Fold(n) : n \in ToSet(Listed(t))} = DOMAIN d
    /\ \A k \in DOMAIN t.hash : ToSet(t.hash[k]) \subseteq ToSet(t.list)
FoundAsDefined ==
    /\ Agrees(cmds, wanted.cmds)
    /\ Agrees(cvars, wanted.cvars)
    /\ Agrees(aliases, wanted.aliases)

(* No name means two things: a variable is no command, in whatever order   *)
(* they are defined, unless the progs registered it; an alias may hide     *)
(* behind either (cmd.c:680, cvar.c:243, 494).                             *)
OneMeaning ==
    \A p \in DOMAIN cvars.node :
       cvars.node[p].flags # "progs" => ~Exists(cmds, cvars.node[p].name)

(* A line is taken apart as it was put together: words in quotes are words *)
(* whatever they hold; $ stands for the longest variable there is, and     *)
(* a text without $ for itself; every + of the command line begins a       *)
(* command of its own (cmd.c:272-323, 615-663, 788-868).                   *)
Quoted(argv) == FoldLeft(LAMBDA s, w : s \o <<"\"">> \o w \o <<"\"", " ">>, <<>>, argv)
Parts(word) == {w \in {SubSeq(word, 1, n) : n \in DOMAIN word} : Exists(cvars, w)}
LinesAsMeant ==
    runs = 0 /\ initialized =>
      \A text \in Texts :
        /\ LET argv == Cmd_TokenizeString(text) IN
           (\A i \in DOMAIN argv : ~Contains(argv[i], "\"")) => Cmd_TokenizeString(Quoted(argv)) = argv
        /\ ~Contains(text, "$") => Cmd_ExpandString(cvars, text) = text
        /\ Parts(text) # {} =>
             \E w \in Parts(text) :
               /\ \A v \in Parts(text) : Len(v) <= Len(w)
               /\ IsPrefix(cvars.node[Find(cvars, w)].value, Cmd_ExpandString(cvars, <<"$">> \o text))
        /\ LET lines == Cmd_StuffCmds_f(text) IN
           /\ Len(lines) = Cardinality({i \in DOMAIN text : text[i] = "+"})
           /\ \A i \in DOMAIN lines : {"+", "-"} \cap ToSet(lines[i]) = {}
=============================================================================
