------------------------------ MODULE Console ------------------------------
(***************************************************************************)
(* The command buffer (cmd.c): text waits in the middle of a fixed array,  *)
(* commands are taken from its front, and what a command stands for (an    *)
(* alias, a file, the branch of an if) is put back there.  A command of    *)
(* the progs may run the buffer again from within (PF2_executecmd).        *)
(*                                                                         *)
(* Text is a sequence of words and separators, each of length one, and     *)
(* marked with where it was written, see Marked.                           *)
(***************************************************************************)
EXTENDS Integers, Sequences

CONSTANTS
    MaxCmdBuf,          \* MAXCMDBUF
    MaxLine,            \* sizeof(line) in Cbuf_ExecuteEx
    Wait,               \* the word that ends the frame
    Semicolon, Newline,
    Alias,              \* words that stand for text: what each stands for
    File,               \* the same for exec and if
    ModCommand,         \* words that make the progs run the buffer
    Given,              \* texts that come from outside
    MaxGiven,           \* bound: how many of them
    MaxRuns             \* bound: lines run

VARIABLES
    cbuf,       \* cbuf_main: text_buf, text_start and text_end
    calls,      \* calls of Cbuf_Execute under way, each with its semicolon
    current,    \* cbuf_current is set
    wanted,     \* history: the text that should be waiting
    taken,      \* history: the last line that was taken, see Taken
    resumed,    \* history: a call goes on, behind a semicolon, after one within it
    given, runs \* bounds

history == <<wanted, taken, resumed>>

vars == <<cbuf, calls, current, history, given, runs>>

(* History: what was written before a word on its line, and whether that   *)
(* is the first line of what a word stands for that a semicolon follows.   *)
Marked(text, late) ==
    LET from(i) == {k \in 1..(i - 1) : \A j \in k..(i - 1) : text[j] # Newline} IN
    [i \in DOMAIN text |-> [word |-> text[i], before |-> {text[k] : k \in from(i)},
                           late |-> late /\ from(i) = 1..(i - 1)]]
Nul == [word |-> "nul", before |-> {}, late |-> FALSE]
EndOfLine == Marked(<<Newline>>, FALSE)

NotTaken == [first |-> Nul, long |-> FALSE, ran |-> TRUE, resumed |-> FALSE]

Init ==
    /\ cbuf = [text |-> [i \in 0..(MaxCmdBuf - 1) |-> Nul],
               start |-> MaxCmdBuf \div 2, end |-> MaxCmdBuf \div 2]
    /\ calls = <<>>
    /\ current = FALSE
    /\ wanted = <<>> /\ taken = NotTaken /\ resumed = FALSE
    /\ given = 0 /\ runs = 0

Waiting(b) == [i \in 1..(b.end - b.start) |-> b.text[b.start + i - 1]]
Copied(b, to, text) ==
    [b EXCEPT !.text = [i \in DOMAIN @ |-> IF i - to + 1 \in DOMAIN text
                                           THEN text[i - to + 1] ELSE @[i]]]

(* Everything in the middle, when there is no room on the side it should   *)
(* go to.  (Text only ever moves down, so that memcpy will do.)            *)
Recentred(b, text) ==
    LET to == (MaxCmdBuf - Len(text)) \div 2
    IN [Copied(b, to, text) EXCEPT !.start = to, !.end = to + Len(text)]

Cbuf_AddText(b, text) ==
    IF b.end + Len(text) <= MaxCmdBuf
    THEN [Copied(b, b.end, text) EXCEPT !.end = @ + Len(text)]
    ELSE IF Len(Waiting(b) \o text) > MaxCmdBuf THEN b
    ELSE Recentred(b, Waiting(b) \o text)

(* Mutant: no room is left for the newline. *)
InsertedInFrontTight(b, line) ==
    IF Len(line) <= b.start + 1
    THEN [Copied(b, b.start - Len(line), line) EXCEPT !.start = @ - Len(line)]
    ELSE Recentred(b, line \o Waiting(b))

InsertedInFront(b, line) ==
    IF Len(line) <= b.start
    THEN [Copied(b, b.start - Len(line), line) EXCEPT !.start = @ - Len(line)]
    ELSE IF Len(line \o Waiting(b)) > MaxCmdBuf THEN b
    ELSE Recentred(b, line \o Waiting(b))

Cbuf_InsertText(b, text) == InsertedInFront(b, text \o EndOfLine)

(* What the two should come to, for a queue of text of the same size. *)
Added(q, text) == IF Len(q \o text) <= MaxCmdBuf THEN q \o text ELSE q
Inserted(q, text) == IF Len(q \o text) + 1 <= MaxCmdBuf
                     THEN text \o EndOfLine \o q ELSE q

-----------------------------------------------------------------------------
(* The first line: up to a separator, or everything. *)
LineLength(text) ==
    LET ends == {i \in DOMAIN text : text[i].word \in {Semicolon, Newline}}
    IN IF ends = {} THEN Len(text) ELSE (CHOOSE i \in ends : \A j \in ends : i <= j) - 1

(* The state of the switch after a separator: 1 and 2 after the first and  *)
(* further semicolons, 3 after the newline that ends such a line.          *)
(* Mutant: which the next newline does not forget. *)
AfterForGood(semicolon, separator) ==
    CASE separator = Semicolon -> IF semicolon \in {0, 3} THEN 1 ELSE 2
      [] separator = Newline -> IF semicolon \in {1, 2, 3} THEN 3 ELSE 0
      [] OTHER -> semicolon

After(semicolon, separator) ==
    CASE separator = Semicolon -> IF semicolon \in {0, 3} THEN 1 ELSE 2
      [] separator = Newline -> IF semicolon \in {1, 2} THEN 3 ELSE 0
      [] OTHER -> semicolon

(* Mutant: the last line leaves the buffer where it is. *)
WithoutLineInPlace(b, n) == [b EXCEPT !.start = @ + n + 1]

WithoutLine(b, n) ==
    IF n = b.end - b.start
    THEN [b EXCEPT !.start = MaxCmdBuf \div 2, !.end = MaxCmdBuf \div 2]
    ELSE [b EXCEPT !.start = @ + n + 1]

(* Cmd_ExecuteString, for what the command does to the buffer.             *)
AliasInserted(b, text) == Cbuf_InsertText(Cbuf_InsertText(b, EndOfLine), text)

Return(stack) == SubSeq(stack, 1, Len(stack) - 1)
(* History: the call that goes on then has met a semicolon. *)
Resumed == Len(calls) > 1 /\ calls[Len(calls) - 1] \in {1, 2}

(* One turn of the loop in Cbuf_Execute. *)
ExecuteLine ==
    LET text == Waiting(cbuf)
        n == LineLength(text)
        last == n = Len(text)
        separator == (IF last THEN Nul ELSE text[n + 1]).word
        semicolon == After(calls[Len(calls)], separator)
        ran == n # 0 /\ n < MaxLine /\ semicolon <= 1
        word == (IF ran THEN text[1] ELSE Nul).word
        late == separator = Semicolon
        left == WithoutLine(cbuf, n)
        rest == SubSeq(text, n + 2, Len(text))
        turned == [calls EXCEPT ![Len(calls)] = semicolon]
        returns == word = Wait /\ current
    IN
    /\ calls # <<>> /\ text # <<>>
    /\ runs < MaxRuns           \* bound
    /\ runs' = runs + 1
    /\ cbuf' = IF word \in DOMAIN Alias THEN AliasInserted(left, Marked(Alias[word], late))
               ELSE IF word \in DOMAIN File THEN Cbuf_InsertText(left, Marked(File[word], late))
               ELSE left
    /\ wanted' = IF word \in DOMAIN Alias
                 THEN Inserted(Inserted(rest, EndOfLine), Marked(Alias[word], late))
                 ELSE IF word \in DOMAIN File THEN Inserted(rest, Marked(File[word], late))
                 ELSE rest
    /\ taken' = IF n = 0 THEN NotTaken
                ELSE [first |-> text[1], long |-> n >= MaxLine, ran |-> ran, resumed |-> resumed]
    /\ resumed' = IF returns THEN Resumed ELSE resumed /\ separator # Newline
    /\ calls' = IF word \in ModCommand THEN Append(turned, 0)
                ELSE IF returns THEN Return(turned)
                ELSE turned
    /\ current' = IF word \in ModCommand THEN TRUE
                  ELSE IF word = Wait THEN FALSE
                  ELSE current
    /\ UNCHANGED given

(* Nothing is left: the call returns, into a command of another if it was  *)
(* nested, which has lost cbuf_current by then.                            *)
ExecuteEnds ==
    /\ calls # <<>> /\ cbuf.start >= cbuf.end
    /\ calls' = Return(calls)
    /\ current' = FALSE
    /\ resumed' = Resumed
    /\ UNCHANGED <<cbuf, wanted, taken, given, runs>>

(* Cbuf_Execute in a frame of the server. *)
Cbuf_Execute ==
    /\ calls = <<>> /\ cbuf.start < cbuf.end
    /\ runs < MaxRuns           \* bound
    /\ calls' = <<0>>
    /\ current' = TRUE
    /\ UNCHANGED <<cbuf, history, given, runs>>

(* Text from the terminal, from rcon or from the progs (PF_localcmd); that *)
(* of the progs may come while a command of theirs runs.                   *)
AddText ==
    /\ given < MaxGiven         \* bound
    /\ given' = given + 1
    /\ \E text \in {Marked(g, FALSE) : g \in Given} :
          /\ cbuf' = Cbuf_AddText(cbuf, text)
          /\ wanted' = Added(wanted, text)
    /\ UNCHANGED <<calls, current, taken, resumed, runs>>

Next == ExecuteLine \/ ExecuteEnds \/ Cbuf_Execute \/ AddText

Spec == Init /\ [][Next]_vars

-----------------------------------------------------------------------------
(* Whatever is added, inserted and taken, wherever the text has drifted in *)
(* the array, what waits is what a queue would hold: nothing is overwritten*)
(* or lost while it would fit, and the text stays in the array (cmd.c 73,  *)
(* 117, 222).                                                              *)
TextKept ==
    /\ cbuf.start \in 0..MaxCmdBuf /\ cbuf.end \in 0..MaxCmdBuf
    /\ Waiting(cbuf) = wanted

(* Of what waits, a line at a time, the first command of each line is run, *)
(* and what a semicolon separates from it is not (cmd.c 213-233, 266), for  *)
(* all that lines, files and aliases become one text: the exceptions are    *)
(* lines that are too long, and a command before the semicolon that stands  *)
(* for other text, runs the buffer itself or ends the frame: what is put in *)
(* its place counts as separated until its first line is over, and what     *)
(* follows the semicolon may run.                                           *)
LinesRun ==
    LET first == taken.first IN
    IF Semicolon \in first.before
    THEN taken.ran =>
           first.before \cap (DOMAIN Alias \cup DOMAIN File \cup ModCommand \cup {Wait}) # {}
    ELSE taken.ran \/ taken.long \/ first.late \/ taken.resumed
=============================================================================
