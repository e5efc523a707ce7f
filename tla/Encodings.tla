------------------------------ MODULE Encodings ------------------------------
(***************************************************************************)
(* How values are written down: lists of infos and the strings they are    *)
(* sent as, the items of messages, and the patterns that names are matched *)
(* with (common.c, bothtools.c).  part says which a behaviour is about.    *)
(***************************************************************************)
EXTENDS Integers, SequencesExt

CONSTANTS
    Parts,              \* of "infos", "message", "match"
    Name, Fold, Star,   \* keys; each without its case; those that begin with *
    Values,             \* sequences of characters: ";" a bad one, "^" a control one
    Client,             \* info strings that clients come with
    MaxKey,             \* MAX_KEY_STRING
    MaxInfos, MaxString,\* of a list, of a string
    Base,               \* the values of a byte: 256
    Item, MaxSize,      \* what may be written; the buffer
    Pattern, Subject,   \* of names to match
    MaxCalls            \* bound

VARIABLES part, infos, message, match, calls

vars == <<part, infos, message, match, calls>>

-----------------------------------------------------------------------------
(* A list of infos, the newest first, and the names of each bucket of its  *)
(* hash; and a string, which is pairs of a name and a value.               *)
NoList == [list |-> <<>>, hash |-> [f \in {Fold[n] : n \in Name} |-> <<>>], cur |-> 0]
NoInfos == [ctx |-> NoList, str |-> <<>>, key |-> "", value |-> <<>>,
            wasCtx |-> NoList, wasStr |-> <<>>]

Length(s) == FoldLeft(LAMBDA n, p : n + 3 + Len(p.value), 0, s)
Visible(v) == SelectSeq(v, LAMBDA c : c # "^")
Pair(k, v) == [name |-> k, value |-> v]
First(s, Test(_)) ==
    LET i == SelectInSeq(s, Test) IN IF i = 0 THEN <<>> ELSE s[i].value

Info_ValueForKey(s, k) == First(s, LAMBDA p : p.name = k)
Info_RemoveKey(s, k) ==
    LET i == SelectInSeq(s, LAMBDA p : p.name = k) IN IF i = 0 THEN s ELSE RemoveAt(s, i)
Info_RemovePrefixedKeys(s) == SelectSeq(s, LAMBDA p : p.name \notin Star)

(* A value that is there stays when the new one has no room. *)
(* Mutant: it is removed before that is known. *)
SetValueForStarKeyHasty(s, k, v, max) ==
    LET left == Info_RemoveKey(s, k) IN
    IF Len(v) >= MaxKey THEN s
    ELSE IF v = <<>> \/ Length(left) + 3 + Len(v) >= max THEN left
    ELSE Append(left, Pair(k, Visible(v)))
Info_SetValueForStarKey(s, k, v, max) ==
    LET left == Info_RemoveKey(s, k)
        old == Info_ValueForKey(s, k) IN
    IF Len(v) >= MaxKey THEN s
    ELSE IF old # <<>> /\ Len(v) - Len(old) + Length(s) >= max THEN s
    ELSE IF v = <<>> \/ Length(left) + 3 + Len(v) >= max THEN left
    ELSE Append(left, Pair(k, Visible(v)))
Info_SetValueForKey(s, k, v, max) ==
    IF k \in Star THEN s ELSE Info_SetValueForStarKey(s, k, v, max)
Info_CopyStarKeys(from, to, max) ==
    FoldLeft(LAMBDA s, p : IF p.name \in Star THEN Info_SetValueForStarKey(s, p.name, p.value, max) ELSE s,
             to, from)

(* In a list, names are found through the hash and without their case.     *)
Info_Get(c, k) ==
    IF Contains(c.hash[Fold[k]], Fold[k])
    THEN First(c.list, LAMBDA p : Fold[p.name] = Fold[k]) ELSE <<>>

(* Mutant: the counter stays. *)
Info_RemoveUncounted(c, k) ==
    IF ~Contains(c.hash[Fold[k]], Fold[k]) THEN c
    ELSE [c EXCEPT !.hash[Fold[k]] = Remove(@, Fold[k]),
                   !.list = RemoveAt(@, SelectInSeq(@, LAMBDA p : Fold[p.name] = Fold[k]))]
Info_Remove(c, k) ==
    IF ~Contains(c.hash[Fold[k]], Fold[k]) THEN c
    ELSE [c EXCEPT !.hash[Fold[k]] = Remove(@, Fold[k]),
                   !.list = RemoveAt(@, SelectInSeq(@, LAMBDA p : Fold[p.name] = Fold[k])),
                   !.cur = @ - 1]

Info_SetStar(c, k, v) ==
    LET there == Contains(c.hash[Fold[k]], Fold[k])
        at == SelectInSeq(c.list, LAMBDA p : Fold[p.name] = Fold[k])
        kept == IF there THEN [c EXCEPT !.list[at].value = Visible(v)]
                ELSE [list |-> <<Pair(k, Visible(v))>> \o c.list,
                      hash |-> [c.hash EXCEPT ![Fold[k]] = <<Fold[k]>> \o @],
                      cur |-> c.cur + 1] IN
    IF v = <<>> THEN Info_Remove(c, k)
    ELSE IF Contains(v, ";") \/ Len(v) >= MaxKey \/ (~there /\ c.cur >= MaxInfos) THEN c
    ELSE IF Visible(v) = <<>> THEN Info_Remove(kept, k) ELSE kept
Info_Set(c, k, v) == IF k \in Star THEN c ELSE Info_SetStar(c, k, v)
Info_RemoveAll == NoList

(* Names and values that are too long are cut. *)
Cut(v) == IF Len(v) < MaxKey THEN v ELSE SubSeq(v, 1, MaxKey - 1)
Info_Convert(c, s) ==
    FoldLeft(LAMBDA r, p : Info_SetStar(r, p.name, Cut(p.value)), c, s)
(* As many as fit, from the newest. *)
Info_ReverseConvert(c, size) ==
    FoldLeft(LAMBDA r, p :
                 IF r.full \/ Length(r.out) + 3 + Len(p.value) >= size THEN [r EXCEPT !.full = TRUE]
                 ELSE [r EXCEPT !.out = Append(@, p)],
             [out |-> <<>>, full |-> FALSE], c.list)
Info_CopyStar(from, to) ==
    FoldLeft(LAMBDA r, p : IF p.name \in Star THEN Info_SetStar(r, p.name, p.value) ELSE r,
             to, from.list)

Changes(ctx, str, k, v) ==
    infos' = [ctx |-> ctx, str |-> str, key |-> k, value |-> v,
              wasCtx |-> infos.ctx, wasStr |-> infos.str]

Connects == \E s \in Client :
    Changes(Info_Convert(Info_RemoveAll, s), Info_RemovePrefixedKeys(s), "any", <<>>)
Sets == \E k \in Name, v \in Values :
    \/ Changes(Info_Set(infos.ctx, k, v), Info_SetValueForKey(infos.str, k, v, MaxString), k, v)
    \/ Changes(Info_SetStar(infos.ctx, k, v),
               Info_SetValueForStarKey(infos.str, k, v, MaxString), k, v)
Removes == \E k \in Name :
    Changes(Info_Remove(infos.ctx, k), Info_RemoveKey(infos.str, k), k, <<>>)
CopiesStars ==
    /\ infos.ctx # NoList
    /\ Changes(Info_CopyStar(infos.ctx, Info_RemoveAll),
               Info_CopyStarKeys(infos.str, <<>>, MaxString), "any", <<>>)

Infos == Connects \/ Sets \/ Removes \/ CopiesStars

-----------------------------------------------------------------------------
(* Messages: items written, then read by the same kinds.  A coordinate is  *)
(* counted in sixteenths, an angle in halves of what 16 bits can tell.     *)
(* A move: an angle, how far forward, buttons, how long. *)
NoMove == <<0, 0, 0, 0>>
NoMessage == [buf |-> <<>>, over |-> FALSE, items |-> <<>>, from |-> NoMove,
              reading |-> FALSE, at |-> 0, bad |-> FALSE, got |-> <<>>, last |-> NoMove, cut |-> FALSE]

ByteOf(v) == v % Base
Short(v) == <<ByteOf(v), ByteOf(v \div Base)>>
Rounded(n, d) == IF n >= 0 THEN (2 * n + d) \div (2 * d) ELSE -((d - 2 * n) \div (2 * d))
MSG_ToCoord(f) == Rounded(f, 2)
Turn == 2 * Base * Base
MSG_WriteAngle(a) == <<ByteOf(Rounded(a, 2 * Base))>>
MSG_WriteAngle16(a) == Short(Rounded(a, 2))

(* The parts of a move that are not as before, each with its bit. *)
(* Mutant: what has become none is left out. *)
DeltaUsercmdNonzero(from, cmd) ==
    LET a == cmd[1] # from[1] /\ cmd[1] # 0
        f == cmd[2] # from[2]   b == cmd[3] # from[3] IN
    <<<<(IF a THEN 1 ELSE 0) + (IF f THEN 2 ELSE 0) + (IF b THEN 4 ELSE 0)>>>>
        \o (IF a THEN <<MSG_WriteAngle16(cmd[1])>> ELSE <<>>)
        \o (IF f THEN <<Short(cmd[2])>> ELSE <<>>)
        \o (IF b THEN <<<<ByteOf(cmd[3])>>>> ELSE <<>>) \o <<<<ByteOf(cmd[4])>>>>
MSG_WriteDeltaUsercmd(from, cmd) ==
    LET a == cmd[1] # from[1]
        f == cmd[2] # from[2]   b == cmd[3] # from[3] IN
    <<<<(IF a THEN 1 ELSE 0) + (IF f THEN 2 ELSE 0) + (IF b THEN 4 ELSE 0)>>>>
        \o (IF a THEN <<MSG_WriteAngle16(cmd[1])>> ELSE <<>>)
        \o (IF f THEN <<Short(cmd[2])>> ELSE <<>>)
        \o (IF b THEN <<<<ByteOf(cmd[3])>>>> ELSE <<>>) \o <<<<ByteOf(cmd[4])>>>>

(* The writes an item is made of. *)
Writes(m, item) ==
    CASE item.kind \in {"byte", "char"} -> <<<<ByteOf(item.v[1])>>>>
      [] item.kind = "short" -> <<Short(item.v[1])>>
      [] item.kind = "long" ->
            <<Short(item.v[1]) \o Short(item.v[1] \div (Base * Base))>>
      [] item.kind = "coord" -> <<Short(MSG_ToCoord(item.v[1]))>>
      [] item.kind = "angle" -> <<MSG_WriteAngle(item.v[1])>>
      [] item.kind = "string" -> <<Append(item.v, 0)>>
      [] OTHER -> MSG_WriteDeltaUsercmd(m.from, item.v)

(* What does not fit empties the buffer, and is written at its start. *)
SZ_Write(m, bytes) ==
    IF Len(m.buf) + Len(bytes) > MaxSize
    THEN [m EXCEPT !.buf = bytes, !.over = TRUE] ELSE [m EXCEPT !.buf = @ \o bytes]

Write ==
    /\ ~message.reading
    /\ \E item \in Item :
       message' = [FoldLeft(SZ_Write, message, Writes(message, item)) EXCEPT
                      !.items = Append(@, item),
                      !.from = IF item.kind = "usercmd" THEN item.v ELSE @]
(* A packet of somebody else's may end anywhere. *)
MSG_BeginReading ==
    /\ ~message.reading /\ message.items # <<>>
    /\ \E n \in 0..Len(message.buf) :
          message' = [message EXCEPT !.reading = TRUE, !.buf = SubSeq(@, 1, n),
                                     !.cut = n < Len(message.buf)]

Signed(v, top) == IF v >= top \div 2 THEN v - top ELSE v
Took(m, n) == SubSeq(m.buf, m.at + 1, m.at + n)
Number(s) == FoldRight(LAMBDA b, n : b + Base * n, s, 0)
(* n bytes, or that there are fewer. *)
MSG_Read(m, n, top) ==
    IF m.at + n > Len(m.buf) THEN [m EXCEPT !.bad = TRUE, !.got = Append(@, -1)]
    ELSE [m EXCEPT !.at = @ + n, !.got = Append(@, Signed(Number(Took(m, n)), top))]
(* Mutant: not sign-extended. *)
MSG_ReadShortUnsigned(m) == MSG_Read(m, 2, 2 * Base * Base)
MSG_ReadByte(m) == MSG_Read(m, 1, 2 * Base)
MSG_ReadChar(m) == MSG_Read(m, 1, Base)
MSG_ReadShort(m) == MSG_Read(m, 2, Base * Base)
MSG_ReadLong(m) == MSG_Read(m, 4, Base * Base * Base * Base)
Scaled(m, by) == [m EXCEPT !.got = Append(Front(@), by * Last(@))]
MSG_ReadCoord(m) == Scaled(MSG_ReadShort(m), 2)
MSG_ReadAngle(m) == Scaled(MSG_ReadChar(m), 2 * Base)
MSG_ReadAngle16(m) == Scaled(MSG_ReadShort(m), 2)
(* To its end, without the bytes of the highest value. *)
MSG_ReadString(m) ==
    LET rest == SubSeq(m.buf, m.at + 1, Len(m.buf))
        end == SelectInSeq(rest, LAMBDA b : b = 0)
        text == IF end = 0 THEN rest ELSE SubSeq(rest, 1, end - 1) IN
    [m EXCEPT !.at = IF end = 0 THEN Len(m.buf) ELSE @ + end, !.bad = @ \/ end = 0,
              !.got = Append(@, SelectSeq(text, LAMBDA b : b # Base - 1))]

MSG_ReadDeltaUsercmd(m) ==
    LET m0 == MSG_ReadByte(m)
        bits == IF m0.bad THEN {1, 2, 4} ELSE {b \in {1, 2, 4} : (Last(m0.got) \div b) % 2 = 1}
        a == IF 1 \in bits THEN MSG_ReadAngle16(m0) ELSE m0
        f == IF 2 \in bits THEN MSG_ReadShort(a) ELSE a
        b == IF 4 \in bits THEN MSG_ReadByte(f) ELSE f
        c == MSG_ReadByte(b)
        move == <<IF 1 \in bits THEN Last(a.got) ELSE m.last[1],
                  IF 2 \in bits THEN Last(f.got) ELSE m.last[2],
                  IF 4 \in bits THEN Last(b.got) ELSE m.last[3], Last(c.got)>> IN
    [c EXCEPT !.got = Append(m.got, move), !.last = move]

Read ==
    LET m == message  n == Len(m.got) + 1 IN
    /\ m.reading /\ n <= Len(m.items)
    /\ message' = CASE m.items[n].kind = "byte" -> MSG_ReadByte(m)
                    [] m.items[n].kind = "char" -> MSG_ReadChar(m)
                    [] m.items[n].kind = "short" -> MSG_ReadShort(m)
                    [] m.items[n].kind = "long" -> MSG_ReadLong(m)
                    [] m.items[n].kind = "coord" -> MSG_ReadCoord(m)
                    [] m.items[n].kind = "angle" -> MSG_ReadAngle(m)
                    [] m.items[n].kind = "string" -> MSG_ReadString(m)
                    [] OTHER -> MSG_ReadDeltaUsercmd(m)

Messages == Write \/ MSG_BeginReading \/ Read

-----------------------------------------------------------------------------
(* wildcmp, turn by turn: w and s are where it is in the pattern and in    *)
(* the name, mp and cp where it goes on after the last *.                  *)
NoMatch == [pattern |-> <<>>, subject |-> <<>>, w |-> 1, s |-> 1, mp |-> 0, cp |-> 0, result |-> "none"]
At(seq, i) == IF i > Len(seq) THEN "end" ELSE seq[i]
Starts == match.result = "none" /\
    \E p \in Pattern, t \in Subject :
       match' = [NoMatch EXCEPT !.pattern = p, !.subject = t, !.result = "going"]
Ended(m, w) ==
    [m EXCEPT !.result = IF \A i \in w..Len(m.pattern) : m.pattern[i] = "*" THEN "yes" ELSE "no"]
(* Mutant: after a * it goes on where it stopped, not one further than where it tried. *)
BackWhereStopped(m) == [m EXCEPT !.w = m.mp, !.s = @ + 1]
Back(m) == [m EXCEPT !.w = m.mp, !.s = m.cp, !.cp = @ + 1]
Wildcmp(m) ==
    LET w == At(m.pattern, m.w)  s == At(m.subject, m.s) IN
    IF s = "end" THEN Ended(m, m.w)
    ELSE IF w = "*"
         THEN IF m.w = Len(m.pattern) THEN [m EXCEPT !.result = "yes"]
              ELSE [m EXCEPT !.w = @ + 1, !.mp = m.w + 1, !.cp = m.s + 1]
    ELSE IF w = s \/ w = "?" THEN [m EXCEPT !.w = @ + 1, !.s = @ + 1]
    ELSE IF m.mp = 0 THEN [m EXCEPT !.result = "no"] ELSE Back(m)
wildcmp == match.result = "going" /\ match' = Wildcmp(match)
Again == match.result \in {"yes", "no"} /\ match' = NoMatch

(* The other one, for names of commands and variables. *)
Q_glob_match_after_star(pattern, text, i, j) ==
    LET skips == {k \in i..(Len(pattern) + 1) : \A h \in i..(k - 1) : pattern[h] \in {"?", "*"}}
        p == CHOOSE k \in skips : \A h \in skips : h <= k
        marks == Cardinality({h \in i..(p - 1) : pattern[h] = "?"}) IN
    [all |-> p > Len(pattern) /\ j + marks <= Len(text) + 1,
     from |-> {<<p, k>> : k \in {h \in (j + marks)..Len(text) : At(pattern, p) = text[h]}}]
Q_glob_match(pattern, text) ==
    LET Glob[ij \in (1..(Len(pattern) + 1)) \X (1..(Len(text) + 1))] ==
            LET i == ij[1]  j == ij[2] IN
            IF i > Len(pattern) THEN j > Len(text)
            ELSE IF pattern[i] = "*"
                 THEN LET on == Q_glob_match_after_star(pattern, text, i + 1, j) IN
                      on.all \/ \E at \in on.from : Glob[at]
            ELSE /\ j <= Len(text) /\ pattern[i] \in {"?", text[j]}
                 /\ Glob[<<i + 1, j + 1>>]
    IN Glob[<<1, 1>>]

Matches == Starts \/ wildcmp \/ Again

-----------------------------------------------------------------------------
Init ==
    /\ part \in Parts /\ calls = 0
    /\ infos = NoInfos /\ message = NoMessage /\ match = NoMatch

Next ==
    /\ part' = part
    /\ \/ /\ part = "infos" /\ calls < MaxCalls /\ calls' = calls + 1       \* bound
          /\ Infos /\ UNCHANGED <<message, match>>
       \/ /\ part = "message" /\ Messages /\ UNCHANGED <<infos, match>>
          /\ Len(message'.items) <= MaxCalls /\ UNCHANGED calls             \* bound
       \/ part = "match" /\ Matches /\ UNCHANGED <<infos, message, calls>>

Spec == Init /\ [][Next]_vars

-----------------------------------------------------------------------------
(* What has been set is what is found, until it is set or removed again: a *)
(* change is taken whole or not at all, it changes no other key, and the   *)
(* hash, the list and its counter are of the same infos, no two of them of *)
(* one name and none without a value (common.c:1039-1107, 1252-1426).      *)
OneKeyChanges ==
    infos.key \notin {"", "any"} =>
      /\ \A k \in Name : Info_Get(infos.ctx, k) \in
            {Info_Get(infos.wasCtx, k)}
               \cup IF Fold[k] = Fold[infos.key] THEN {Visible(infos.value)} ELSE {}
      /\ \A k \in Name : Info_ValueForKey(infos.str, k) \in
            {Info_ValueForKey(infos.wasStr, k)}
               \cup IF k = infos.key THEN {Visible(infos.value)} ELSE {}
ListIsAMap ==
    LET c == infos.ctx IN
    /\ c.cur = Len(c.list) /\ c.cur <= MaxInfos
    /\ \A f \in DOMAIN c.hash :
          Len(c.hash[f]) = Cardinality({i \in 1..Len(c.list) : Fold[c.list[i].name] = f})
    /\ \A i, j \in 1..Len(c.list) :
          c.list[i].value # <<>> /\ (i # j => Fold[c.list[i].name] # Fold[c.list[j].name])

(* A list that fits a string is the same list when it is read from it, and *)
(* one that does not is there with its newest infos (common.c:1449-1512).  *)
ConvertedBack ==
    LET r == Info_ReverseConvert(infos.ctx, MaxString)
        back == Info_Convert(NoList, r.out) IN
    /\ ~r.full => \A k \in Name : Info_Get(back, k) = Info_Get(infos.ctx, k)
    /\ IsPrefix(r.out, infos.ctx.list)

(* Items come out as they went in, to the nearest their kind can tell, as  *)
(* long as all of them fitted and there is something to read; a move is    *)
(* whole though only its changes are sent (common.c:44-507).               *)
Near(x, y, by, turn) == \E k \in {-1, 0, 1} : 2 * (x - y + k * turn) \in (-by)..by
Alike(item, x) ==
    CASE item.kind \in {"coord", "angle"} ->
            Near(x, item.v[1], IF item.kind = "coord" THEN 2 ELSE 2 * Base, Turn)
      [] item.kind = "string" -> x = SelectSeq(item.v, LAMBDA b : b # Base - 1)
      [] item.kind = "usercmd" ->
            Near(x[1], item.v[1], 2, Turn) /\ Tail(x) = Tail(item.v)
      [] OTHER -> x = item.v[1]
ReadAsWritten ==
    LET m == message IN
    /\ ~m.over /\ ~m.bad => \A i \in 1..Len(m.got) : Alike(m.items[i], m.got[i])
    /\ ~m.over /\ m.reading /\ Len(m.got) = Len(m.items) => m.cut = m.bad

(* Both ways to match a name find what the pattern means (common.c:1631,   *)
(* bothtools.c:653).                                                       *)
Means(pattern, text) ==
    LET Is[ij \in (1..(Len(pattern) + 1)) \X (1..(Len(text) + 1))] ==
            LET i == ij[1]  j == ij[2] IN
            IF i > Len(pattern) THEN j > Len(text)
            ELSE IF pattern[i] = "*" THEN \E k \in j..(Len(text) + 1) : Is[<<i + 1, k>>]
            ELSE j <= Len(text) /\ pattern[i] \in {"?", text[j]} /\ Is[<<i + 1, j + 1>>]
    IN Is[<<1, 1>>]
MatchesAsMeant ==
    match.result \in {"yes", "no"} =>
        /\ (match.result = "yes") = Means(match.pattern, match.subject)
        /\ Q_glob_match(match.pattern, match.subject) = Means(match.pattern, match.subject)
=============================================================================
