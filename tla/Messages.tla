------------------------------ MODULE Messages ------------------------------
(***************************************************************************)
(* What the game's programs write to clients (pr_cmds.c, pr2_cmds.c,       *)
(* sv_send.c): prints, commands stuffed piece by piece, bytes written to a *)
(* destination, sounds and effects for those who hear or see a place.      *)
(* Programs written for NetQuake have what they write translated, call by  *)
(* call, to the messages QuakeWorld clients know.                          *)
(*                                                                         *)
(* A client's reliable stream is the sequence of what was written to it:   *)
(* how it goes to back buffers and packets is ClientReliable's.  A byte of *)
(* a message of NetQuake is <<kind, place>>; what the server makes itself  *)
(* has place 0.                                                            *)
(***************************************************************************)
EXTENDS Integers, SequencesExt

CONSTANTS
    Client,
    Chunks,             \* by kind of NetQuake message: the calls that write it
    Pieces,             \* of text that may be stuffed
    MaxStuff,           \* MAX_STUFFTEXT, in pieces' characters
    Effect,             \* messages the programs multicast: <<where to, reliable>>
    Outside, Near, Sees, Hears,     \* places in no leaf; pairs of places
    At,                 \* by client: the places it may be at
    SpecPrint,          \* sv_specprint
    MaxTold, MaxSaid    \* bounds

VARIABLES
    sv,         \* state, nqprogs, signon, reliable_datagram, datagram, multicast
    clients,
    nqp,        \* nqp_buf, nqp_expect, nqp_ignore_this_frame
    error,      \* PR_RunError
    writing,    \* the NetQuake message being written: its kind, calls made
    told,       \* history: whole messages of NetQuake written in this frame
    stuffed,    \* history: text stuffed to whom each client is now
    said        \* bound

vars == <<sv, clients, nqp, error, writing, told, stuffed, said>>

Disconnect == <<"disconnect", "\n">>
Player == [state |-> "free", spectator |-> FALSE, spec_track |-> 0, spec_print |-> SpecPrint,
           messagelevel |-> 0, stufftext_buf |-> <<>>, at |-> 0, follows |-> 0, rsnd |-> FALSE,
           drop |-> FALSE, stream |-> <<>>, datagram |-> <<>>]

Init ==
    /\ sv \in [state : {"loading"}, nqprogs : BOOLEAN, signon : {<<>>}, reliable : {<<>>},
               datagram : {<<>>}, multicast : {<<>>}]
    /\ clients = [c \in Client |-> Player]
    /\ nqp = [buf |-> <<>>, expect |-> 0, ignore |-> FALSE]
    /\ error = FALSE /\ writing = <<>> /\ told = <<>> /\ said = 0
    /\ stuffed = [c \in Client |-> <<>>]

Sent(cs, To, m) == [c \in Client |-> IF c \in To THEN [cs[c] EXCEPT !.stream = Append(@, m)] ELSE cs[c]]

-----------------------------------------------------------------------------
(* SV_SpawnServer's end, a player who comes (SVC_DirectConnect clears the  *)
(* slot), and one who goes.                                                *)
Loaded ==
    /\ sv.state = "loading" /\ sv' = [sv EXCEPT !.state = "active"]
    /\ UNCHANGED <<clients, nqp, error, writing, told, stuffed, said>>

Comes(c) ==
    /\ sv.state = "active" /\ clients[c].state = "free"
    /\ \E spectator \in BOOLEAN, t \in Client \cup {0}, p \in At[c], rsnd \in BOOLEAN :
          /\ t # 0 => t # c
          /\ clients' = [clients EXCEPT ![c] =
                [Player EXCEPT !.state = "spawned", !.spectator = spectator,
                               !.spec_track = IF spectator THEN t ELSE 0,
                               !.follows = IF spectator THEN 0 ELSE t,
                               !.at = p, !.rsnd = rsnd]]
    /\ stuffed' = [stuffed EXCEPT ![c] = <<>>]
    /\ UNCHANGED <<sv, nqp, error, writing, told>>

Goes(c) ==
    /\ clients[c].state = "spawned"
    /\ clients' = [clients EXCEPT ![c].state = "free"]
    /\ UNCHANGED <<sv, nqp, error, writing, told, stuffed>>

-----------------------------------------------------------------------------
(* A print to one client, from the level it asked for up.                  *)
SV_PrintToClient(cs, To, level) ==
    Sent(cs, {c \in To : cs[c].state # "free"}, <<"print", level>>)
SV_ClientPrintf(cs, To, level) ==
    SV_PrintToClient(cs, {c \in To : level >= cs[c].messagelevel}, level)
SV_DoBroadcastPrintf(cs, level) == SV_ClientPrintf(cs, Client, level)

(* The spectators that get what is printed to player c.  For all but       *)
(* sprint the player's state and its choice are looked at.                 *)
Watching(cs, c, what) ==
    {s \in Client : /\ what \in SpecPrint /\ cs[s].spectator /\ cs[s].spec_track = c
                    /\ IF what = "sprint"
                       THEN cs[s].state # "free" /\ what \in cs[s].spec_print
                       ELSE cs[c].state # "free" /\ what \in cs[c].spec_print}

PF_bprint(level) ==
    clients' = SV_DoBroadcastPrintf(clients, level) /\ UNCHANGED stuffed

PF2_sprint(c, level) ==
    /\ clients[c].state # "free"
    /\ clients' = SV_ClientPrintf(SV_ClientPrintf(clients, {c}, level),
                                  Watching(clients, c, "sprint"), level)
    /\ UNCHANGED stuffed
PF_sprint(c, level) ==
    /\ clients' = SV_ClientPrintf(SV_ClientPrintf(clients, {c}, level),
                                  Watching(clients, c, "sprint"), level)
    /\ UNCHANGED stuffed

PF_centerprint(c) ==
    /\ clients' = Sent(clients, {c} \cup Watching(clients, c, "centerprint"), <<"centerprint", 0>>)
    /\ UNCHANGED stuffed
PF2_centerprint(c) == clients[c].state # "free" /\ PF_centerprint(c)

-----------------------------------------------------------------------------
(* Text is kept until a line is whole.                                     *)
(* Mutant: what was sent is kept. *)
LineSentKept(cs, c) ==
    Sent(cs, {c} \cup Watching(cs, c, "stuffcmd"), <<"stufftext", cs[c].stufftext_buf>>)
LineSent(cs, c) ==
    [Sent(cs, {c} \cup Watching(cs, c, "stuffcmd"), <<"stufftext", cs[c].stufftext_buf>>)
        EXCEPT ![c].stufftext_buf = <<>>]

PF_stuffcmd(c, str) ==
    LET buf == clients[c].stufftext_buf \o str
        given == [clients EXCEPT ![c].stufftext_buf = buf] IN
    IF str = Disconnect
    THEN clients' = [clients EXCEPT ![c].drop = TRUE] /\ UNCHANGED <<stuffed, error>>
    ELSE IF Len(buf) >= MaxStuff
    THEN error' = TRUE /\ UNCHANGED <<clients, stuffed>>
    ELSE /\ clients' = IF Contains(buf, "\n") THEN LineSent(given, c) ELSE given
         /\ stuffed' = [stuffed EXCEPT ![c] = @ \o str]
         /\ UNCHANGED error
(* With the flag that says so it goes to the recording only. *)
PF2_stuffcmd(c, str, demoonly) ==
    IF demoonly THEN UNCHANGED <<clients, stuffed, error>> ELSE PF_stuffcmd(c, str)

Prints ==
    /\ \E c \in Client :
          \/ UNCHANGED error
             /\ \/ \E level \in {0, 2} : PF_bprint(level) \/ PF_sprint(c, level) \/ PF2_sprint(c, level)
                \/ PF_centerprint(c) \/ PF2_centerprint(c)
          \/ clients[c].state = "spawned"
             /\ \E str \in Pieces \cup {Disconnect}, d \in BOOLEAN :
                   PF_stuffcmd(c, str) \/ PF2_stuffcmd(c, str, d)
    /\ UNCHANGED <<sv, nqp, writing, told>>

-----------------------------------------------------------------------------
(* Bytes written to a destination: MSG_INIT only while loading.            *)
WriteDest(to, m) ==
    \/ to = "broadcast" /\ sv' = [sv EXCEPT !.datagram = Append(@, m)]
    \/ to = "all" /\ sv' = [sv EXCEPT !.reliable = Append(@, m)]
    \/ to = "init" /\ sv.state = "loading" /\ sv' = [sv EXCEPT !.signon = Append(@, m)]
    \/ to = "multicast" /\ sv' = [sv EXCEPT !.multicast = Append(@, m)]
BadDestination(to) == to = "init" /\ sv.state # "loading"

PF2_WriteNumber(to, c, m) ==
    \/ to = "one" /\ clients' = Sent(clients, {c}, m) /\ UNCHANGED <<sv, error>>
    \/ BadDestination(to) /\ error' = TRUE /\ UNCHANGED <<sv, clients>>
    \/ WriteDest(to, m) /\ UNCHANGED <<clients, error>>
PF2_WriteString(to, c, s) == PF2_WriteNumber(to, c, s)

PF_Write ==
    /\ ~sv.nqprogs
    /\ \E to \in {"broadcast", "one", "all", "init", "multicast"}, c \in Client :
          \/ PF2_WriteNumber(to, c, <<"number", 0>>)
          \/ PF2_WriteString(to, c, <<"string", 0>>)
    /\ UNCHANGED <<nqp, writing, told, stuffed>>

-----------------------------------------------------------------------------
(* Programs of NetQuake: the bytes of sv.reliable that come of theirs.     *)
NQP_Skip(q, n) == [q EXCEPT !.buf = SubSeq(@, n + 1, Len(@))]
NQP_Flush(q, n) == [NQP_Skip(q, n) EXCEPT !.out = @ \o SubSeq(q.buf, 1, n)]
Put(q, s) == [q EXCEPT !.out = @ \o [i \in 1..Len(s) |-> <<s[i], 0>>]]

Size(k) == FoldLeft(LAMBDA n, chunk : n + chunk, 0, Chunks[k])
Copied == {"foundsecret", "updatefrags", "spike", "lightning", "explosion2", "finale"}
TempEntity == {"spike", "gunshot", "lightning", "beam", "explosion2", "badeffect"}
(* How much of a message must be there before anything is done with it: a  *)
(* string is looked for to its end.                                        *)
Waits(k) ==
    CASE k \in {"print", "setview", "updatecolors", "updatename", "cdtrack", "finale",
                "cutscene", "gunshot", "beam"} -> Size(k)
      [] k \in TempEntity \ {"gunshot", "beam"} -> 2
      [] OTHER -> 1

SetInfo == <<"setinfo", "slot", "key", "value">>
(* What is written in place of a message that is not copied, or before     *)
(* what is left of it.                                                     *)
Translated(q, k) ==
    CASE k = "updatestat" ->
            [Put(NQP_Skip(q, 1), <<"updatestatlong">>) EXCEPT !.expect = 5]
      [] k = "print" ->
            [NQP_Skip(q, Size(k)) EXCEPT !.out =
                Put(q, <<"print", "high">>).out \o SubSeq(q.buf, 2, Size(k))]
      [] k = "setview" -> NQP_Skip(q, 3)
      [] k = "updatecolors" -> NQP_Skip(Put(q, SetInfo \o SetInfo), 3)
      [] k = "updatename" ->
            NQP_Skip(Put(q, SetInfo \o <<"ping", "entertime">>), Size(k))
      [] k = "cdtrack" -> NQP_Skip(NQP_Flush(q, 2), 1)
      [] k = "intermission" -> Put(NQP_Flush(q, 1), <<"origin", "angles">>)
      [] k = "cutscene" -> NQP_Skip(Put(q, <<"//cutscene">>), Size(k))
      [] k = "gunshot" -> NQP_Flush(Put(NQP_Flush(q, 2), <<"count">>), 6)
      [] k = "beam" ->
            [NQP_Skip(Put(q, <<"temp_entity", "lightning", "entity">>), 4) EXCEPT !.expect = 12]
      [] k \in Copied -> [q EXCEPT !.expect = Size(k)]
      [] OTHER -> [q EXCEPT !.ignore = TRUE]

(* One turn of its loop; the last ones change nothing. *)
(* Mutant: a message that is copied is taken for whole too soon. *)
OneMessageHasty(q) ==
    IF q.buf = <<>> THEN q
    ELSE IF q.expect > 0
         THEN [NQP_Flush(q, IF Len(q.buf) < q.expect THEN Len(q.buf) ELSE q.expect) EXCEPT !.expect = 0]
    ELSE IF Len(q.buf) < Waits(q.buf[1][1]) THEN q
    ELSE Translated(q, q.buf[1][1])
OneMessage(q) ==
    IF q.ignore THEN q
    ELSE IF q.expect > 0
         THEN IF Len(q.buf) >= q.expect
              THEN [NQP_Flush(q, q.expect) EXCEPT !.expect = 0] ELSE q
    ELSE IF q.buf = <<>> \/ Len(q.buf) < Waits(q.buf[1][1]) THEN q
    ELSE Translated(q, q.buf[1][1])

NQP_Process(q) ==
    IF q.ignore THEN [q EXCEPT !.buf = <<>>]
    ELSE FoldLeft(LAMBDA r, i : OneMessage(r), q, <<1, 2, 3>>)

(* The next call that writes a part of a message. *)
NQWrite ==
    /\ sv.nqprogs
    /\ \E k \in (IF writing = <<>> THEN DOMAIN Chunks ELSE {writing[1]}) :
       LET i == IF writing = <<>> THEN 1 ELSE writing[2] + 1
           before == FoldLeft(LAMBDA n, chunk : n + chunk, 0, SubSeq(Chunks[k], 1, i - 1))
           bytes == [j \in 1..Chunks[k][i] |-> <<k, before + j>>]
           q == NQP_Process([buf |-> nqp.buf \o bytes, expect |-> nqp.expect,
                             ignore |-> nqp.ignore, out |-> sv.reliable])
           whole == i = Len(Chunks[k]) IN
       /\ nqp' = [buf |-> q.buf, expect |-> q.expect, ignore |-> q.ignore]
       /\ sv' = [sv EXCEPT !.reliable = q.out]
       /\ writing' = IF whole THEN <<>> ELSE <<k, i>>
       /\ told' = IF whole THEN Append(told, k) ELSE told
    /\ UNCHANGED <<clients, error, stuffed>>

(* A frame: what was written goes out, and the programs run anew. *)
NQP_Reset == [buf |-> <<>>, expect |-> 0, ignore |-> FALSE]
Frame ==
    /\ writing = <<>>
    /\ clients' = [c \in Client |->
          IF clients[c].state = "spawned"
          THEN [clients[c] EXCEPT !.stream = @ \o sv.reliable, !.datagram = <<>>] ELSE clients[c]]
    /\ sv' = [sv EXCEPT !.reliable = <<>>, !.datagram = <<>>]
    /\ nqp' = NQP_Reset /\ told' = <<>>
    /\ UNCHANGED <<error, writing, stuffed>>

-----------------------------------------------------------------------------
(* To all, or to those whose eyes or ears are where the place is seen or   *)
(* heard; a player may follow another's.  In no leaf, it gets everything.  *)
Eye(c) ==
    LET t == clients[c].follows IN
    IF t # 0 /\ clients[t].state = "spawned" THEN clients[t].at ELSE clients[c].at
InRange(c, place, to) ==
    \/ to = "all" \/ Eye(c) \in Outside
    \/ to = "phs" /\ (<<place, Eye(c)>> \in Near \/ <<place, Eye(c)>> \in Hears)
    \/ to = "pvs" /\ <<place, Eye(c)>> \in Sees

SV_MulticastEx(msg, place, to, reliable, key) ==
    /\ clients' = [c \in Client |->
          IF clients[c].state # "spawned" \/ ~InRange(c, place, to) THEN clients[c]
          ELSE IF reliable \/ (key /\ clients[c].rsnd)
          THEN [clients[c] EXCEPT !.stream = @ \o msg]
          ELSE [clients[c] EXCEPT !.datagram = @ \o msg]]
    /\ sv' = [sv EXCEPT !.multicast = <<>>]

(* Channels from 8 up are reliable and for all. *)
SV_StartSound(precached, place, channel8, key) ==
    /\ precached
    /\ SV_MulticastEx(Append(sv.multicast, <<"sound", 0>>), place,
                      IF channel8 THEN "all" ELSE "phs", channel8, key)
PF_particle(known, place) ==
    known /\ SV_MulticastEx(Append(sv.multicast, <<"effect", 0>>), place, "pvs", FALSE, FALSE)
PF_multicast(place, to, reliable) ==
    SV_MulticastEx(sv.multicast, place, to, reliable, FALSE)

(* While the level is loaded, sounds that stay go with the signon data. *)
PF_ambientsound ==
    /\ sv.state = "loading"
    /\ sv' = [sv EXCEPT !.signon = Append(@, <<"staticsound", 0>>)] /\ UNCHANGED clients

Multicasts ==
    /\ \E place \in UNION {At[c] : c \in Client}, b \in BOOLEAN, known \in BOOLEAN :
          \/ SV_StartSound(known, place, b, ~b)
          \/ PF_particle(known, place)
          \/ \E e \in Effect : PF_multicast(place, e[1], e[2])
          \/ PF_ambientsound
    /\ UNCHANGED <<nqp, error, writing, told, stuffed>>

Next ==
    \/ Loaded
    \/ /\ ~error /\ said < IF sv.nqprogs THEN MaxTold ELSE MaxSaid      \* bound
       /\ \/ NQWrite
          \/ /\ writing = <<>>      \* its calls follow one another
             /\ \/ \E c \in Client : Comes(c) \/ Goes(c)
                \/ Prints \/ PF_Write \/ Frame \/ Multicasts
       /\ said' = IF writing' # <<>> THEN said ELSE said + 1

Spec == Init /\ [][Next]_vars

-----------------------------------------------------------------------------
(* In whatever pieces text is stuffed to a client, what it got and what is *)
(* kept for it are that text, in order, and every command it got is whole  *)
(* lines' worth of it: the pieces of one user are no part of another's     *)
(* command (pr_cmds.c:808-867).                                            *)
StuffedInLines ==
    \A c \in Client : clients[c].state = "spawned" =>
        LET s == clients[c].stream
            got == SelectSeq(s, LAMBDA m : m[1] = "stufftext")
            text == FlattenSeq([i \in 1..Len(got) |-> got[i][2]]) IN
        /\ ~clients[c].spectator => text \o clients[c].stufftext_buf = stuffed[c]
        /\ \A i \in 1..Len(got) : Contains(got[i][2], "\n")

(* Whatever calls write them, the messages of NetQuake's programs become,  *)
(* in their order, each the message QuakeWorld clients know, with all of   *)
(* its bytes; none is torn but one that is still being written, of which   *)
(* nothing or its first byte is there (pr_cmds.c:1785-1945).               *)
New(s) == [i \in 1..Len(s) |-> <<s[i], 0>>]
Bytes(k, a, b) == [i \in 1..(b - a + 1) |-> <<k, a + i - 1>>]
Meaning(k) ==
    CASE k = "updatestat" -> New(<<"updatestatlong">>) \o Bytes(k, 2, 6)
      [] k = "print" -> New(<<"print", "high">>) \o Bytes(k, 2, Size(k))
      [] k = "setview" -> <<>>
      [] k = "updatecolors" -> New(SetInfo \o SetInfo)
      [] k = "updatename" -> New(SetInfo \o <<"ping", "entertime">>)
      [] k = "cdtrack" -> Bytes(k, 1, 2)
      [] k = "intermission" -> Bytes(k, 1, 1) \o New(<<"origin", "angles">>)
      [] k = "cutscene" -> New(<<"//cutscene">>)
      [] k = "gunshot" -> Bytes(k, 1, 2) \o New(<<"count">>) \o Bytes(k, 3, 8)
      [] k = "beam" -> New(<<"temp_entity", "lightning", "entity">>) \o Bytes(k, 5, 16)
      [] OTHER -> Bytes(k, 1, Size(k))
Unsupported == {"bad", "badeffect"}
TranslatedWhole ==
    sv.nqprogs =>
      LET first == SelectInSeq(told, LAMBDA k : k \in Unsupported)
          known == IF first = 0 THEN told ELSE SubSeq(told, 1, first - 1)
          meant == FlattenSeq([i \in 1..Len(known) |-> Meaning(known[i])])
          early == IF first = 0 /\ writing # <<>> /\ writing[1] = "updatestat"
                   THEN New(<<"updatestatlong">>) ELSE <<>> IN
      sv.reliable = meant \o early
=============================================================================
