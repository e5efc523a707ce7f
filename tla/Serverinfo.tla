----------------------------- MODULE Serverinfo -----------------------------
(***************************************************************************)
(* Console variables (cvar.c), those of them that are mirrored in          *)
(* svs.info, the other keys of svs.info (sv_ccmds.c), and what clients are *)
(* told of them: all of it when they ask "new", and each change.           *)
(*                                                                         *)
(* svs.info is taken to have room, and reliable data to arrive in order    *)
(* (modules ClientReliable and Netchan).                                   *)
(***************************************************************************)
EXTENDS Integers, SequencesExt, TLC

CONSTANTS
    Mirrored,           \* variables with CVAR_SERVERINFO
    Rom,                \* variables with CVAR_ROM
    Key,                \* keys of svs.info: Mirrored and others
    Airstep, Pground,   \* OnChange_pm_airstep: the first sets the second
    Pitch, PitchKey,    \* OnChange_sv_maxpitch: a variable under another key
    Bounded,            \* what a pitch is bound to
    PitchDefault,       \* its default, which is not shown
    Plain,              \* variables that nothing depends on
    Value, Empty, Zero,
    Client,
    MaxChanges          \* bound: changes and connections

Var == Mirrored \union {Pitch} \union Plain

VARIABLES
    cvars,              \* var->string
    info,               \* svs.info
    reliable_datagram,  \* changes in sv.reliable_datagram
    clients,            \* each client's connection, see Free
    changes             \* bound

vars == <<cvars, info, reliable_datagram, clients, changes>>

(* known: the client's copy; sent: what is on its way to it; message: what *)
(* waits in netchan.message; told: it has been answered "new" on this      *)
(* level; cleared (a history): the keys whose last change was discarded.   *)
Free == [state |-> "free", told |-> FALSE, known |-> <<>>, sent |-> <<>>, message |-> <<>>,
         cleared |-> {}]

Init ==
    /\ cvars = [v \in Var |-> IF v = Pitch THEN PitchDefault ELSE Empty]
    /\ info = [k \in Key |-> Empty]
    /\ reliable_datagram = <<>>
    /\ clients = [c \in Client |-> Free]
    /\ changes = 0

State == [cvars |-> cvars, info |-> info, sent |-> reliable_datagram]

Becomes(s) ==
    /\ cvars' = s.cvars /\ info' = s.info /\ reliable_datagram' = s.sent
    /\ changes' = changes + 1
    /\ UNCHANGED clients

-----------------------------------------------------------------------------
(* Mutant: the clients are not told when a key goes. *)
ServerinfoChangedQuietly(s, key, value) ==
    IF value \in {s.info[key], Empty} THEN [s EXCEPT !.info[key] = value]
    ELSE [s EXCEPT !.info[key] = value, !.sent = Append(@, key :> value)]

(* SV_ServerinfoChanged *)
ServerinfoChanged(s, key, value) ==
    LET shown == IF value = Zero THEN Empty ELSE value
    IN IF shown = s.info[key] THEN s
       ELSE [s EXCEPT !.info[key] = shown, !.sent = Append(@, key :> shown)]

(* The end of Cvar_Set. *)
Assigned(s, v, value) ==
    LET t == [s EXCEPT !.cvars[v] = value]
    IN IF v \in Mirrored THEN ServerinfoChanged(t, v, value) ELSE t

(* Cvar_Set, with CVAR_ROM out of the way or not.  While one OnChange runs *)
(* no other does, so what that sets is set at once.                        *)
Cvar_Set(s, v, given, rom) ==
    LET value == IF v \in Mirrored /\ given = Zero THEN Empty ELSE given
    IN IF v \in Rom /\ ~rom THEN s
       ELSE IF v = Airstep
       THEN Assigned(Assigned(s, Pground, IF value = Empty THEN Empty ELSE "1"), v, value)
       ELSE IF v = Pitch
       THEN LET new == Bounded[value] IN
            IF new = s.cvars[v] THEN s
            ELSE ServerinfoChanged(Assigned(s, v, new), PitchKey,
                                   IF new = PitchDefault THEN Empty ELSE new)
       ELSE Assigned(s, v, value)

(* A variable's name and a value typed at the console; "set", "toggle",    *)
(* "inc", and the progs' cvar_set.                                         *)
Cvar_Command ==
    \E v \in Var, value \in Value : Becomes(Cvar_Set(State, v, value, FALSE))

(* Cvar_SetROM, as when a demo starts and stops. *)
Cvar_SetROM ==
    \E v \in Rom \ {Pground}, value \in Value : Becomes(Cvar_Set(State, v, value, TRUE))

SV_Serverinfo_f ==
    \E k \in Key, given \in Value :
        LET value == IF given = Zero THEN Empty ELSE given
        IN Becomes(IF k \in Mirrored THEN Cvar_Set(State, k, value, FALSE)
                   ELSE ServerinfoChanged(State, k, value))

-----------------------------------------------------------------------------
Write(c, text) ==
    [c EXCEPT !.message = @ \o text, !.cleared = @ \ UNION {DOMAIN t : t \in Range(text)}]
Applied(known, changed) == FoldLeft(LAMBDA k, change : change @@ k, known, changed)

Connect(c) ==
    /\ clients[c].state = "free"
    /\ clients' = [clients EXCEPT ![c] = [Free EXCEPT !.state = "connected"]]
    /\ changes' = changes + 1
    /\ UNCHANGED <<cvars, info, reliable_datagram>>

(* Cmd_New_f: if the client's messages are backed up they are thrown away, *)
(* as they are when it asks "spawn" for another level.                     *)
Cmd_New_f(c) ==
    /\ clients[c].state = "connected"
    /\ changes' = changes + 1
    /\ \E backed \in BOOLEAN :
          /\ backed => clients[c].message # <<>>
          /\ clients' = [clients EXCEPT ![c] = Write(
                [@ EXCEPT !.message = IF backed THEN <<>> ELSE @, !.told = TRUE], <<info>>)]
    /\ UNCHANGED <<cvars, info, reliable_datagram>>

(* Cmd_Spawn_f: what waits is cleared. *)
Cmd_Spawn_f(c) ==
    /\ clients[c].state = "connected"
    /\ clients[c].message # <<>>
    /\ LET has == Applied(clients[c].known, clients[c].sent)
           would == Applied(has, clients[c].message)
       IN clients' = [clients EXCEPT ![c].message = <<>>,
             ![c].cleared = @ \cup {k \in DOMAIN would : k \in DOMAIN has => has[k] # would[k]}]
    /\ UNCHANGED <<cvars, info, reliable_datagram, changes>>

Cmd_Begin_f(c) ==
    /\ clients[c].state = "connected" /\ clients[c].told
    /\ clients' = [clients EXCEPT ![c].state = "spawned"]
    /\ UNCHANGED <<cvars, info, reliable_datagram, changes>>

(* Mutant: only those in the game. *)
UpdateToReliableMessagesSome ==
    /\ reliable_datagram # <<>>
    /\ clients' = [c \in Client |->
          IF clients[c].state # "spawned" THEN clients[c]
          ELSE Write(clients[c], reliable_datagram)]
    /\ reliable_datagram' = <<>>
    /\ UNCHANGED <<cvars, info, changes>>

(* SV_UpdateToReliableMessages: to all that are connected. *)
UpdateToReliableMessages ==
    /\ reliable_datagram # <<>>
    /\ clients' = [c \in Client |->
          IF clients[c].state = "free" THEN clients[c]
          ELSE Write(clients[c], reliable_datagram)]
    /\ reliable_datagram' = <<>>
    /\ UNCHANGED <<cvars, info, changes>>

(* A new level: all have to ask again; what was to be sent is not. *)
SpawnServer ==
    /\ reliable_datagram' = <<>>
    /\ clients' = [c \in Client |->
          [clients[c] EXCEPT !.told = FALSE,
                             !.state = IF @ = "spawned" THEN "connected" ELSE @]]
    /\ changes' = changes + 1
    /\ UNCHANGED <<cvars, info>>

Drop(c) ==
    /\ clients[c].state # "free"
    /\ clients' = [clients EXCEPT ![c] = Free]
    /\ UNCHANGED <<cvars, info, reliable_datagram, changes>>

(* Netchan_Transmit, when nothing is on its way: all that waits is sent. *)
Send(c) ==
    /\ clients[c].sent = <<>> /\ clients[c].message # <<>>
    /\ clients' = [clients EXCEPT ![c].sent = clients[c].message, ![c].message = <<>>]
    /\ UNCHANGED <<cvars, info, reliable_datagram, changes>>

(* The client receives it; a client keeps keys that are set. *)
Receive(c) ==
    /\ clients[c].sent # <<>>
    /\ clients' = [clients EXCEPT ![c].known = Applied(@, clients[c].sent), ![c].sent = <<>>]
    /\ UNCHANGED <<cvars, info, reliable_datagram, changes>>

Next ==
    \/ /\ changes < MaxChanges      \* bound
       /\ \/ Cvar_Command
          \/ Cvar_SetROM
          \/ SV_Serverinfo_f
          \/ SpawnServer
          \/ \E c \in Client : Connect(c) \/ Cmd_New_f(c)
    \/ UpdateToReliableMessages
    \/ \E c \in Client : Cmd_Spawn_f(c) \/ Cmd_Begin_f(c) \/ Drop(c) \/ Send(c) \/ Receive(c)

Spec == Init /\ [][Next]_vars

-----------------------------------------------------------------------------
(* Whenever the changes happen between a client's requests, the frames and *)
(* what it receives, a client that has been told once will know all of     *)
(* svs.info, and svs.info shows what the variables are (cvar.c 150,        *)
(* sv_ccmds.c 1376, sv_user.c 377, sv_send.c UpdateToReliableMessages).    *)
(* But a key whose change waits in netchan.message as the client's "spawn" *)
(* clears that (sv_user.c 748) it knows only from the next change on.      *)
ServerinfoIsKnown ==
    /\ \A v \in Mirrored : info[v] = cvars[v]
    /\ \A c \in Client : clients[c].told =>
          LET will == Write(clients[c], reliable_datagram)
              known == Applied(will.known, will.sent \o will.message)
          IN \A k \in Key \ will.cleared : k \in DOMAIN known /\ known[k] = info[k]
=============================================================================
