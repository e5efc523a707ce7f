------------------------------- MODULE Voice -------------------------------
(***************************************************************************)
(* Voice chat (sv_user.c): packets of all clients go through one ring,     *)
(* each with the slots it is meant for, and every client reads the ring at *)
(* its own pace.  Sets of slots are kept as bytes of bits, which four of   *)
(* eight are used of: slot j has bit j & 3 of byte j >> 3.                 *)
(***************************************************************************)
EXTENDS Integers, FiniteSets

CONSTANTS
    Client,             \* slots of clients
    Team, Spectator,    \* what a client may be
    Target,             \* what it may aim at: "team", "all", "nonmuted", "slot"
    Mutable,            \* slots that it may mute
    RingSize,           \* VOICE_RING_SIZE
    MaxSaid,            \* bound: voice packets
    MaxChanges          \* bound: connections, settings

VARIABLES
    voice,      \* the ring and its write position
    clients,    \* voice settings and voice_read of each slot
    heard,      \* history: the last packet heard in each slot, by its number
    amiss,      \* history: one was heard that is older, or from before the client came
    overheard,  \* history: one was heard by a client it is not for
    changes     \* bound

vars == <<voice, clients, heard, amiss, overheard, changes>>

Bit(j) == <<j \div 8, j % 4>>
Bits(slots) == {Bit(j) : j \in slots}

Free == [state |-> "free", team |-> "none", spectator |-> FALSE, target |-> "team", slot |-> 0,
         active |-> FALSE, mute |-> {}, read |-> 0, came |-> 0]
Silence == [number |-> 0, sender |-> -1, receiver |-> {}, for |-> {}]

Init ==
    /\ voice = [ring |-> [i \in 0..(RingSize - 1) |-> Silence], write |-> 0]
    /\ clients = [j \in Client |-> Free]
    /\ heard = [j \in Client |-> 0]
    /\ amiss = FALSE /\ overheard = FALSE
    /\ changes = 0

Unheard == UNCHANGED <<heard, amiss, overheard>>

-----------------------------------------------------------------------------
(* The clients a packet of s is meant for, by what it is set to.           *)
MeantFor(s, teamplay, sv_spectalk) ==
    LET c == clients[s]
        vt == IF c.target = "team" /\ ~teamplay THEN "all" ELSE c.target
    IN {j \in Client :
            /\ clients[j].state # "free"
            /\ c.spectator /\ ~sv_spectalk => clients[j].spectator
            /\ vt = "team" =>
                 IF c.spectator THEN clients[j].spectator
                 ELSE clients[j].team = c.team /\ ~clients[j].spectator
            /\ vt = "nonmuted" => Bit(j) \notin c.mute
            /\ vt = "slot" => j = c.slot}

(* SV_VoiceReadPacket *)
VoiceReadPacket(s) ==
    /\ clients[s].state = "spawned"
    /\ voice.write < MaxSaid        \* bound
    /\ \E teamplay, sv_spectalk \in BOOLEAN :
          \E meant \in {MeantFor(s, teamplay, sv_spectalk)} :
             voice' = [ring |-> [voice.ring EXCEPT ![voice.write % RingSize] =
                                    [number |-> voice.write + 1, sender |-> s,
                                     receiver |-> Bits(meant), for |-> meant]],
                       write |-> voice.write + 1]
    /\ UNCHANGED <<clients, changes>> /\ Unheard

(* Mutant: a client one packet too far behind is let be. *)
CaughtUpLate(read) == IF read + RingSize + 1 < voice.write THEN voice.write - RingSize
                      ELSE read

(* Where a client goes on that is too far behind. *)
CaughtUp(read) == IF read + RingSize < voice.write THEN voice.write - RingSize ELSE read

(* SV_VoiceSendPacket: up to the first that does not fit, all of them or   *)
(* none for a client that does not listen or has back buffers.             *)
VoiceSendPacket(j) ==
    LET c == clients[j]
        from == CaughtUp(c.read)
        at(i) == voice.ring[i % RingSize]
        send(i) == Bit(j) \in at(i).receiver /\ Bit(at(i).sender) \notin c.mute
    IN
    /\ c.state # "free" /\ c.read < voice.write
    /\ \E upto \in IF c.active THEN from..voice.write ELSE {voice.write},
          echo, download \in BOOLEAN :
          \E got \in {{i \in from..(upto - 1) : /\ c.active /\ send(i) /\ ~download
                                                /\ at(i).sender = j => echo}} :
             /\ clients' = [clients EXCEPT ![j].read = upto]
             /\ heard' = [heard EXCEPT ![j] =
                             IF got = {} THEN @
                             ELSE at(CHOOSE i \in got : \A k \in got : k <= i).number]
             /\ amiss' = (amiss \/ \E i \in got :
                             \/ at(i).number <= heard[j]
                             \/ at(i).number <= c.came
                             \/ \E k \in got : k < i /\ at(k).number >= at(i).number)
             /\ overheard' = (overheard \/ \E i \in got : j \notin at(i).for)
    /\ UNCHANGED <<voice, changes>>

(* Mutant: what is in the ring is read from the start. *)
FromOldest == 0

(* SV_VoiceInitClient: where a new client begins. *)
FirstRead == voice.write

(* SVC_DirectConnect, with SV_VoiceInitClient, and Cmd_Begin_f             *)
Connect(j) ==
    /\ clients[j].state = "free"
    /\ \E team \in Team, spectator \in Spectator :
          clients' = [clients EXCEPT ![j] =
                         [Free EXCEPT !.state = "spawned", !.team = team,
                                      !.spectator = spectator, !.read = FirstRead,
                                      !.came = voice.write]]
    /\ heard' = [heard EXCEPT ![j] = 0]
    /\ UNCHANGED <<voice, amiss, overheard>>

DropClient(j) ==
    /\ clients[j].state # "free"
    /\ clients' = [clients EXCEPT ![j] = Free]
    /\ UNCHANGED voice /\ Unheard

(* SV_Voice_Ignore_f, SV_Voice_Target_f, SV_Voice_MuteAll_f and            *)
(* SV_Voice_UnmuteAll_f                                                    *)
Settings(j) ==
    /\ clients[j].state # "free"
    /\ \/ \E b \in Bits(Mutable) :
             \E mute \in {clients[j].mute \union {b}, clients[j].mute \ {b}} :
                clients' = [clients EXCEPT ![j].mute = mute]
       \/ \E t \in Target, slot \in Client :
             clients' = [clients EXCEPT ![j].target = t, ![j].slot = slot]
       \/ clients' = [clients EXCEPT ![j].active = ~@]
    /\ UNCHANGED voice /\ Unheard

Next ==
    \/ \E j \in Client : VoiceReadPacket(j) \/ VoiceSendPacket(j)
    \/ /\ changes < MaxChanges      \* bound
       /\ changes' = changes + 1
       /\ \E j \in Client : Connect(j) \/ DropClient(j) \/ Settings(j)

Spec == Init /\ [][Next]_vars

-----------------------------------------------------------------------------
(* However far behind it is, a client hears packets in the order they were *)
(* said, each once, and none from before it came to its slot (sv_user.c    *)
(* 2866-2909).                                                             *)
HeardInOrder == ~amiss

(* "figure out which team members are meant to receive it" (sv_user.c      *)
(* 2774): no other client does.                                            *)
HeardByThoseMeant == ~overheard
=============================================================================
