---------------------------- MODULE DelayedPackets ----------------------------
(***************************************************************************)
(* How SV_ReadPackets (sv_main.c) holds back the packets of clients whose  *)
(* ping is below sv_minping.  A client with a delay has its packets put on *)
(* a list of its own, in blocks of one pool the server allocates at start; *)
(* the next frames execute those that are old enough, slot by slot, before *)
(* they read the socket.                                                   *)
(*                                                                         *)
(* A packet is the number of its arrival.  Each slot has one remote end: a *)
(* client that comes back takes the slot it had.  What a packet asks for   *)
(* is left open except for what matters here: it may move the client's     *)
(* delay by one step, pause the game or end the pause, and leave or enter  *)
(* the game.  Bans, timeouts of silent clients (65 seconds; no packet is   *)
(* held back for more than one) and packets from nobody are left out.      *)
(***************************************************************************)
EXTENDS Integers, Sequences, FiniteSets

CONSTANTS
    MaxSlot,            \* MAX_CLIENTS
    MaxPackets,         \* MAX_DELAYED_PACKETS
    MaxDelay,           \* the 1 second of bound(0, cl->delay, 1), in frames
    MaxArrivals,        \* bound: packets that arrive in a behaviour
    MayReconnect        \* whether clients connect again

ASSUME SizesAssumption ==
    /\ MaxSlot \in Nat \ {0} /\ MaxPackets \in Nat \ {0}
    /\ MaxDelay \in Nat /\ MaxArrivals \in Nat
ASSUME MayReconnectAssumption == MayReconnect \in BOOLEAN

Slot == 1..MaxSlot
Idle == 0                   \* between two frames
Reading == MaxSlot + 1      \* past the lists, at the socket

VARIABLES
    state,              \* cl->state; "active" is any of preconnected to spawned
    delay,              \* cl->delay
    packets,            \* cl->packets, oldest first
    free_packets,       \* number of blocks on svs.free_packets
    paused,             \* sv.paused
    socket,             \* what NET_GetPacket has still to return
    arrived,            \* packets that have arrived so far
    executed,           \* history: the last packet executed, per slot
    abandoned,          \* history: blocks that went with a client_t that was cleared
    at                  \* where SV_Frame is: Idle, at a slot's list, or Reading

client == <<state, delay, packets>>
vars == <<client, free_packets, paused, socket, arrived, executed, abandoned, at>>

(* A block on a list: its packet, and realtime - time, which is not told   *)
(* apart from MaxDelay on.                                                 *)
Block == [packet : 1..MaxArrivals, age : 0..MaxDelay]

Init ==
    /\ state = [s \in Slot |-> "active"]
    /\ delay \in [Slot -> {0, MaxDelay}]
    /\ packets = [s \in Slot |-> <<>>]
    /\ free_packets = MaxPackets
    /\ paused = FALSE
    /\ socket = <<>>
    /\ arrived = 0
    /\ executed = [s \in Slot |-> 0]
    /\ abandoned = 0
    /\ at = Idle

(***************************************************************************)
(* Between frames packets come in: of a connection, or asking for one.     *)
(***************************************************************************)
Arrive(s, connect) ==
    /\ at = Idle /\ arrived < MaxArrivals
    /\ connect => MayReconnect
    /\ arrived' = arrived + 1
    /\ socket' = Append(socket, [slot |-> s, packet |-> arrived', connect |-> connect])
    /\ UNCHANGED <<client, free_packets, paused, executed, abandoned, at>>

(***************************************************************************)
(* SV_Frame up to SV_ReadPackets: realtime advances unless the game is     *)
(* paused, and SV_CheckTimeouts ends zombies, whatever their list holds.   *)
(***************************************************************************)
Aged(list) == [i \in DOMAIN list |->
    [list[i] EXCEPT !.age = IF @ < MaxDelay THEN @ + 1 ELSE @]]

StartFrame(expired) ==
    /\ at = Idle
    /\ \A s \in expired : state[s] = "zombie" /\ ~paused
    /\ state' = [s \in Slot |-> IF s \in expired THEN "free" ELSE state[s]]
    /\ packets' = IF paused THEN packets ELSE [s \in Slot |-> Aged(packets[s])]
    /\ at' = 1
    /\ UNCHANGED <<delay, free_packets, paused, socket, arrived, executed, abandoned>>

(***************************************************************************)
(* SV_ExecuteClientMessage: the delay follows the ping unless the game is  *)
(* paused (for a spectator, or a stale packet, it stays), then the         *)
(* client's commands run.                                                  *)
(***************************************************************************)
NewDelays(s) ==
    IF paused THEN {delay[s]} ELSE (delay[s] - 1 .. delay[s] + 1) \intersect (0..MaxDelay)

ExecuteClientMessage(s, packet) ==
    /\ executed' = [executed EXCEPT ![s] = packet]
    /\ \E d \in NewDelays(s) : delay' = [delay EXCEPT ![s] = d]
    /\ \E st \in {"active", "zombie"} : state' = [state EXCEPT ![s] = st]
    /\ paused' \in BOOLEAN

(* Mutant: waits for one frame more than the delay. *)
DueOnlyOlder(s) ==
    /\ packets[s] # <<>>
    /\ Head(packets[s]).age > delay[s] \/ paused

(* Mutant: leaves the lists alone while the game is paused. *)
DueUnlessPaused(s) ==
    /\ packets[s] # <<>>
    /\ Head(packets[s]).age >= delay[s]

(* The head of a client's list may be executed. *)
Due(s) ==
    /\ packets[s] # <<>>
    /\ Head(packets[s]).age >= delay[s] \/ paused

(* Mutant: does not give the block back. *)
ExecuteDelayedKept(s) ==
    /\ at = s /\ state[s] # "free" /\ Due(s)
    /\ ExecuteClientMessage(s, Head(packets[s]).packet)
    /\ packets' = [packets EXCEPT ![s] = Tail(@)]
    /\ UNCHANGED <<free_packets, socket, arrived, abandoned, at>>

(* The body of the loop over a client's list: execute, then SV_FreeHeadDelayedPacket. *)
ExecuteDelayed(s) ==
    /\ at = s /\ state[s] # "free" /\ Due(s)
    /\ ExecuteClientMessage(s, Head(packets[s]).packet)
    /\ packets' = [packets EXCEPT ![s] = Tail(@)]
    /\ free_packets' = free_packets + 1
    /\ UNCHANGED <<socket, arrived, abandoned, at>>

NextSlot(s) ==
    /\ at = s /\ ~(state[s] # "free" /\ Due(s))
    /\ at' = s + 1
    /\ UNCHANGED <<client, free_packets, paused, socket, arrived, executed, abandoned>>

(***************************************************************************)
(* The loop over the socket.                                               *)
(***************************************************************************)
Reads == at = Reading /\ socket # <<>>
InGame == state[Head(socket).slot] # "free"
ReadsData == Reads /\ ~Head(socket).connect

(* Mutant: executes at once what comes in during a pause. *)
DelaysUnlessPaused(s) == delay[s] > 0 /\ ~paused

(* The client of this packet is to be held back. *)
Delays(s) == delay[s] > 0

(* Mutant: stops reading at a packet from nobody. *)
ReadUnknownStops ==
    /\ ReadsData /\ ~InGame
    /\ socket' = Tail(socket)
    /\ at' = Idle
    /\ UNCHANGED <<client, free_packets, paused, arrived, executed, abandoned>>

(* No slot has this remote end: the packet is ignored. *)
ReadUnknown ==
    /\ ReadsData /\ ~InGame
    /\ socket' = Tail(socket)
    /\ UNCHANGED <<client, free_packets, paused, arrived, executed, abandoned, at>>

ReadNow ==
    /\ ReadsData /\ InGame /\ ~Delays(Head(socket).slot)
    /\ ExecuteClientMessage(Head(socket).slot, Head(socket).packet)
    /\ socket' = Tail(socket)
    /\ UNCHANGED <<packets, free_packets, arrived, abandoned, at>>

(* Mutant: counts a block twice when it takes it from the pool. *)
ReadDelayedTwice ==
    /\ ReadsData /\ InGame /\ Delays(Head(socket).slot)
    /\ free_packets > 0
    /\ packets' = [packets EXCEPT ![Head(socket).slot] =
                     Append(@, [packet |-> Head(socket).packet, age |-> 0])]
    /\ free_packets' = free_packets - 2
    /\ socket' = Tail(socket)
    /\ UNCHANGED <<state, delay, paused, arrived, executed, abandoned, at>>

ReadDelayed ==
    /\ ReadsData /\ InGame /\ Delays(Head(socket).slot)
    /\ free_packets > 0
    /\ packets' = [packets EXCEPT ![Head(socket).slot] =
                     Append(@, [packet |-> Head(socket).packet, age |-> 0])]
    /\ free_packets' = free_packets - 1
    /\ socket' = Tail(socket)
    /\ UNCHANGED <<state, delay, paused, arrived, executed, abandoned, at>>

(* "packet has to be dropped..": the packet is gone and so is the rest of  *)
(* the loop; what the socket still holds waits for the next frame.         *)
ReadNoRoom ==
    /\ ReadsData /\ InGame /\ Delays(Head(socket).slot)
    /\ free_packets = 0
    /\ socket' = Tail(socket)
    /\ at' = Idle
    /\ UNCHANGED <<client, free_packets, paused, arrived, executed, abandoned>>

(* SVC_DirectConnect clears the client_t; the list goes with it and its    *)
(* blocks go nowhere.                                                      *)
Connect ==
    /\ Reads /\ Head(socket).connect
    /\ LET s == Head(socket).slot IN
       /\ state' = [state EXCEPT ![s] = "active"]
       /\ delay' = [delay EXCEPT ![s] = 0]
       /\ packets' = [packets EXCEPT ![s] = <<>>]
    /\ abandoned' = abandoned + Len(packets[Head(socket).slot])
    /\ socket' = Tail(socket)
    /\ UNCHANGED <<free_packets, paused, arrived, executed, at>>

EndFrame ==
    /\ at = Reading /\ socket = <<>>
    /\ at' = Idle
    /\ UNCHANGED <<client, free_packets, paused, socket, arrived, executed, abandoned>>

Frame ==
    \/ \E expired \in SUBSET Slot : StartFrame(expired)
    \/ \E s \in Slot : ExecuteDelayed(s) \/ NextSlot(s)
    \/ ReadUnknown \/ ReadNow \/ ReadDelayed \/ ReadNoRoom \/ Connect
    \/ EndFrame

Next ==
    \/ Frame
    \/ \E s \in Slot, connect \in BOOLEAN : Arrive(s, connect)

Spec == Init /\ [][Next]_vars

(* The main loop of the server never stops calling SV_Frame. *)
FairSpec == Spec /\ WF_vars(Frame)

-----------------------------------------------------------------------------
(***************************************************************************)
(* Properties.                                                             *)
(***************************************************************************)
TypeOK ==
    /\ state \in [Slot -> {"free", "active", "zombie"}]
    /\ delay \in [Slot -> 0..MaxDelay]
    /\ packets \in [Slot -> Seq(Block)]
    /\ free_packets \in 0..MaxPackets
    /\ paused \in BOOLEAN
    /\ socket \in Seq([slot : Slot, packet : 1..MaxArrivals, connect : BOOLEAN])
    /\ arrived \in 0..MaxArrivals
    /\ executed \in [Slot -> 0..MaxArrivals]
    /\ abandoned \in 0..MaxPackets
    /\ at \in Idle..Reading

(* A client's packets are executed in the order they arrived, though some  *)
(* go through its list and others do not, and the choice changes from one  *)
(* packet to the next: nothing on the list is older than what has already  *)
(* been executed (sv_main.c 2949-2973, the delay of sv_user.c 3763-3774).  *)
ExecutedInOrder ==
    \A s \in Slot : state[s] # "free" =>
        LET numbers == <<executed[s]>> \o [i \in DOMAIN packets[s] |-> packets[s][i].packet]
        IN  \A i \in 1..Len(numbers) - 1 : numbers[i] < numbers[i + 1]

(* Once the server reads the socket, no list holds a packet older than its *)
(* client's delay, whatever the executed packets did to the delays and the *)
(* pause (the loop of sv_main.c 2895-2901 goes on after each of them).     *)
NothingOverdue ==
    at = Reading => \A s \in Slot : state[s] # "free" /\ packets[s] # <<>> =>
                      Head(packets[s]).age < delay[s]

(* The blocks on the lists: each is one place on one of them. *)
Listed == UNION {{s} \X DOMAIN packets[s] : s \in Slot}

(* Every block of the pool is free, or on one client's list, or went with  *)
(* a client that was cleared: none is on two lists, none is freed twice    *)
(* (SV_FreeHeadDelayedPacket, sv_main.c 289-296).                          *)
PoolConserved == free_packets + Cardinality(Listed) + abandoned = MaxPackets

(* "maxclients 32 * 77fps * max minping 0.3 = 739.2" (server.h 60): the    *)
(* pool is sized for all its blocks being in use or free.                  *)
PoolComplete == free_packets + Cardinality(Listed) = MaxPackets

(* Packets stay unread at the end of a frame only when the pool is empty   *)
(* (the break of sv_main.c 2952).                                          *)
ReadsEverything ==
    [][at = Reading /\ at' = Idle /\ socket' # <<>> => free_packets = 0]_vars

(* What is held back is executed in the end, paused or not, unless its     *)
(* client is gone, or connects again, before (sv_main.c 2895): a list with *)
(* packets on it is empty later.  A behaviour has MaxArrivals packets, so  *)
(* that the game is not paused and resumed, nor a list filled, forever.    *)
HeldBackIsExecuted ==
    \A s \in Slot :
        packets[s] # <<>> ~> (packets[s] = <<>> \/ state[s] = "free" \/ abandoned > 0)

=============================================================================
