-------------------------------- MODULE Bans --------------------------------
(***************************************************************************)
(* The address filters of sv_main.c, ipfilters: bans, which may end at a   *)
(* time of the wall clock, and nets that are safe from bans.  Operators     *)
(* change the list at once, by rcon; an admin among the clients has the     *)
(* change put into the command buffer; listip.cfg brings the list back      *)
(* after a restart.  filterban is set.                                      *)
(***************************************************************************)
EXTENDS Integers, FiniteSets, FiniteSetsExt, SequencesExt

CONSTANTS
    Host,           \* addresses
    Net,            \* what a filter can be for: sets of addresses
    Duration,       \* how long bans last; 0 is for ever
    MaxFilters,     \* MAX_IPFILTERS
    RconLimit,      \* sv_rconlim
    MaxCommands,    \* bound on the command buffer
    MaxTime         \* bound on the wall clock

VARIABLES
    list,           \* ipfilters; listip.cfg; and as history, the filter each net
                    \* is to have and until when an admin's ban is to last
    cbuf,           \* what waits in the command buffer
    clock,          \* time(NULL)
    lpackets        \* lpackets: passwords tested this second

vars == <<list, cbuf, clock, lpackets>>

Filter(n, type, time) == [net |-> n, type |-> type, time |-> time]
NoFilter(n) == Filter(n, "none", 0)
Never == -1

Init ==
    /\ list = [filters |-> <<>>, file |-> <<>>, ordered |-> [n \in Net |-> NoFilter(n)],
               promised |-> [n \in Net |-> Never]]
    /\ cbuf = <<>> /\ clock = 1 /\ lpackets = 0

Over(f, now) == f.time # 0 /\ f.time <= now
At(fs, n) == {i \in DOMAIN fs : fs[i].net = n}

(* SV_AddIP_f: a net keeps its place, a new one needs room. *)
AddIP(l, f, promise) ==
    IF At(l.filters, f.net) = {} /\ Len(l.filters) = MaxFilters THEN l
    ELSE [l EXCEPT
            !.filters = IF At(@, f.net) = {} THEN Append(@, f)
                        ELSE [@ EXCEPT ![Min(At(@, f.net))] = f],
            !.ordered[f.net] = f, !.promised[f.net] = promise]

(* SV_RemoveIP_f and SV_RemoveBansIPFilter. *)
RemoveIP(l, i) ==
    LET n == l.filters[i].net IN
    [l EXCEPT !.filters = RemoveAt(@, i), !.ordered[n] = NoFilter(n),
              !.promised[n] = Never]

(* Mutant: the time that is left is written. *)
WriteIPRemaining(l, now) ==
    [l EXCEPT !.file = [i \in DOMAIN l.filters |->
        [l.filters[i] EXCEPT !.time = IF @ > now THEN @ - now ELSE @]]]
(* SV_WriteIP_f: safe nets first. *)
WriteIP(l, now) ==
    [l EXCEPT !.file = SelectSeq(l.filters, LAMBDA f : f.type = "safe")
                       \o SelectSeq(l.filters, LAMBDA f : f.type # "safe")]

(* Mutant: the filter that moves up to the place of one removed is passed. *)
CleanSkipping(fs, now) ==
    LET Kept(s, f) == IF Over(f, now) /\ ~s.skip
                      THEN [s EXCEPT !.skip = TRUE]
                      ELSE [fs |-> Append(s.fs, f), skip |-> FALSE]
    IN FoldLeft(Kept, [fs |-> <<>>, skip |-> FALSE], fs).fs
(* SV_CleanBansIPList *)
Clean(fs, now) == SelectSeq(fs, LAMBDA f : ~Over(f, now))

(* SV_FilterPacket *)
FilterPacket(h) ==
    \E i \in DOMAIN list.filters : list.filters[i].type = "ban" /\ h \in list.filters[i].net

-----------------------------------------------------------------------------
(* SVC_RemoteCommand of an operator: the master password is tested first,  *)
(* then rcon_password, each counted by rcon_bandlim; a banned address does *)
(* not command.                                                            *)
Rcon(h, master) ==
    LET tests == IF master THEN 1 ELSE 2 IN
    /\ lpackets + tests <= RconLimit
    /\ ~FilterPacket(h)
    /\ lpackets' = lpackets + tests

BadRcon ==
    /\ lpackets <= RconLimit                                     \* bound
    /\ lpackets' = lpackets + 2
    /\ UNCHANGED <<list, cbuf, clock>>

RconAddIP(n, type, d) ==
    /\ list' = AddIP(list, Filter(n, type, IF d = 0 THEN 0 ELSE clock + d), Never)
    /\ UNCHANGED <<cbuf, clock>>
RconRemoveIP(n) ==
    /\ At(list.filters, n) # {}
    /\ list' = RemoveIP(list, Min(At(list.filters, n)))
    /\ UNCHANGED <<cbuf, clock>>
RconWriteIP == list' = WriteIP(list, clock) /\ UNCHANGED <<cbuf, clock>>

(* SV_CanAddBan *)
CanAddBan(n) == \A i \in At(list.filters, n) : list.filters[i].type # "safe"

(* SV_Cmd_Ban_f and SV_Cmd_Banip_f *)
Ban(n, d) ==
    /\ Len(cbuf) + 2 <= MaxCommands                              \* bound
    /\ CanAddBan(n)
    /\ cbuf' = cbuf \o <<[cmd |-> "addip", net |-> n, d |-> d],
                         [cmd |-> "writeip", net |-> n, d |-> 0]>>
    /\ UNCHANGED <<list, clock, lpackets>>

(* SV_Cmd_Banremove_f *)
Banremove(id) ==
    /\ Len(cbuf) < MaxCommands                                   \* bound
    /\ list.filters[id].type # "safe"
    /\ list' = RemoveIP(list, id)
    /\ cbuf' = Append(cbuf, [cmd |-> "writeip", net |-> list.filters[id].net, d |-> 0])
    /\ UNCHANGED <<clock, lpackets>>

(* SV_Frame: SV_CleanBansIPList, and the commands that wait. *)
Execute(l, c, now) ==
    LET until == IF c.d = 0 THEN 0 ELSE now + c.d IN
    IF c.cmd = "writeip" THEN WriteIP(l, now)
    ELSE AddIP(l, Filter(c.net, "ban", until), until)
Frame ==
    LET now     == clock + 1
        Cleaned(f) == IF Over(f, now) THEN NoFilter(f.net) ELSE f
        l       == [list EXCEPT !.filters = Clean(@, now),
                                !.ordered = [n \in Net |-> Cleaned(@[n])]]
        Run(s, c) == Execute(s, c, now)
    IN /\ clock < MaxTime                                        \* bound
       /\ clock' = now /\ cbuf' = <<>> /\ lpackets' = 0
       /\ list' = FoldLeft(Run, l, cbuf)

(* The server is started again, and executes listip.cfg. *)
Restart ==
    LET Add(l, f) == AddIP(l, f, list.promised[f.net])
        empty == [list EXCEPT !.filters = <<>>,
                              !.ordered = [n \in Net |-> NoFilter(n)]]
    IN /\ list' = FoldLeft(Add, empty, list.file)
       /\ cbuf' = <<>> /\ lpackets' = 0
       /\ UNCHANGED clock

Next ==
    \/ \E h \in Host, master \in BOOLEAN :
          /\ Rcon(h, master)
          /\ \/ \E n \in Net, type \in {"ban", "safe"}, d \in Duration : RconAddIP(n, type, d)
             \/ \E n \in Net : RconRemoveIP(n)
             \/ RconWriteIP
    \/ \E n \in Net, d \in Duration : Ban(n, d)
    \/ \E id \in DOMAIN list.filters : Banremove(id)
    \/ BadRcon \/ Frame \/ Restart

Spec == Init /\ [][Next]_vars

-----------------------------------------------------------------------------
(* The list is a map from nets to filters: whatever is added in the place  *)
(* of another, removed by number, expires together with its neighbours or  *)
(* finds the list full, each net has exactly the filter it is to have.     *)
EachNetItsFilter ==
    \A n \in Net :
       LET at == At(list.filters, n) IN
       IF list.ordered[n].type = "none" THEN at = {}
       ELSE Cardinality(at) = 1 /\ list.filters[Min(at)] = list.ordered[n]

(* Who is banned by an admin's command stays banned to the second, over    *)
(* restarts too, unless an operator or admin decides otherwise.            *)
BansOutlastRestarts ==
    \A n \in Net :
       LET until == list.promised[n] IN
       (until = 0 \/ until > clock) => \A h \in n : FilterPacket(h)
=============================================================================
