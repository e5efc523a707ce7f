------------------------------- MODULE Logins -------------------------------
(***************************************************************************)
(* Logging in: with an account of this server (sv_login.c), typed into the *)
(* chat or known by the address, and in a build with WWW_INTEGRATION with  *)
(* the login server (central.c), whose answers come later.                 *)
(*                                                                         *)
(* A client's place in svs.clients is a slot.  cl->logged is -1 for one    *)
(* that need not log in, 0 for one that is to, and else the number of an   *)
(* account, counted from one.  An account for an address has that address  *)
(* as its name; a password is right or wrong.                              *)
(***************************************************************************)
EXTENDS Integers, FiniteSets, FiniteSetsExt, SequencesExt

CONSTANTS
    MaxSlot,        \* MAX_CLIENTS
    Addr,           \* addresses
    Spectator,      \* may a client be a spectator, may it be none
    Name,           \* names one can log in by
    MaxAccounts,    \* MAX_ACCOUNTS
    MaxFailures,    \* MAX_FAILURES
    LoginTimeout,   \* the 60 seconds of SV_LoginCheckTimeOut, in frames
    ZombieTime,     \* zombietime, in frames
    Retry,          \* LOGIN_MIN_RETRY_TIME, in frames
    SvLogin,        \* sv_login: 0, 1 (players only) or 2
    Www,            \* built with WWW_INTEGRATION
    MayPause,       \* bound: whether the game is ever paused
    MaxTime,        \* bound on sv.time, in frames
    MaxRequests,    \* bound: requests under way
    MaxLeak         \* bound on how far a count may be off, either way

VARIABLES
    accounts,       \* accounts
    num_accounts,   \* num_accounts
    file,           \* the accounts file: whether it is there, and what it says
    clients,        \* svs.clients
    svtime,         \* sv.time; a level starts at 1
    paused,         \* sv.paused
    requests,       \* web_requests
    missed          \* history: accounts read again with clients not counted

vars == <<accounts, num_accounts, file, clients, svtime, paused, requests, missed>>

Slot == 1..MaxSlot
Spot == 1..MaxAccounts
Empty == [state |-> "free", name |-> "", failures |-> 0, inuse |-> 0]
NoClient == [state |-> "free", addr |-> "", spectator |-> FALSE, login |-> "",
             logged |-> 0, age |-> -1, login_request_time |-> 0, challenge |-> FALSE]

Here(c) == clients[c].state # "free"
In(c) == clients[c].state \in {"preconnected", "connected"}
ByAddress(i) == accounts[i].name \in Addr

(* The accounts the loops over num_accounts come to, in order. *)
Taken(acs) == {i \in Spot : acs[i].state # "free"}
Listed(acs, n) ==
    {i \in Taken(acs) : Cardinality({j \in Taken(acs) : j < i}) < n}
Find(name) == {i \in Listed(accounts, num_accounts) : accounts[i].name = name}

(* WriteAccounts *)
Written(acs, n) ==
    LET listed == SelectSeq([i \in Spot |-> i], LAMBDA i : i \in Listed(acs, n))
    IN [there |-> TRUE,
        says |-> [k \in DOMAIN listed |-> [acs[listed[k]] EXCEPT !.inuse = 0]]]

Init ==
    /\ accounts = [i \in Spot |-> Empty] /\ num_accounts = 0
    /\ file = [there |-> TRUE, says |-> <<>>] /\ clients = [c \in Slot |-> NoClient] /\ svtime = 1
    /\ paused = FALSE /\ requests = {} /\ missed = {}

-----------------------------------------------------------------------------
(* SV_Logout, on the accounts and on the client. *)
Uncounted(acs, cl) ==
    IF cl.logged > 0 THEN [acs EXCEPT ![cl.logged].inuse = @ - 1] ELSE acs
(* Mutant: the client is still logged in. *)
LoggedOutKept(cl) == IF cl.logged > 0 THEN [cl EXCEPT !.login = ""] ELSE cl
LoggedOut(cl) ==
    IF cl.logged > 0 THEN [cl EXCEPT !.login = "", !.logged = 0] ELSE cl

(* checklogin: the outcome, and the account it is about, if any.  Failures *)
(* count up to MAX_FAILURES.                                               *)
Outcome(name, right) ==
    LET found == Find(name) IN
    IF found = {} THEN [code |-> 0, spot |-> 0]
    ELSE LET i == Min(found) IN
         [spot |-> i,
          code |-> IF accounts[i].inuse # 0 /\ ~ByAddress(i) THEN -1
                   ELSE IF accounts[i].state = "blocked" THEN -2
                   ELSE IF ByAddress(i) \/ right THEN i ELSE 0]

CheckLogin(o) ==
    LET i == o.spot
        failed == [accounts EXCEPT ![i].failures = Min({@ + 1, MaxFailures}),
                     ![i].state = IF accounts[i].failures + 1 >= MaxFailures
                                  THEN "blocked" ELSE @]
    IN IF o.code > 0
       THEN /\ accounts' = [accounts EXCEPT ![i].failures = 0, ![i].inuse = @ + 1]
            /\ UNCHANGED file
       ELSE IF o.code = 0 /\ i # 0
       THEN /\ accounts' = failed
            /\ file' = Written(failed, num_accounts)
       ELSE UNCHANGED <<accounts, file>>

(* SVC_DirectConnect, to a slot that is free or whose client connects      *)
(* again; connection_started, which age is counted from, is not set yet.   *)
(* A request says whom it is of, which no field of it does: of the client  *)
(* in its slot, of one the slot was taken from at the very time it asked,  *)
(* or of one long gone.                                                    *)
Whose(r) ==
    IF r.of # "gone" /\ r.time_sent = svtime /\ ~r.earlier THEN "just gone" ELSE "gone"
Connect(c, addr, spectator) ==
    /\ ~In(c)
    /\ clients[c].logged > 0 => accounts[clients[c].logged].inuse <= MaxLeak + 1    \* bound
    /\ clients' = [clients EXCEPT ![c] =
          [NoClient EXCEPT !.state = "preconnected", !.addr = addr,
                           !.spectator = spectator]]
    /\ requests' = {IF r.slot = c THEN [r EXCEPT !.of = Whose(r)] ELSE r : r \in requests}
    /\ UNCHANGED <<accounts, num_accounts, file, svtime, paused, missed>>

(* Cmd_New_f of a client that is first to say more: its extensions or its  *)
(* real address; or that may only be here as a VIP and is none.            *)
Started(cl) ==
    [cl EXCEPT !.age = IF @ < 0 \/ cl.state = "connected" THEN 0 ELSE @]
AskedForMore(c) ==
    /\ Here(c)
    /\ clients' = [clients EXCEPT ![c] = Started(@)]
    /\ UNCHANGED <<accounts, num_accounts, file, svtime, paused, requests, missed>>

(* Cmd_New_f and its SV_Login; a zombie is logged in too. *)
New(c) ==
    LET cl   == [Started(clients[c]) EXCEPT !.state = IF @ = "zombie" THEN @ ELSE "connected"]
        free == SvLogin = 0 \/ (SvLogin = 1 /\ cl.spectator)
        o    == Outcome(cl.addr, TRUE)
        in   == ~free /\ cl.logged <= 0
        stay == ~free /\ cl.logged > 0
    IN /\ Here(c)
       /\ UNCHANGED <<num_accounts, svtime, paused, requests, missed>>
       /\ \/ /\ SvLogin = 0 \/ (cl.logged <= 0 /\ free)
             /\ accounts' = Uncounted(accounts, cl)
             /\ clients' = [clients EXCEPT ![c] = [LoggedOut(cl) EXCEPT !.logged = -1]]
             /\ UNCHANGED file
          \/ /\ SvLogin # 0 /\ cl.logged > 0
             /\ clients' = [clients EXCEPT ![c] = cl]
             /\ UNCHANGED <<accounts, file>>
          \/ /\ in
             /\ CheckLogin(o)
             /\ clients' = [clients EXCEPT ![c] =
                   IF o.code > 0 THEN [cl EXCEPT !.logged = o.code, !.login = cl.addr]
                   ELSE [cl EXCEPT !.logged = 0, !.login = ""]]

(* SV_Say of a client that is to log in: SV_ParseLogin.  A line is a name, *)
(* with or without a password behind it, or a password.  It need not have  *)
(* said new, nor be there any more.                                        *)
SayName(c, name) ==
    /\ Here(c)
    /\ clients[c].logged = 0 /\ clients[c].login = ""
    /\ clients' = [clients EXCEPT ![c].login = name]
    /\ UNCHANGED <<accounts, num_accounts, file, svtime, paused, requests, missed>>

SayPassword(c, name, right) ==
    LET o == Outcome(name, right) IN
    /\ Here(c) /\ clients[c].logged = 0
    /\ clients[c].login \in {"", name}
    /\ CheckLogin(o)
    /\ clients' = [clients EXCEPT ![c].logged = IF o.code < 0 THEN 0 ELSE o.code,
                                  ![c].login = IF o.code < 0 THEN "" ELSE name]
    /\ UNCHANGED <<num_accounts, svtime, paused, requests, missed>>

(* SV_DropClient *)
DroppedClient(cl) ==
    [LoggedOut(cl) EXCEPT !.state = "zombie", !.age = 0]
Drop(c) ==
    /\ In(c)
    /\ accounts' = Uncounted(accounts, clients[c])
    /\ clients' = [clients EXCEPT ![c] = DroppedClient(@)]
    /\ UNCHANGED <<num_accounts, file, svtime, paused, requests, missed>>

-----------------------------------------------------------------------------
(* SV_CreateAccount_f.  The spot is the first free one before the last     *)
(* account, or the one behind it; what else the spot held it keeps.        *)
CreateAccount(name) ==
    LET listed == Listed(accounts, num_accounts)
        end    == IF listed = {} THEN 0 ELSE Max(listed)
        gaps   == {i \in 1..end : accounts[i].state = "free"}
        spot   == IF gaps = {} THEN end + 1 ELSE Min(gaps)
        acs    == [accounts EXCEPT ![spot].state = "ok", ![spot].name = name]
    IN /\ num_accounts # MaxAccounts /\ Find(name) = {}
       /\ accounts' = acs /\ num_accounts' = num_accounts + 1
       /\ file' = Written(acs, num_accounts + 1)
       /\ UNCHANGED <<clients, svtime, paused, requests, missed>>

(* SV_RemoveAccount_f.  inuse is how many are logged in, and is taken for  *)
(* the number of the client that is.                                       *)
RemoveAccount(name) ==
    \E i \in Find(name) :
       LET c   == accounts[i].inuse
           out == c \in Slot
           acs == [IF out THEN Uncounted(accounts, clients[c]) ELSE accounts
                      EXCEPT ![i].state = "free", ![i].name = ""]
       IN /\ accounts' = acs /\ num_accounts' = num_accounts - 1
          /\ clients' = IF out THEN [clients EXCEPT ![c] = LoggedOut(@)] ELSE clients
          /\ file' = Written(acs, num_accounts - 1)
          /\ UNCHANGED <<svtime, paused, requests, missed>>

(* SV_blockAccount and its two commands. *)
BlockAccount(name, block) ==
    \E i \in Find(name) :
       LET acs == IF block THEN [accounts EXCEPT ![i].state = "blocked"]
                  ELSE IF accounts[i].state = "blocked"
                  THEN [accounts EXCEPT ![i].state = "ok", ![i].failures = 0]
                  ELSE accounts
       IN /\ accounts' = acs
          /\ file' = Written(acs, num_accounts)
          /\ UNCHANGED <<num_accounts, clients, svtime, paused, requests, missed>>

(* SV_SpawnServer: the level's clock starts anew, and SV_LoadAccounts reads *)
(* the accounts again and logs in again who can be.                         *)
Relogged(acs, c) ==
    LET cl  == clients[c]
        fit == {i \in DOMAIN file.says : acs[i].name = IF acs[i].name \in Addr
                                                   THEN cl.addr ELSE cl.login}
    IN IF cl.state # "connected" \/ cl.logged <= 0 THEN cl
       ELSE IF fit # {} /\ acs[Min(fit)].state = "ok"
               /\ (acs[Min(fit)].inuse = 0 \/ acs[Min(fit)].name \in Addr)
       THEN [cl EXCEPT !.logged = Min(fit)]
       ELSE [cl EXCEPT !.logged = 0, !.login = ""]

Reload[c \in 0..MaxSlot] ==
    IF c = 0
    THEN [acs |-> [i \in Spot |-> IF i \in DOMAIN file.says THEN file.says[i]
                              ELSE IF i = 1 THEN Empty ELSE accounts[i]],
          cls |-> clients]
    ELSE LET before == Reload[c - 1]
             cl     == Relogged(before.acs, c)
             counts == cl.state = "connected" /\ cl.logged > 0
         IN [acs |-> IF counts THEN [before.acs EXCEPT ![cl.logged].inuse = @ + 1]
                     ELSE before.acs,
             cls |-> [before.cls EXCEPT ![c] = cl]]

SpawnServer ==
    /\ svtime' = 1 /\ paused' = FALSE
    /\ requests' = {[r EXCEPT !.earlier = TRUE] : r \in requests}
    /\ \A i \in Spot : accounts[i].inuse > MaxLeak
                        => file.there /\ i \in DOMAIN file.says      \* bound
    /\ IF ~file.there
       THEN /\ num_accounts' = 0
            /\ clients' = [c \in Slot |-> [clients[c] EXCEPT !.login = "",
                                 !.logged = IF @ > 0 THEN 0 ELSE @]]
            /\ UNCHANGED <<accounts, missed>>
       ELSE /\ num_accounts' = Len(file.says)
            /\ missed' = (missed \ DOMAIN file.says) \cup
                          {i \in Spot : \E c \in Slot :
                             clients[c].logged = i /\ clients[c].state # "connected"}
            /\ \E r \in {Reload[MaxSlot]} : accounts' = r.acs /\ clients' = r.cls
    /\ UNCHANGED file

-----------------------------------------------------------------------------
(* Cmd_Login_f and Cmd_ChallengeResponse_f: Web_SubmitRequestForm. *)
Ask(c, kind) ==
    /\ Www /\ Here(c)
    /\ svtime < MaxTime /\ Cardinality(requests) < MaxRequests     \* bounds
    /\ svtime - clients[c].login_request_time >= Retry
    /\ kind = "verify" => clients[c].challenge
    /\ accounts[1].inuse >= -MaxLeak                              \* bound
    /\ clients' = [clients EXCEPT ![c].login_request_time = svtime]
    /\ requests' = requests \cup {[slot |-> c, time_sent |-> svtime, kind |-> kind,
                                         of |-> "client", earlier |-> FALSE]}
    /\ UNCHANGED <<accounts, num_accounts, file, svtime, paused, missed>>

(* Cmd_Logout_f *)
LogoutCommand(c) ==
    /\ Www /\ Here(c)
    /\ \A i \in Spot : accounts[i].inuse <= MaxLeak                \* bound
    /\ clients' = [clients EXCEPT ![c].login = "", ![c].logged = 0]
    /\ UNCHANGED <<accounts, num_accounts, file, svtime, paused, requests, missed>>

(* Auth_GenerateChallengeResponse and Auth_ProcessLoginAttempt: the answer *)
(* is for the client in the slot, unless it has asked again.               *)
(* Mutant: whoever is in the slot. *)
TakesAnswerAlways(r, ok) == ok
TakesAnswer(r, ok) ==
    ok /\ clients[r.slot].login_request_time = r.time_sent

(* One request has ended. *)
Answer(r, ok, name) ==
    /\ requests' = requests \ {r}
    /\ clients' = IF ~TakesAnswer(r, ok) THEN clients
                  ELSE IF r.kind = "generate"
                  THEN [clients EXCEPT ![r.slot].challenge = TRUE]
                  ELSE [clients EXCEPT ![r.slot].logged = 1, ![r.slot].login = name]
    /\ UNCHANGED <<accounts, num_accounts, file, svtime, paused, missed>>

(* Requests end in any order.  Those of the server itself, which no client *)
(* waits for, are left out.                                                *)
Answered(r) == \E ok \in BOOLEAN, name \in Name : Answer(r, ok, name)
Central_ProcessResponses == \E r \in requests : Answered(r)

-----------------------------------------------------------------------------
(* A frame of SV_Frame: the clocks, which stop in a pause, and             *)
(* SV_CheckTimeouts with SV_LoginCheckTimeOut.                             *)
Aged(cl) ==
    IF paused \/ cl.age < 0 THEN cl
    ELSE [cl EXCEPT !.age = Min({@ + 1, Max({LoginTimeout, ZombieTime}) + 1})]
(* Mutant: only who is still connecting is given up. *)
TooLongConnecting(c) ==
    /\ clients[c].state = "preconnected" /\ clients[c].logged = 0
    /\ Aged(clients[c]).age > LoginTimeout
TooLong(c) == In(c) /\ clients[c].logged = 0 /\ Aged(clients[c]).age > LoginTimeout

Frame ==
    /\ svtime' = IF paused THEN svtime ELSE Min({svtime + 1, MaxTime})
    /\ clients' = [c \in Slot |->
          LET cl == Aged(clients[c]) IN
          IF TooLong(c) THEN DroppedClient(cl)
          ELSE IF cl.state = "zombie" /\ cl.age > ZombieTime
          THEN [cl EXCEPT !.state = "free"]
          ELSE IF cl.state = "free" THEN clients[c] ELSE cl]
    /\ UNCHANGED <<accounts, num_accounts, file, paused, requests, missed>>

(* SV_TogglePause *)
TogglePause ==
    /\ MayPause
    /\ paused' = ~paused
    /\ UNCHANGED <<accounts, num_accounts, file, clients, svtime, requests, missed>>

Next ==
    \/ \E c \in Slot :
          \/ \E addr \in Addr, spectator \in Spectator : Connect(c, addr, spectator)
          \/ New(c) \/ AskedForMore(c) \/ Drop(c) \/ LogoutCommand(c)
          \/ \E name \in Name : \/ SayName(c, name)
                                \/ \E right \in BOOLEAN : SayPassword(c, name, right)
          \/ \E kind \in {"generate", "verify"} : Ask(c, kind)
    \/ \E name \in Name \cup Addr :
          \/ CreateAccount(name) \/ RemoveAccount(name)
          \/ \E block \in BOOLEAN : BlockAccount(name, block)
    \/ SpawnServer
    \/ /\ file' = [file EXCEPT !.there = FALSE]
       /\ UNCHANGED <<accounts, num_accounts, clients, svtime, paused, requests, missed>>
    \/ Central_ProcessResponses
    \/ Frame \/ TogglePause

Spec == Init /\ [][Next]_vars

(* SV_Frame runs again and again. *)
Fairness == WF_vars(Frame)

-----------------------------------------------------------------------------
(* The count an account keeps of its clients never falls below how many    *)
(* slots are logged in to it, through wrong passwords, logins by address,  *)
(* drops, level changes, removals and a lost accounts file: else the next  *)
(* client could log in to an account in use.  Left out are the accounts    *)
(* that were read again while a client not connected yet, or dropped, was  *)
(* logged in to them: those are not counted again (sv_login.c:167-169).    *)
CountsItsClients ==
    \A i \in Spot \ missed : Cardinality({c \in Slot : clients[c].logged = i})
                              <= accounts[i].inuse

(* An answer of the login server changes no client but the one that asked, *)
(* although only the time it asked at is compared: unless the level has    *)
(* changed since, and its time begun anew, or another took the slot at     *)
(* that very time, in one frame or in a pause (central.c:157, 201).        *)
ChangesWhoAsked ==
    \A r \in requests : Answered(r) /\ clients' # clients => r.of # "gone" \/ r.earlier
AnswersWereAskedFor == [][ChangesWhoAsked]_vars

(* A client that is to log in and has said new does so, leaves, or is      *)
(* dropped, if it does not say new again and again, which starts its time  *)
(* anew (sv_user.c:156), nor is the game paused again and again.           *)
Waits(c) == In(c) /\ clients[c].logged = 0 /\ clients[c].age >= 0
LoginsEnd ==
    \A c \in Slot : []<>(~Waits(c) \/ paused) \/ []<><<New(c) \/ AskedForMore(c)>>_vars
=============================================================================
