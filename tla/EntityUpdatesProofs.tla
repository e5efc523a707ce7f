-------------------------- MODULE EntityUpdatesProofs --------------------------
(***************************************************************************)
(* The frame a client has put together is the one the server remembers for *)
(* it: for any number of packets, lost and late as they may be, any        *)
(* UPDATE_BACKUP that divides the numbers of a byte, any entities and      *)
(* whatever of them is left out.                                           *)
(*                                                                         *)
(* The frame an update is made against is found twice by a number that was *)
(* cut to a byte: by the server among its last frames, and by the client   *)
(* among its own.  The proof follows the number itself: the client asks    *)
(* only for a frame that both sides still have, and neither reuses its     *)
(* place before the answer is of no use any more.                          *)
(***************************************************************************)
EXTENDS EntityUpdates, TLAPS

(* What there may be of entities, and what the theorem needs to know of    *)
(* the constants.                                                          *)
Frames == UNION {[S -> State] : S \in SUBSET Entity}

Sane ==
    /\ Backup \in Nat \ {0}
    /\ \E m \in Nat \ {0} : Byte = Backup * m
    /\ World \subseteq Frames

-----------------------------------------------------------------------------
(* A number the server has sent, whose frame stays in its place for as     *)
(* long as it is one of the last Backup, on both sides if the client could *)
(* use it.                                                                 *)
Sent(a) == a \in Nat \ {0} /\ a < netchan.outgoing

KeptByServer(a) ==
    netchan.incoming - a < Backup => frames[Slot(a)].sequence = a

KeptByClient(a) ==
    cl.outgoing - a <= Backup => cl.frames[Slot(a)].sequence = a

Known(a) ==
    /\ Sent(a) /\ KeptByServer(a) /\ KeptByClient(a)
    /\ \A q \in toClient : a < q.sequence

KnownNumbers == {a \in Nat : Known(a)}

(* The client remembers what its packet n asked for. *)
Recent(n) == cl.outgoing - n <= Backup

(* What packet n asks for: a frame both sides know. *)
Asks(n, delta) ==
    /\ delta # None =>
          \E a \in 1 .. n - 1 : /\ Known(a) /\ n - a < Backup - 1
                                /\ a % Byte = delta
                                /\ Recent(n) => cl.asked[Slot(n)] = a
    /\ delta = None /\ Recent(n) => cl.asked[Slot(n)] = None

(* The client's frame has what the server's has, but for what it was not   *)
(* told of.                                                                *)
Agree(has, kept) ==
    /\ IsRestriction(has, kept)
    /\ \A e \in DOMAIN has : e \in Large => Extended
    /\ \A e \in DOMAIN kept \ DOMAIN has :
          kept[e] = BaselineOf(e) \/ (e \in Large /\ ~Extended)

(* An update leads from one frame of the server to another, for as long as *)
(* both are there.                                                         *)
Leads(q) ==
    LET from == IF q.base = None THEN <<>> ELSE frames[Slot(q.against)].entities IN
    /\ frames[Slot(q.sequence)].sequence = q.sequence
    /\ q.base # None => frames[Slot(q.against)].sequence = q.against
    => \E to \in Frames, fits \in Entity \union {0} :
          /\ q.update = Update(from, to, fits)
          /\ frames[Slot(q.sequence)].entities = Recorded(from, to, fits)

Numbers ==
    /\ netchan \in [incoming : Nat, outgoing : Nat]
    /\ send_message \in BOOLEAN
    /\ netchan.outgoing <= netchan.incoming + 1
    /\ send_message => netchan.outgoing = netchan.incoming /\ netchan.incoming > 0
    /\ netchan.incoming < cl.outgoing /\ cl.outgoing \in Nat
    /\ \A p \in toServer : /\ p.sequence \in Nat /\ netchan.incoming < p.sequence
                           /\ p.sequence < cl.outgoing

Places ==
    /\ DOMAIN frames = Ring
    /\ DOMAIN cl = {"outgoing", "validsequence", "asked", "frames"}
    /\ DOMAIN cl.asked = Ring /\ DOMAIN cl.frames = Ring
    /\ \A i \in Ring : /\ frames[i].sequence \in Nat
                       /\ frames[i].sequence = 0 \/ frames[i].sequence < netchan.outgoing
                       /\ cl.frames[i].sequence = 0 \/ Sent(cl.frames[i].sequence)

Asked ==
    /\ cl.validsequence \in KnownNumbers \union {0}
    /\ \A n \in 1 .. cl.outgoing - 1 :
          Recent(n) => \/ cl.asked[Slot(n)] = None
                       \/ /\ cl.asked[Slot(n)] \in KnownNumbers
                          /\ n - cl.asked[Slot(n)] < Backup - 1
    /\ \A p \in toServer : Asks(p.sequence, p.delta)
    /\ send_message => Asks(netchan.incoming, delta_sequence)

Answers ==
    \A q \in toClient :
        /\ Sent(q.sequence) /\ KeptByServer(q.sequence)
        /\ q.base # None => /\ q.against \in Nat /\ q.against < q.sequence
                            /\ q.against % Byte = q.base
                            /\ Recent(q.sequence) => cl.asked[Slot(q.sequence)] = q.against
        /\ Leads(q)

BothAgree ==
    \A i \in Ring :
        cl.frames[i].sequence # 0 /\ cl.frames[i].sequence = frames[i].sequence
        => Agree(cl.frames[i].entities, frames[i].entities)

UpdatesInv == Numbers /\ Places /\ Asked /\ Answers /\ BothAgree

-----------------------------------------------------------------------------
(***************************************************************************)
(* Numbers and places.                                                     *)
(***************************************************************************)
LEMMA Remainder ==
    ASSUME NEW K \in Nat \ {0}, NEW a \in Nat PROVE a % K \in 0..(K - 1)
  OBVIOUS

LEMMA Quotient ==
    ASSUME NEW K \in Nat \ {0}, NEW a \in Nat
    PROVE  \E p \in Nat : a = K * p + (a % K)
<1>1. a = K * (a \div K) + (a % K) /\ a \div K \in Nat
  OBVIOUS
<1> QED
  BY <1>1

LEMMA SameRemainder ==
    ASSUME NEW K \in Nat \ {0}, NEW a \in Nat, NEW b \in Nat, a < b, a % K = b % K
    PROVE  b - a >= K
<1>1. PICK r \in 0..(K - 1) : r = a % K /\ r = b % K
  BY Remainder
<1>2. PICK p \in Nat : a = K * p + r
  BY Quotient, <1>1
<1>3. PICK q \in Nat : b = K * q + r
  BY Quotient, <1>1
<1>4. p < q
  BY <1>2, <1>3
<1>5. K * q - K * p >= K
  BY <1>4
<1> QED
  BY <1>2, <1>3, <1>5

LEMMA RemainderOfRemainder ==
    ASSUME NEW K \in Nat \ {0}, NEW m \in Nat \ {0}, NEW a \in Nat
    PROVE  (a % (K * m)) % K = a % K
<1>1. K * m \in Nat \ {0}
  OBVIOUS
<1>2. PICK r \in Nat : r = a % (K * m)
  BY <1>1, Remainder
<1>3. PICK p \in Nat : a = (K * m) * p + r
  BY <1>1, <1>2, Quotient
<1>4. PICK s \in 0..(K - 1), q \in Nat : r = K * q + s /\ s = r % K
  BY Quotient, Remainder
<1>5. PICK t \in 0..(K - 1), u \in Nat : a = K * u + t /\ t = a % K
  BY Quotient, Remainder
<1>6. PICK v \in Nat : v = m * p + q /\ a = K * v + s
  BY <1>3, <1>4
<1>7. u = v
  <2>1. CASE u < v
    <3>1. K * v - K * u >= K
      BY <2>1
    <3> QED
      BY <3>1, <1>5, <1>6
  <2>2. CASE v < u
    <3>1. K * u - K * v >= K
      BY <2>2
    <3> QED
      BY <3>1, <1>5, <1>6
  <2> QED
    BY <2>1, <2>2
<1>8. s = t
  BY <1>5, <1>6, <1>7
<1> QED
  BY <1>2, <1>4, <1>5, <1>8

(* Two numbers have the same place only if they are Backup apart, and the  *)
(* byte of a number has the place of the number.                           *)
LEMMA SlotsApart ==
    ASSUME Sane
    PROVE  /\ \A a \in Nat : Slot(a) \in Ring
           /\ \A a, b \in Nat : a < b /\ b - a < Backup => Slot(a) # Slot(b)
           /\ \A a \in Nat : Slot(a % Byte) = Slot(a) /\ a % Byte \in Nat
<1>1. Backup \in Nat \ {0}
  BY DEF Sane
<1>2. \A a \in Nat : Slot(a) \in Ring
  BY <1>1, Remainder DEF Slot, Ring
<1>3. ASSUME NEW a \in Nat, NEW b \in Nat, a < b, b - a < Backup
      PROVE  Slot(a) # Slot(b)
  <2> SUFFICES ASSUME a % Backup = b % Backup PROVE FALSE
    BY DEF Slot
  <2>1. b - a >= Backup
    BY <1>1, <1>3, SameRemainder
  <2> QED
    BY <1>1, <1>3, <2>1
<1>4. ASSUME NEW a \in Nat
      PROVE  Slot(a % Byte) = Slot(a) /\ a % Byte \in Nat
  <2>1. PICK m \in Nat \ {0} : Byte = Backup * m
    BY DEF Sane
  <2>2. (a % (Backup * m)) % Backup = a % Backup
    BY <1>1, RemainderOfRemainder
  <2>3. Backup * m \in Nat \ {0}
    BY <1>1
  <2>4. a % (Backup * m) \in Nat
    <3>1. PICK b \in Nat \ {0} : b = Backup * m
      BY <2>3
    <3>2. a % b \in 0..(b - 1)
      BY Remainder
    <3> QED
      BY <3>1, <3>2
  <2> QED
    BY <2>1, <2>2, <2>4 DEF Slot
<1> QED
  BY <1>2, <1>3, <1>4

-----------------------------------------------------------------------------
(***************************************************************************)
(* What an update does to a frame.                                         *)
(***************************************************************************)
LEMMA StatesAreFields ==
    ASSUME NEW before, NEW now \in State
    PROVE  Over(Differing(before, now), before) = now
<1>1. now = [f \in Field |-> now[f]]
  BY DEF State
<1>2. /\ DOMAIN Differing(before, now) = {f \in Field : now[f] # before[f]}
      /\ \A f \in DOMAIN Differing(before, now) : Differing(before, now)[f] = now[f]
  BY DEF Differing, Restrict
<1> QED
  BY <1>1, <1>2 DEF Over

(* Made against frames that agree, an update leads to frames that agree.   *)
LEMMA AgreeOn ==
    ASSUME NEW old, NEW from, NEW to \in Frames, NEW fits, Agree(old, from)
    PROVE  Agree(Updated(old, Update(from, to, fits)), Recorded(from, to, fits))
<1> DEFINE u == Update(from, to, fits)
           has == Updated(old, u)
           kept == Recorded(from, to, fits)
<1>1. /\ DOMAIN u.changed = Written(from, to, fits)
      /\ \A e \in Written(from, to, fits) :
            u.changed[e] = Differing(StateBefore(from, e), to[e])
      /\ u.removed = DOMAIN from \ DOMAIN to
  BY DEF Update
<1>2. \A e \in DOMAIN to : to[e] \in State
  BY DEF Frames
<1>3. /\ DOMAIN old \subseteq DOMAIN from
      /\ \A e \in DOMAIN old : old[e] = from[e]
      /\ \A e \in DOMAIN old : e \in Large => Extended
      /\ \A e \in DOMAIN from \ DOMAIN old :
            from[e] = BaselineOf(e) \/ (e \in Large /\ ~Extended)
  BY DEF Agree, IsRestriction
<1>4. /\ DOMAIN has = (DOMAIN old \ (DOMAIN from \ DOMAIN to)) \union Written(from, to, fits)
      /\ \A e \in DOMAIN has : has[e] = IF e \in Written(from, to, fits)
                                        THEN Over(u.changed[e], StateBefore(old, e))
                                        ELSE old[e]
  BY <1>1 DEF Updated
<1>5. /\ DOMAIN kept = {x \in DOMAIN to : x <= fits \/ x \in DOMAIN from \union DOMAIN Baseline}
      /\ \A e \in DOMAIN kept : kept[e] = IF e <= fits THEN to[e] ELSE StateBefore(from, e)
  BY DEF Recorded
<1> HIDE DEF u, has, kept
<1>6. ASSUME NEW e \in Written(from, to, fits)
      PROVE  e \in DOMAIN kept /\ has[e] = kept[e] /\ (e \in Large => Extended)
  <2>1. e \in DOMAIN to /\ e <= fits /\ (e \in Large => Extended)
    BY <1>6 DEF Written
  <2>2. StateBefore(old, e) = StateBefore(from, e)
    BY <1>3, <2>1 DEF StateBefore
  <2>3. has[e] = to[e]
    BY <1>1, <1>2, <1>4, <1>6, <2>1, <2>2, StatesAreFields
  <2> QED
    BY <1>5, <2>1, <2>3
<1>7. ASSUME NEW e \in DOMAIN has, e \notin Written(from, to, fits)
      PROVE  e \in DOMAIN kept /\ has[e] = kept[e] /\ (e \in Large => Extended)
  <2>1. e \in DOMAIN old /\ e \in DOMAIN from /\ e \in DOMAIN to /\ has[e] = from[e]
    BY <1>3, <1>4, <1>7
  <2>2. e \in Large => Extended
    BY <1>3, <2>1
  <2>3. e <= fits => to[e] = from[e]
    BY <1>7, <2>1, <2>2 DEF Written
  <2> QED
    BY <1>5, <2>1, <2>2, <2>3 DEF StateBefore
<1>8. ASSUME NEW e \in DOMAIN kept \ DOMAIN has
      PROVE  kept[e] = BaselineOf(e) \/ (e \in Large /\ ~Extended)
  <2>1. e \in DOMAIN to /\ e \notin DOMAIN old /\ e \notin Written(from, to, fits)
    BY <1>3, <1>4, <1>5, <1>8
  <2>2. CASE e <= fits
    BY <1>3, <1>5, <1>8, <2>1, <2>2 DEF Written
  <2>3. CASE ~(e <= fits)
    BY <1>3, <1>5, <1>8, <2>1, <2>3 DEF StateBefore
  <2> QED
    BY <2>2, <2>3
<1>9. Agree(has, kept)
  BY <1>6, <1>7, <1>8 DEF Agree, IsRestriction
<1> QED
  BY <1>9 DEF has, kept, u

LEMMA PacketsAreFrames ==
    ASSUME NEW w \in Frames PROVE Pack(w) \in Frames
<1>1. PICK S \in SUBSET Entity : w \in [S -> State]
  BY DEF Frames
<1>2. PICK T : Pack(w) = Restrict(w, S \intersect T)
  BY <1>1 DEF Pack
<1>3. Pack(w) \in [S \intersect T -> State]
  BY <1>1, <1>2 DEF Restrict
<1> QED
  BY <1>3 DEF Frames

-----------------------------------------------------------------------------
(***************************************************************************)
(* The steps.                                                              *)
(***************************************************************************)
LEMMA UpdatesStart == ASSUME Sane PROVE Init => UpdatesInv
<1> SUFFICES ASSUME Init PROVE UpdatesInv
  OBVIOUS
<1>1. /\ netchan = [incoming |-> 0, outgoing |-> 0]
      /\ delta_sequence = None /\ send_message = FALSE
      /\ frames = [i \in Ring |-> NoFrame]
      /\ toServer = {} /\ toClient = {}
      /\ cl = [outgoing |-> 1, validsequence |-> 0,
               asked |-> [i \in Ring |-> None], frames |-> [i \in Ring |-> NoFrame]]
  BY DEF Init
<1>2. NoFrame.sequence = 0
  BY DEF NoFrame
<1>3. Numbers
  <2>1. cl.outgoing = 1 /\ netchan.incoming = 0 /\ netchan.outgoing = 0
    BY <1>1
  <2>2. netchan \in [incoming : Nat, outgoing : Nat]
    BY <1>1
  <2>3. send_message \in BOOLEAN /\ ~send_message /\ toServer = {}
    BY <1>1
  <2> QED
    BY <2>1, <2>2, <2>3 DEF Numbers
<1>4. Places
  BY <1>1, <1>2 DEF Places
<1>5. Asked
  BY <1>1 DEF Asked
<1>6. Answers
  BY <1>1 DEF Answers
<1>7. BothAgree
  BY <1>1, <1>2 DEF BothAgree
<1> QED
  BY <1>3, <1>4, <1>5, <1>6, <1>7 DEF UpdatesInv

LEMMA ExecuteClientMessageStep ==
    ASSUME Sane, UpdatesInv, NEW p \in toServer, ExecuteClientMessage(p)
    PROVE  UpdatesInv'
<1>0. Numbers /\ Places /\ Asked /\ Answers /\ BothAgree
  BY DEF UpdatesInv
<1>1. /\ netchan.incoming \in Nat /\ netchan.outgoing \in Nat /\ cl.outgoing \in Nat
      /\ p.sequence \in Nat /\ netchan.incoming < p.sequence /\ p.sequence < cl.outgoing
      /\ netchan.outgoing <= p.sequence
  BY <1>0 DEF Numbers
<1>2. /\ netchan' = [incoming |-> p.sequence, outgoing |-> p.sequence]
      /\ send_message' = TRUE /\ delta_sequence' = p.delta
      /\ toServer' = {q \in toServer : q.sequence > p.sequence}
      /\ UNCHANGED <<frames, view, toClient, cl>>
  <2>1. ~(p.sequence < netchan.outgoing)
    BY <1>1
  <2> QED
    BY <2>1, Zenon DEF ExecuteClientMessage
<1>3. netchan'.incoming = p.sequence /\ netchan'.outgoing = p.sequence
  BY <1>2
<1>4. Numbers'
  BY <1>0, <1>1, <1>2 DEF Numbers
<1>5. \A a \in Nat : (Sent(a) => Sent(a)') /\ (KeptByServer(a) => KeptByServer(a)')
  <2>1. Backup \in Nat
    BY DEF Sane
  <2> QED
    BY <1>1, <1>2, <1>3, <2>1 DEF Sent, KeptByServer
<1>6. \A a \in Nat : Known(a) => Known(a)'
  BY <1>2, <1>5 DEF Known, KeptByClient
<1>61. KnownNumbers \subseteq KnownNumbers'
  BY <1>6 DEF KnownNumbers
<1>7. Places'
  BY <1>0, <1>1, <1>2, <1>3 DEF Places, Sent
<1>8. \A n, delta : Asks(n, delta) /\ n \in Nat => Asks(n, delta)'
  <2> SUFFICES ASSUME NEW n \in Nat, NEW delta, Asks(n, delta)
               PROVE  Asks(n, delta)'
    OBVIOUS
  <2>1. Recent(n)' <=> Recent(n)
    BY <1>2 DEF Recent
  <2>2. ASSUME delta # None
        PROVE  \E a \in 1 .. n - 1 : /\ Known(a)' /\ n - a < Backup - 1
                                     /\ a % Byte = delta
                                     /\ Recent(n)' => cl'.asked[Slot(n)] = a
    <3>1. PICK a \in 1 .. n - 1 : /\ Known(a) /\ n - a < Backup - 1
                                  /\ a % Byte = delta
                                  /\ Recent(n) => cl.asked[Slot(n)] = a
      BY <2>2 DEF Asks
    <3> QED
      BY <1>2, <1>6, <2>1, <3>1
  <2> QED
    BY <1>2, <2>1, <2>2 DEF Asks
<1>9. Asked'
  <2>1. cl'.validsequence \in KnownNumbers' \union {0}
    BY <1>0, <1>2, <1>61 DEF Asked
  <2>2. ASSUME NEW n \in 1 .. cl.outgoing - 1, Recent(n)
        PROVE  \/ cl.asked[Slot(n)] = None
               \/ cl.asked[Slot(n)] \in KnownNumbers' /\ n - cl.asked[Slot(n)] < Backup - 1
    BY <1>0, <1>61, <2>2 DEF Asked
  <2>3. \A n : Recent(n)' => Recent(n)
    BY <1>2 DEF Recent
  <2>4. \A q \in toServer' : Asks(q.sequence, q.delta)'
    BY <1>0, <1>2, <1>8 DEF Asked, Numbers
  <2>5. Asks(netchan.incoming, delta_sequence)'
    <3>1. Asks(p.sequence, p.delta)'
      BY <1>0, <1>1, <1>8 DEF Asked
    <3> QED
      BY <1>2, <1>3, <3>1 DEF Asks
  <2> QED
    BY <1>2, <2>1, <2>2, <2>3, <2>4, <2>5 DEF Asked
<1>10. Answers'
  <2> SUFFICES ASSUME NEW q \in toClient
               PROVE  /\ Sent(q.sequence)' /\ KeptByServer(q.sequence)'
                      /\ q.base # None => /\ q.against \in Nat /\ q.against < q.sequence
                                          /\ q.against % Byte = q.base
                                          /\ Recent(q.sequence)'
                                               => cl'.asked[Slot(q.sequence)] = q.against
                      /\ Leads(q)'
    BY <1>2 DEF Answers
  <2>1. q.sequence \in Nat
    BY <1>0 DEF Answers, Sent
  <2>2. Leads(q)'
    BY <1>0, <1>2 DEF Answers, Leads
  <2> QED
    BY <1>0, <1>2, <1>5, <2>1, <2>2 DEF Answers, Recent
<1>11. BothAgree'
  BY <1>0, <1>2 DEF BothAgree
<1> QED
  BY <1>4, <1>7, <1>9, <1>10, <1>11 DEF UpdatesInv

LEMMA ClientSendStep ==
    ASSUME Sane, UpdatesInv, ClientSend PROVE UpdatesInv'
<1> PICK n, valid, asks :
        /\ n = cl.outgoing
        /\ valid = IF n - cl.validsequence >= Backup - 1 THEN 0 ELSE cl.validsequence
        /\ asks = IF valid = 0 THEN None ELSE valid
  OBVIOUS
<1>0. Numbers /\ Places /\ Asked /\ Answers /\ BothAgree
  BY DEF UpdatesInv
<1>1. /\ cl' = [cl EXCEPT !.outgoing = n + 1, !.validsequence = valid,
                          !.asked[Slot(n)] = asks]
      /\ toServer' = toServer \union
             {[sequence |-> n, delta |-> IF valid = 0 THEN None ELSE valid % Byte]}
      /\ UNCHANGED <<netchan, delta_sequence, send_message, frames, view, toClient>>
  BY Zenon DEF ClientSend, server
<1>2. /\ n \in Nat /\ n > 0 /\ netchan.incoming \in Nat /\ netchan.outgoing \in Nat
      /\ netchan.incoming < n /\ netchan.outgoing <= n
      /\ Slot(n) \in Ring
  BY <1>0, SlotsApart DEF Numbers
<1>3. /\ cl'.outgoing = n + 1 /\ cl'.validsequence = valid
      /\ cl'.frames = cl.frames
      /\ cl'.asked = [cl.asked EXCEPT ![Slot(n)] = asks]
      /\ DOMAIN cl' = {"outgoing", "validsequence", "asked", "frames"}
      /\ DOMAIN cl'.asked = Ring
  BY <1>0, <1>1 DEF Places
<1>4. valid = 0 \/ (Known(valid) /\ valid \in Nat /\ valid < n /\ n - valid < Backup - 1)
  <2> SUFFICES ASSUME valid # 0
               PROVE  Known(valid) /\ valid \in Nat /\ valid < n /\ n - valid < Backup - 1
    OBVIOUS
  <2>1. valid = cl.validsequence /\ ~(n - cl.validsequence >= Backup - 1)
    OBVIOUS
  <2>2. Known(valid) /\ valid \in Nat /\ valid < netchan.outgoing
    BY <1>0, <2>1 DEF Asked, KnownNumbers, Known, Sent
  <2> QED
    BY <1>2, <2>1, <2>2 DEF Sane
<1>5. \A a \in Nat : Known(a) => Known(a)'
  <2> SUFFICES ASSUME NEW a \in Nat, Known(a) PROVE Known(a)'
    OBVIOUS
  <2>1. Sent(a)' /\ KeptByServer(a)' /\ \A q \in toClient' : a < q.sequence
    BY <1>1 DEF Known, Sent, KeptByServer
  <2>2. KeptByClient(a)'
    BY <1>2, <1>3 DEF Known, KeptByClient, Sane
  <2> QED
    BY <2>1, <2>2 DEF Known
<1>51. KnownNumbers \subseteq KnownNumbers'
  BY <1>5 DEF KnownNumbers
<1>6. \A k \in Nat : Recent(k)' => Recent(k)
  BY <1>2, <1>3 DEF Recent, Sane
<1>7. \A k \in Nat : k < n /\ Recent(k)' => cl'.asked[Slot(k)] = cl.asked[Slot(k)]
  <2> SUFFICES ASSUME NEW k \in Nat, k < n, Recent(k)'
               PROVE  cl'.asked[Slot(k)] = cl.asked[Slot(k)]
    OBVIOUS
  <2>1. n - k < Backup
    BY <1>2, <1>3 DEF Recent, Sane
  <2>2. Slot(k) # Slot(n) /\ Slot(k) \in Ring
    BY <1>2, <2>1, SlotsApart
  <2> QED
    BY <1>0, <1>3, <2>2 DEF Places
<1>8. cl'.asked[Slot(n)] = asks
  BY <1>0, <1>2, <1>3 DEF Places
<1>9. Numbers'
  <2>1. cl'.outgoing \in Nat /\ n < cl'.outgoing
    BY <1>2, <1>3
  <2>2. ASSUME NEW p \in toServer'
        PROVE  p.sequence \in Nat /\ netchan.incoming < p.sequence /\ p.sequence < cl'.outgoing
    <3>1. CASE p \in toServer
      BY <1>0, <1>2, <1>3, <3>1 DEF Numbers
    <3>2. CASE p.sequence = n
      BY <1>2, <1>3, <3>2
    <3> QED
      BY <1>1, <3>1, <3>2
  <2> QED
    BY <1>0, <1>1, <1>2, <2>1, <2>2 DEF Numbers
<1>10. Places'
  BY <1>0, <1>1, <1>3 DEF Places, Sent
<1>11. ASSUME NEW k \in Nat, NEW delta, k < n, Asks(k, delta)
       PROVE  Asks(k, delta)'
  <2>1. ASSUME delta # None
        PROVE  \E a \in 1 .. k - 1 : /\ Known(a)' /\ k - a < Backup - 1
                                     /\ a % Byte = delta
                                     /\ Recent(k)' => cl'.asked[Slot(k)] = a
    <3>1. PICK a \in 1 .. k - 1 : /\ Known(a) /\ k - a < Backup - 1
                                  /\ a % Byte = delta
                                  /\ Recent(k) => cl.asked[Slot(k)] = a
      BY <1>11, <2>1 DEF Asks
    <3> QED
      BY <1>5, <1>6, <1>7, <1>11, <3>1
  <2>2. delta = None /\ Recent(k)' => cl'.asked[Slot(k)] = None
    BY <1>6, <1>7, <1>11 DEF Asks
  <2> QED
    BY <2>1, <2>2 DEF Asks
<1>12. Asks(n, IF valid = 0 THEN None ELSE valid % Byte)'
  <2> DEFINE delta == IF valid = 0 THEN None ELSE valid % Byte
  <2>1. CASE valid = 0
    BY <1>8, <2>1 DEF Asks
  <2>2. CASE valid # 0
    <3>1. delta # None
      <4>1. valid % Byte \in Nat
        BY <1>4, <2>2, SlotsApart
      <4> QED
        BY <2>2, <4>1 DEF None
    <3>2. Known(valid)' /\ valid \in 1 .. n - 1
      BY <1>2, <1>4, <1>5, <2>2
    <3> QED
      BY <1>4, <1>8, <2>2, <3>1, <3>2 DEF Asks
  <2> QED
    BY <2>1, <2>2
<1>13. Asked'
  <2>1. cl'.validsequence \in KnownNumbers' \union {0}
    BY <1>3, <1>4, <1>5 DEF KnownNumbers
  <2>2. ASSUME NEW k \in 1 .. n, Recent(k)'
        PROVE  \/ cl'.asked[Slot(k)] = None
               \/ cl'.asked[Slot(k)] \in KnownNumbers' /\ k - cl'.asked[Slot(k)] < Backup - 1
    <3>1. CASE k < n
      <4>1. /\ cl'.asked[Slot(k)] = cl.asked[Slot(k)] /\ Recent(k)
            /\ k \in 1 .. cl.outgoing - 1
        BY <1>2, <1>6, <1>7, <2>2, <3>1
      <4> QED
        BY <1>0, <1>51, <4>1 DEF Asked
    <3>2. CASE k = n
      BY <1>4, <1>5, <1>8, <3>2 DEF KnownNumbers
    <3> QED
      BY <1>2, <2>2, <3>1, <3>2
  <2>3. ASSUME NEW p \in toServer' PROVE Asks(p.sequence, p.delta)'
    <3>1. CASE p \in toServer
      BY <1>0, <1>11, <3>1 DEF Asked, Numbers
    <3>2. CASE p = [sequence |-> n, delta |-> IF valid = 0 THEN None ELSE valid % Byte]
      BY <1>12, <3>2
    <3> QED
      BY <1>1, <3>1, <3>2
  <2>5. (send_message => Asks(netchan.incoming, delta_sequence))'
    <3>1. PICK k, delta : k = netchan.incoming /\ delta = delta_sequence
      OBVIOUS
    <3>2. send_message => Asks(k, delta)'
      BY <1>0, <1>2, <1>11, <3>1 DEF Asked
    <3> QED
      BY <1>1, <3>1, <3>2 DEF Asks
  <2>6. cl'.outgoing - 1 = n
    BY <1>2, <1>3
  <2> QED
    BY <2>1, <2>2, <2>3, <2>5, <2>6 DEF Asked
<1>14. Answers'
  <2> SUFFICES ASSUME NEW q \in toClient
               PROVE  /\ Sent(q.sequence)' /\ KeptByServer(q.sequence)'
                      /\ q.base # None => /\ q.against \in Nat /\ q.against < q.sequence
                                          /\ q.against % Byte = q.base
                                          /\ Recent(q.sequence)'
                                               => cl'.asked[Slot(q.sequence)] = q.against
                      /\ Leads(q)'
    BY <1>1 DEF Answers
  <2>1. q.sequence \in Nat /\ q.sequence < n /\ Sent(q.sequence) /\ KeptByServer(q.sequence)
    BY <1>0, <1>2 DEF Answers, Sent
  <2>2. Leads(q)'
    BY <1>0, <1>1 DEF Answers, Leads
  <2>3. Recent(q.sequence)' => cl'.asked[Slot(q.sequence)] = cl.asked[Slot(q.sequence)]
                               /\ Recent(q.sequence)
    BY <1>6, <1>7, <2>1
  <2>4. Sent(q.sequence)' /\ KeptByServer(q.sequence)'
    BY <1>1, <2>1 DEF Sent, KeptByServer
  <2> QED
    BY <1>0, <2>2, <2>3, <2>4 DEF Answers
<1>15. BothAgree'
  BY <1>0, <1>1, <1>3 DEF BothAgree
<1> QED
  BY <1>9, <1>10, <1>13, <1>14, <1>15 DEF UpdatesInv

LEMMA SendClientDatagramStep ==
    ASSUME Sane, UpdatesInv, NEW w \in World, NEW fits \in Entity \union {0},
           SendClientDatagram(w, fits)
    PROVE  UpdatesInv'
<1> PICK n, to, base, from, kept, against, q :
        /\ n = netchan.incoming
        /\ to = Pack(w)
        /\ base = Slot(delta_sequence)
        /\ from = IF delta_sequence = None THEN <<>>
                  ELSE IF base = Slot(n) THEN to ELSE frames[base].entities
        /\ kept = [sequence |-> netchan.outgoing, entities |-> Recorded(from, to, fits)]
        /\ against = IF delta_sequence = None THEN None ELSE frames[base].sequence
        /\ q = [sequence |-> netchan.outgoing, base |-> delta_sequence,
                against |-> against, update |-> Update(from, to, fits)]
  OBVIOUS
<1>0. Numbers /\ Places /\ Asked /\ Answers /\ BothAgree
  BY DEF UpdatesInv
<1>1. /\ send_message /\ send_message' = FALSE
      /\ frames' = [frames EXCEPT ![Slot(n)] = kept]
      /\ toClient' = toClient \union {q}
      /\ netchan' = [netchan EXCEPT !.outgoing = @ + 1]
      /\ UNCHANGED <<delta_sequence, toServer, cl>>
  BY Zenon DEF SendClientDatagram, FrameSlot
<1>2. /\ n \in Nat /\ n > 0 /\ netchan.outgoing = n /\ netchan.incoming = n
      /\ n < cl.outgoing /\ cl.outgoing \in Nat
      /\ netchan' = [incoming |-> n, outgoing |-> n + 1]
      /\ Backup \in Nat \ {0}
      /\ Slot(n) \in Ring
  <2>1. netchan \in [incoming : Nat, outgoing : Nat]
    BY <1>0 DEF Numbers
  <2>2. Backup \in Nat \ {0}
    BY DEF Sane
  <2>3. netchan.outgoing = netchan.incoming /\ netchan.incoming > 0
    BY <1>0, <1>1 DEF Numbers
  <2>4. n < cl.outgoing /\ cl.outgoing \in Nat
    BY <1>0 DEF Numbers
  <2>5. n \in Nat
    BY <2>1
  <2> QED
    BY <1>1, <2>1, <2>2, <2>3, <2>4, <2>5, SlotsApart
<1>3. /\ netchan'.incoming = n /\ netchan'.outgoing = n + 1
      /\ DOMAIN frames' = Ring
      /\ frames'[Slot(n)] = kept
      /\ \A i \in Ring : i # Slot(n) => frames'[i] = frames[i]
      /\ kept.sequence = n /\ kept.entities = Recorded(from, to, fits)
      /\ q.sequence = n /\ q.base = delta_sequence /\ q.against = against
      /\ q.update = Update(from, to, fits)
  BY <1>0, <1>1, <1>2 DEF Places
<1>4. to \in Frames
  BY PacketsAreFrames DEF Sane
(* What was sent before keeps its place. *)
<1>5. \A a \in Nat : a < n /\ n - a < Backup => Slot(a) # Slot(n) /\ Slot(a) \in Ring
  BY <1>2, SlotsApart
<1>6. \A a \in Nat : /\ Sent(a) => Sent(a)' /\ a < n
                     /\ Sent(a) /\ KeptByServer(a) => KeptByServer(a)'
  <2> SUFFICES ASSUME NEW a \in Nat, Sent(a)
               PROVE  Sent(a)' /\ a < n /\ (KeptByServer(a) => KeptByServer(a)')
    OBVIOUS
  <2>1. Sent(a)' /\ a < n
    BY <1>2, <1>3 DEF Sent
  <2> QED
    BY <1>2, <1>3, <1>5, <2>1 DEF KeptByServer
<1>7. \A a \in Nat : Known(a) => Known(a)'
  <2> SUFFICES ASSUME NEW a \in Nat, Known(a) PROVE Known(a)'
    OBVIOUS
  <2>1. Sent(a)' /\ a < n /\ KeptByServer(a)'
    BY <1>6 DEF Known
  <2> QED
    BY <1>1, <1>3, <2>1 DEF Known, KeptByClient
<1>8. KnownNumbers \subseteq KnownNumbers'
  BY <1>7 DEF KnownNumbers
<1>9. Numbers'
  <2>1. netchan' \in [incoming : Nat, outgoing : Nat]
    BY <1>2
  <2>2. send_message' \in BOOLEAN /\ ~send_message'
    BY <1>1
  <2>3. \A p \in toServer' : /\ p.sequence \in Nat /\ n < p.sequence
                             /\ p.sequence < cl'.outgoing
    BY <1>0, <1>1, <1>2 DEF Numbers
  <2> QED
    BY <1>1, <1>2, <1>3, <2>1, <2>2, <2>3 DEF Numbers
<1>10. Places'
  <2>1. ASSUME NEW i \in Ring
        PROVE  /\ frames'[i].sequence \in Nat
               /\ frames'[i].sequence = 0 \/ frames'[i].sequence < n + 1
               /\ cl.frames[i].sequence = 0 \/ cl.frames[i].sequence \in Nat \ {0}
               /\ cl.frames[i].sequence = 0 \/ cl.frames[i].sequence < n + 1
    BY <1>0, <1>2, <1>3 DEF Places, Sent
  <2> QED
    BY <1>0, <1>1, <1>2, <1>3, <2>1 DEF Places, Sent
<1>11. ASSUME NEW k \in Nat, NEW delta, Asks(k, delta)
       PROVE  Asks(k, delta)'
  <2>1. Recent(k)' <=> Recent(k)
    BY <1>1 DEF Recent
  <2>2. ASSUME delta # None
        PROVE  \E a \in 1 .. k - 1 : /\ Known(a)' /\ k - a < Backup - 1
                                     /\ a % Byte = delta
                                     /\ Recent(k)' => cl'.asked[Slot(k)] = a
    <3>1. PICK a \in 1 .. k - 1 : /\ Known(a) /\ k - a < Backup - 1
                                  /\ a % Byte = delta
                                  /\ Recent(k) => cl.asked[Slot(k)] = a
      BY <1>11, <2>2 DEF Asks
    <3> QED
      BY <1>1, <1>7, <2>1, <3>1
  <2> QED
    BY <1>1, <1>11, <2>1, <2>2 DEF Asks
<1>12. Asked'
  <2>1. cl'.validsequence \in KnownNumbers' \union {0}
    BY <1>0, <1>1, <1>8 DEF Asked
  <2>2. ASSUME NEW k \in 1 .. cl.outgoing - 1, Recent(k)
        PROVE  \/ cl.asked[Slot(k)] = None
               \/ cl.asked[Slot(k)] \in KnownNumbers' /\ k - cl.asked[Slot(k)] < Backup - 1
    BY <1>0, <1>8, <2>2 DEF Asked
  <2>3. \A k : Recent(k)' => Recent(k)
    BY <1>1 DEF Recent
  <2>4. \A p \in toServer : Asks(p.sequence, p.delta)'
    BY <1>0, <1>11 DEF Asked, Numbers
  <2> QED
    BY <1>1, <2>1, <2>2, <2>3, <2>4 DEF Asked
(* The update is made against the frame the client asked for. *)
<1>13. delta_sequence # None =>
          /\ against \in Nat /\ against < n /\ n - against < Backup - 1
          /\ against % Byte = delta_sequence
          /\ Recent(n) => cl.asked[Slot(n)] = against
          /\ base = Slot(against) /\ base \in Ring /\ base # Slot(n)
          /\ frames[base].sequence = against /\ from = frames[base].entities
  <2> SUFFICES ASSUME delta_sequence # None
               PROVE  /\ against \in Nat /\ against < n /\ n - against < Backup - 1
                      /\ against % Byte = delta_sequence
                      /\ Recent(n) => cl.asked[Slot(n)] = against
                      /\ base = Slot(against) /\ base \in Ring /\ base # Slot(n)
                      /\ frames[base].sequence = against /\ from = frames[base].entities
    OBVIOUS
  <2>1. PICK a \in 1 .. n - 1 : /\ Known(a) /\ n - a < Backup - 1
                                /\ a % Byte = delta_sequence
                                /\ Recent(n) => cl.asked[Slot(n)] = a
    BY <1>0, <1>1, <1>2 DEF Asked, Asks
  <2>2. a \in Nat /\ a < n /\ n - a < Backup
    BY <1>2, <2>1
  <2>3. base = Slot(a) /\ base # Slot(n) /\ base \in Ring
    BY <1>5, <2>1, <2>2, SlotsApart
  <2>4. frames[base].sequence = a
    BY <1>2, <2>1, <2>2, <2>3 DEF Known, KeptByServer
  <2>5. against = a /\ from = frames[base].entities
    BY <2>3, <2>4
  <2> QED
    BY <2>1, <2>2, <2>3, <2>4, <2>5
<1>14. Answers'
  <2>1. ASSUME NEW r \in toClient
        PROVE  /\ Sent(r.sequence)' /\ KeptByServer(r.sequence)'
               /\ r.base # None => /\ r.against \in Nat /\ r.against < r.sequence
                                   /\ r.against % Byte = r.base
                                   /\ Recent(r.sequence)'
                                        => cl'.asked[Slot(r.sequence)] = r.against
               /\ Leads(r)'
    <3>1. /\ r.sequence \in Nat /\ Sent(r.sequence) /\ KeptByServer(r.sequence)
          /\ r.base # None => /\ r.against \in Nat /\ r.against < r.sequence
                              /\ r.against % Byte = r.base
                              /\ Recent(r.sequence)
                                   => cl.asked[Slot(r.sequence)] = r.against
          /\ Leads(r)
      BY <1>0 DEF Answers, Sent
    <3>2. r.sequence < n
      BY <1>6, <3>1
    <3>3. \A a \in Nat : a < n /\ frames'[Slot(a)].sequence = a
                            => frames'[Slot(a)] = frames[Slot(a)]
      BY <1>3, SlotsApart
    <3>4. Leads(r)'
      <4>1. r.base # None => r.against \in Nat /\ r.against < n
        BY <1>2, <3>1, <3>2
      <4> SUFFICES ASSUME /\ frames'[Slot(r.sequence)].sequence = r.sequence
                          /\ r.base # None => frames'[Slot(r.against)].sequence = r.against
                   PROVE  \E t \in Frames, f \in Entity \union {0} :
                             /\ r.update = Update(IF r.base = None THEN <<>>
                                                  ELSE frames'[Slot(r.against)].entities, t, f)
                             /\ frames'[Slot(r.sequence)].entities
                                  = Recorded(IF r.base = None THEN <<>>
                                             ELSE frames'[Slot(r.against)].entities, t, f)
        BY Zenon DEF Leads
      <4>2. frames'[Slot(r.sequence)] = frames[Slot(r.sequence)]
        BY <3>1, <3>2, <3>3
      <4>3. r.base # None => frames'[Slot(r.against)] = frames[Slot(r.against)]
        BY <3>3, <4>1
      <4> QED
        BY <3>1, <4>2, <4>3 DEF Leads
    <3> QED
      BY <1>1, <1>6, <3>1, <3>4 DEF Recent
  <2>2. /\ Sent(n)' /\ KeptByServer(n)'
    BY <1>2, <1>3 DEF Sent, KeptByServer
  <2>3. delta_sequence # None => /\ against \in Nat /\ against < n
                                 /\ against % Byte = delta_sequence
                                 /\ Recent(n)' => cl'.asked[Slot(n)] = against
    BY <1>1, <1>13 DEF Recent
  <2>4. from = IF delta_sequence = None THEN <<>> ELSE frames'[Slot(against)].entities
    BY <1>3, <1>13
  <2>5. Leads(q)'
    <3>1. /\ q.update = Update(IF q.base = None THEN <<>>
                               ELSE frames'[Slot(q.against)].entities, to, fits)
          /\ frames'[Slot(q.sequence)].entities
               = Recorded(IF q.base = None THEN <<>>
                          ELSE frames'[Slot(q.against)].entities, to, fits)
      BY <1>3, <2>4
    <3> QED
      BY <1>4, <3>1, Zenon DEF Leads
  <2>6. /\ Sent(q.sequence)' /\ KeptByServer(q.sequence)'
        /\ q.base # None => /\ q.against \in Nat /\ q.against < q.sequence
                            /\ q.against % Byte = q.base
                            /\ Recent(q.sequence)'
                                 => cl'.asked[Slot(q.sequence)] = q.against
    BY <1>3, <2>2, <2>3 DEF Sent, KeptByServer, Recent
  <2> QED
    BY <1>1, <2>1, <2>5, <2>6 DEF Answers
<1>15. BothAgree'
  <2> SUFFICES ASSUME NEW i \in Ring, cl.frames[i].sequence # 0,
                      cl.frames[i].sequence = frames'[i].sequence
               PROVE  Agree(cl.frames[i].entities, frames'[i].entities)
    BY <1>1 DEF BothAgree
  <2>1. cl.frames[i].sequence < n
    BY <1>0, <1>2 DEF Places, Sent
  <2>2. i # Slot(n)
    BY <1>2, <1>3, <2>1
  <2> QED
    BY <1>0, <1>3, <2>2 DEF BothAgree
<1> QED
  BY <1>9, <1>10, <1>12, <1>14, <1>15 DEF UpdatesInv

LEMMA ClientReceiveStep ==
    ASSUME Sane, UpdatesInv, NEW q \in toClient, ClientReceive(q)
    PROVE  UpdatesInv'
<1> PICK n, k, old, frame :
        /\ n = q.sequence
        /\ k = Slot(n)
        /\ old = IF q.base = None THEN <<>>
                 ELSE cl.frames[Slot(cl.asked[k])].entities
        /\ frame = IF Usable(q) THEN [sequence |-> n, entities |-> Decoded(q)] ELSE NoFrame
  OBVIOUS
<1>0. Numbers /\ Places /\ Asked /\ Answers /\ BothAgree
  BY DEF UpdatesInv
<1>1. /\ cl' = IF Usable(q)
               THEN [cl EXCEPT !.validsequence = n, !.frames[k] = frame]
               ELSE [cl EXCEPT !.validsequence = 0, !.frames[k] = frame]
      /\ toClient' = {r \in toClient : r.sequence > n}
      /\ UNCHANGED <<netchan, delta_sequence, send_message, frames, toServer>>
  BY DEF ClientReceive, server
<1>2. /\ n \in Nat \ {0} /\ Sent(n) /\ KeptByServer(n) /\ n < netchan.outgoing
      /\ netchan.incoming \in Nat /\ netchan.outgoing \in Nat /\ cl.outgoing \in Nat
      /\ netchan.outgoing <= netchan.incoming + 1 /\ netchan.incoming < cl.outgoing
      /\ k \in Ring /\ Backup \in Nat \ {0}
  <2>1. n \in Nat \ {0} /\ Sent(n) /\ KeptByServer(n) /\ n < netchan.outgoing
    BY <1>0 DEF Answers, Sent
  <2>2. /\ netchan.incoming \in Nat /\ netchan.outgoing \in Nat /\ cl.outgoing \in Nat
        /\ netchan.outgoing <= netchan.incoming + 1 /\ netchan.incoming < cl.outgoing
    BY <1>0 DEF Numbers
  <2>3. Backup \in Nat \ {0}
    BY DEF Sane
  <2> QED
    BY <2>1, <2>2, <2>3, SlotsApart
<1>3. /\ cl'.outgoing = cl.outgoing /\ cl'.asked = cl.asked
      /\ cl'.frames = [cl.frames EXCEPT ![k] = frame]
      /\ cl'.validsequence = IF Usable(q) THEN n ELSE 0
      /\ DOMAIN cl' = {"outgoing", "validsequence", "asked", "frames"}
  <2>1. CASE Usable(q)
    BY <1>0, <1>1, <2>1 DEF Places
  <2>2. CASE ~Usable(q)
    BY <1>0, <1>1, <2>2 DEF Places
  <2> QED
    BY <2>1, <2>2
<1>4. /\ DOMAIN cl'.frames = Ring /\ cl'.frames[k] = frame
      /\ \A i \in Ring : i # k => cl'.frames[i] = cl.frames[i]
      /\ Usable(q) => frame.sequence = n /\ frame.entities = Decoded(q)
      /\ ~Usable(q) => frame.sequence = 0
      /\ frame.sequence = 0 \/ frame.sequence = n
  BY <1>0, <1>2, <1>3 DEF Places, NoFrame
<1>5. \A a \in Nat : /\ Sent(a)' <=> Sent(a)
                     /\ KeptByServer(a)' <=> KeptByServer(a)
                     /\ Recent(a)' <=> Recent(a)
  BY <1>1, <1>3 DEF Sent, KeptByServer, Recent
(* What the client knows keeps its place: the new number is a later one. *)
<1>6. \A a \in Nat : Known(a) => Known(a)'
  <2> SUFFICES ASSUME NEW a \in Nat, Known(a) PROVE Known(a)'
    OBVIOUS
  <2>1. a < n /\ \A r \in toClient' : a < r.sequence
    BY <1>1 DEF Known
  <2>2. ASSUME cl.outgoing - a <= Backup
        PROVE  cl'.frames[Slot(a)].sequence = a
    <3>1. n - a < Backup
      BY <1>2, <2>2
    <3>2. Slot(a) # k /\ Slot(a) \in Ring
      BY <1>2, <2>1, <3>1, SlotsApart
    <3> QED
      BY <1>4, <2>2, <3>2 DEF Known, KeptByClient
  <2> QED
    BY <1>3, <1>5, <2>1, <2>2 DEF Known, KeptByClient
<1>7. KnownNumbers \subseteq KnownNumbers'
  BY <1>6 DEF KnownNumbers
<1>8. Usable(q) => n \in KnownNumbers'
  <2> SUFFICES ASSUME Usable(q) PROVE Known(n)'
    BY <1>2 DEF KnownNumbers
  <2> QED
    BY <1>1, <1>2, <1>4, <1>5 DEF Known, KeptByClient
<1>9. Numbers'
  BY <1>0, <1>1, <1>3 DEF Numbers
<1>10. Places'
  <2>1. ASSUME NEW i \in Ring
        PROVE  /\ frames[i].sequence \in Nat
               /\ frames[i].sequence = 0 \/ frames[i].sequence < netchan.outgoing
               /\ cl'.frames[i].sequence = 0 \/ cl'.frames[i].sequence \in Nat \ {0}
               /\ cl'.frames[i].sequence = 0 \/ cl'.frames[i].sequence < netchan.outgoing
    <3>1. CASE i = k
      BY <1>0, <1>2, <1>4, <3>1 DEF Places
    <3>2. CASE i # k
      BY <1>0, <1>4, <3>2 DEF Places, Sent
    <3> QED
      BY <3>1, <3>2
  <2> QED
    BY <1>0, <1>1, <1>3, <1>4, <2>1 DEF Places, Sent
<1>11. ASSUME NEW m \in Nat, NEW delta, Asks(m, delta)
       PROVE  Asks(m, delta)'
  <2>1. ASSUME delta # None
        PROVE  \E a \in 1 .. m - 1 : /\ Known(a)' /\ m - a < Backup - 1
                                     /\ a % Byte = delta
                                     /\ Recent(m)' => cl'.asked[Slot(m)] = a
    <3>1. PICK a \in 1 .. m - 1 : /\ Known(a) /\ m - a < Backup - 1
                                  /\ a % Byte = delta
                                  /\ Recent(m) => cl.asked[Slot(m)] = a
      BY <1>11, <2>1 DEF Asks
    <3> QED
      BY <1>3, <1>5, <1>6, <3>1
  <2> QED
    BY <1>3, <1>5, <1>11, <2>1 DEF Asks
<1>12. Asked'
  <2>1. cl'.validsequence \in KnownNumbers' \union {0}
    BY <1>3, <1>8
  <2>2. ASSUME NEW m \in 1 .. cl.outgoing - 1, Recent(m)
        PROVE  \/ cl.asked[Slot(m)] = None
               \/ cl.asked[Slot(m)] \in KnownNumbers' /\ m - cl.asked[Slot(m)] < Backup - 1
    BY <1>0, <1>7, <2>2 DEF Asked
  <2>3. \A m : Recent(m)' => Recent(m)
    BY <1>3 DEF Recent
  <2>4. \A p \in toServer : Asks(p.sequence, p.delta)'
    BY <1>0, <1>11 DEF Asked, Numbers
  <2>5. (send_message => Asks(netchan.incoming, delta_sequence))'
    <3>1. PICK m, delta : m = netchan.incoming /\ delta = delta_sequence
      OBVIOUS
    <3>2. send_message => Asks(m, delta)'
      BY <1>0, <1>2, <1>11, <3>1 DEF Asked
    <3> QED
      BY <1>1, <3>1, <3>2 DEF Asks
  <2> QED
    BY <1>1, <1>3, <2>1, <2>2, <2>3, <2>4, <2>5 DEF Asked
<1>13. Answers'
  <2> SUFFICES ASSUME NEW r \in toClient
               PROVE  /\ Sent(r.sequence)' /\ KeptByServer(r.sequence)'
                      /\ r.base # None => /\ r.against \in Nat /\ r.against < r.sequence
                                          /\ r.against % Byte = r.base
                                          /\ Recent(r.sequence)'
                                               => cl'.asked[Slot(r.sequence)] = r.against
                      /\ Leads(r)'
    BY <1>1 DEF Answers
  <2>1. r.sequence \in Nat
    BY <1>0 DEF Answers, Sent
  <2>2. Leads(r)'
    BY <1>0, <1>1 DEF Answers, Leads
  <2> QED
    BY <1>0, <1>3, <1>5, <2>1, <2>2 DEF Answers
<1>14. BothAgree'
  <2> SUFFICES ASSUME NEW i \in Ring, cl'.frames[i].sequence # 0,
                      cl'.frames[i].sequence = frames[i].sequence
               PROVE  Agree(cl'.frames[i].entities, frames[i].entities)
    BY <1>1 DEF BothAgree
  <2>1. CASE i # k
    BY <1>0, <1>4, <2>1 DEF BothAgree
  <2>2. CASE i = k
    <3>1. Usable(q) /\ frames[k].sequence = n
      BY <1>4, <2>2
    <3>2. cl'.frames[k].entities = Updated(old, q.update)
      <4>1. Decoded(q) = Updated(old, q.update)
        BY Zenon DEF Decoded
      <4> QED
        BY <1>4, <3>1, <4>1
    <3>3. CASE q.base = None
      <4>1. Agree(<<>>, <<>>)
        BY DEF Agree, IsRestriction
      <4>2. PICK to \in Frames, fits \in Entity \union {0} :
               /\ q.update = Update(<<>>, to, fits)
               /\ frames[k].entities = Recorded(<<>>, to, fits)
        BY <1>0, <3>1, <3>3 DEF Answers, Leads
      <4> QED
        BY <2>2, <3>2, <3>3, <4>1, <4>2, AgreeOn
    <3>4. CASE q.base # None
      <4>1. /\ cl.asked[k] # None /\ cl.outgoing - n <= Backup
            /\ cl.outgoing - cl.asked[k] < Backup - 1
        BY <3>1, <3>4 DEF Usable
      <4>2. q.against = cl.asked[k] /\ q.against \in Nat
        BY <1>0, <3>4, <4>1 DEF Answers, Recent
      <4>3. Known(q.against)
        <5>1. n \in 1 .. cl.outgoing - 1 /\ Recent(n)
          BY <1>2, <4>1 DEF Recent
        <5> QED
          BY <1>0, <4>1, <4>2, <5>1 DEF Asked, KnownNumbers
      <4>4. /\ cl.frames[Slot(q.against)].sequence = q.against
            /\ frames[Slot(q.against)].sequence = q.against
            /\ q.against # 0 /\ Slot(q.against) \in Ring
        <5>1. cl.outgoing - q.against <= Backup /\ netchan.incoming - q.against < Backup
          BY <1>2, <4>1, <4>2
        <5> QED
          BY <4>2, <4>3, <5>1, SlotsApart DEF Known, KeptByClient, KeptByServer, Sent
      <4>5. old = cl.frames[Slot(q.against)].entities
        BY <3>4, <4>2
      <4>6. Agree(old, frames[Slot(q.against)].entities)
        BY <1>0, <4>4, <4>5 DEF BothAgree
      <4>7. PICK to \in Frames, fits \in Entity \union {0} :
               /\ q.update = Update(frames[Slot(q.against)].entities, to, fits)
               /\ frames[k].entities = Recorded(frames[Slot(q.against)].entities, to, fits)
        BY <1>0, <3>1, <3>4, <4>4 DEF Answers, Leads
      <4> QED
        BY <2>2, <3>2, <4>6, <4>7, AgreeOn
    <3> QED
      BY <3>3, <3>4
  <2> QED
    BY <2>1, <2>2
<1> QED
  BY <1>9, <1>10, <1>12, <1>13, <1>14 DEF UpdatesInv

-----------------------------------------------------------------------------
(* However packets are lost and late, the frame the client has put         *)
(* together is the one the server remembers for it, and the frame an       *)
(* update was made against is the one that was asked for: for every number *)
(* of frames kept that divides the numbers of a byte, and whatever is in   *)
(* sight.                                                                  *)
THEOREM ClientAndServerAgree ==
    ASSUME Backup \in Nat \ {0}, \E m \in Nat \ {0} : Byte = Backup * m,
           World \subseteq UNION {[S -> State] : S \in SUBSET Entity}
    PROVE  Spec => [](FramesAgree /\ BaseIsTheOneAskedFor)
<1>1. Sane
  BY DEF Sane, Frames
<1>2. Init => UpdatesInv
  BY <1>1, UpdatesStart
<1>3. UpdatesInv /\ [Next]_vars => UpdatesInv'
  <2>1. UpdatesInv /\ UNCHANGED vars => UpdatesInv'
    <3> SUFFICES ASSUME UpdatesInv, UNCHANGED vars PROVE UpdatesInv'
      OBVIOUS
    <3>1. UNCHANGED <<netchan, delta_sequence, send_message, frames, toServer, toClient, cl>>
      BY DEF vars, server
    <3>2. \A a : Known(a)' <=> Known(a)
      BY <3>1 DEF Known, Sent, KeptByServer, KeptByClient
    <3>3. KnownNumbers' = KnownNumbers
      BY <3>2 DEF KnownNumbers
    <3>4. \A n, delta : Asks(n, delta) => Asks(n, delta)'
      BY <3>1, <3>2 DEF Asks, Recent
    <3>5. (send_message => Asks(netchan.incoming, delta_sequence))'
      <4>1. PICK n, delta : n = netchan.incoming /\ delta = delta_sequence
        OBVIOUS
      <4>2. send_message => Asks(n, delta)'
        BY <3>4, <4>1 DEF UpdatesInv, Asked
      <4> QED
        BY <3>1, <4>1, <4>2 DEF Asks
    <3>6. Asked'
      BY <3>1, <3>3, <3>4, <3>5 DEF UpdatesInv, Asked, Recent
    <3>7. Numbers' /\ Places' /\ BothAgree'
      BY <3>1 DEF UpdatesInv, Numbers, Places, BothAgree, Sent
    <3>8. Answers'
      BY <3>1 DEF UpdatesInv, Answers, Sent, KeptByServer, Recent, Leads
    <3> QED
      BY <3>6, <3>7, <3>8 DEF UpdatesInv
  <2> QED
    BY <1>1, <2>1, ExecuteClientMessageStep, SendClientDatagramStep, ClientSendStep,
       ClientReceiveStep DEF Next
<1>4. UpdatesInv => FramesAgree /\ BaseIsTheOneAskedFor
  <2>1. UpdatesInv => FramesAgree
    BY DEF UpdatesInv, BothAgree, Agree, FramesAgree
  <2>2. UpdatesInv => BaseIsTheOneAskedFor
    BY DEF UpdatesInv, Answers, BaseIsTheOneAskedFor
  <2> QED
    BY <2>1, <2>2
<1> QED
  BY <1>2, <1>3, <1>4, PTL DEF Spec
=============================================================================
