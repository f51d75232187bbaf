--------------------------- MODULE ArbiterProofs ----------------------------
(***************************************************************************)
(* What holds of the APDU arbiter for every set of calls, every request    *)
(* and every limit.                                                        *)
(***************************************************************************)
EXTENDS Arbiter, SequenceTheorems, FiniteSetTheorems, WellFoundedInduction, TLAPS

(* Removing the k-th ticket shifts the later ones down by one: what        *)
(* removeTicketLocked does to the queue.                                   *)
LEMMA RemoveAtProperties ==
  ASSUME NEW S, NEW q \in Seq(S), NEW k \in 1 .. Len(q)
  PROVE  /\ RemoveAt(q, k) \in Seq(S)
         /\ Len(RemoveAt(q, k)) = Len(q) - 1
         /\ \A j \in 1 .. Len(q) - 1 :
              RemoveAt(q, k)[j] = IF j < k THEN q[j] ELSE q[j + 1]
<1> DEFINE a == SubSeq(q, 1, k - 1)
           b == SubSeq(q, k + 1, Len(q))
<1>0. Len(q) \in Nat /\ \A i \in 1 .. Len(q) : q[i] \in S
  BY LenProperties, ElementOfSeq
<1>1. /\ a \in Seq(S) /\ Len(a) = k - 1
      /\ \A j \in 1 .. k - 1 : a[j] = q[j]
  <2>1. \A i \in 1 .. k - 1 : q[i] \in S
    BY <1>0
  <2> QED BY <1>0, <2>1, SubSeqProperties
<1>2. /\ b \in Seq(S) /\ Len(b) = Len(q) - k
      /\ \A j \in 1 .. Len(q) - k : b[j] = q[k + j]
  <2>1. \A i \in k + 1 .. Len(q) : q[i] \in S
    BY <1>0
  <2> QED BY <1>0, <2>1, SubSeqProperties
<1> HIDE DEF a, b
<1>3. /\ a \o b \in Seq(S)
      /\ Len(a \o b) = Len(q) - 1
      /\ \A j \in 1 .. Len(q) - 1 :
           (a \o b)[j] = IF j <= k - 1 THEN a[j] ELSE b[j - (k - 1)]
  BY <1>0, <1>1, <1>2, ConcatProperties
<1>4. \A j \in 1 .. Len(q) - 1 : (a \o b)[j] = IF j < k THEN q[j] ELSE q[j + 1]
  <2> TAKE j \in 1 .. Len(q) - 1
  <2>1. CASE j < k
    BY <2>1, <1>0, <1>1, <1>3
  <2>2. CASE ~ (j < k)
    <3>1. (a \o b)[j] = b[j - (k - 1)]
      BY <2>2, <1>0, <1>3
    <3>2. j - (k - 1) \in 1 .. Len(q) - k /\ k + (j - (k - 1)) = j + 1
      BY <2>2, <1>0
    <3> QED BY <2>2, <3>1, <3>2, <1>2
  <2> QED BY <2>1, <2>2
<1> QED BY <1>3, <1>4 DEF RemoveAt, a, b

-----------------------------------------------------------------------------
PC == {"free", "parked", "woken", "holding"}
WatchPC == {"free", "parked", "woken"}

LEMMA NormalTicket ==
  ASSUME NEW i \in Ids, NEW r \in Requests
  PROVE  /\ NormalizeRequest(i, r) \in Ticket
         /\ NormalizeRequest(i, r).id = i
<1>1. NormalizeRequest(i, r) \in Ticket
  BY DEF Ticket
<1>2. NormalizeRequest(i, r).id = i
  BY DEF NormalizeRequest
<1> QED BY <1>1, <1>2

LEMMA TicketFields ==
  ASSUME NEW t \in Ticket
  PROVE  /\ t.id \in Ids
         /\ t.leaseType \in LeaseTypes \cup {"barrier"}
         /\ t.scope \in {"exclusive", "qmi_channel"}
<1>1. PICK i \in Ids, r \in Requests : t = NormalizeRequest(i, r)
  BY DEF Ticket
<1>2. r.leaseType \in LeaseTypes \cup {"barrier"}
  BY RequestsAssumption DEF RawRequest
<1> QED BY <1>1, <1>2 DEF NormalizeRequest, NormalScope

(* Waking the parked goroutines moves nobody else.                         *)
LEMMA SignalledPC ==
  ASSUME StateTypes
  PROVE  /\ Signalled(pc) \in [Ids -> PC]
         /\ \A i \in Ids : Signalled(pc)[i] = IF pc[i] = "parked" THEN "woken" ELSE pc[i]
         /\ Signalled(watch) \in [Watchers -> WatchPC]
         /\ \A w \in Watchers :
              Signalled(watch)[w] = IF watch[w] = "parked" THEN "woken" ELSE watch[w]
BY DEF StateTypes, Signalled, PC, WatchPC

LEMMA GrantType ==
  ASSUME StateTypes, NEW q \in Seq(Ticket), NEW k \in 1 .. Len(q), Grant(q, k)
  PROVE  StateTypes'
<1>1. RemoveAt(q, k) \in Seq(Ticket)
  BY RemoveAtProperties
<1>2. q[k] \in Ticket /\ q[k].id \in Ids
  BY ElementOfSeq, TicketFields
<1>3. pc' \in [Ids -> PC]
  BY <1>2, SignalledPC DEF Grant, PC
<1>4. watch' \in [Watchers -> WatchPC]
  BY SignalledPC DEF Grant
<1> QED BY <1>1, <1>2, <1>3, <1>4 DEF Grant, StateTypes, PC, WatchPC

LEMMA TypeStep == StateTypes /\ [Next]_vars => StateTypes'
<1> SUFFICES ASSUME StateTypes, [Next]_vars PROVE StateTypes'
  OBVIOUS
<1>0. /\ DOMAIN queue = 1 .. Len(queue)
      /\ \A k \in DOMAIN queue : queue[k] \in Ticket /\ queue[k].id \in Ids
  BY LenProperties, ElementOfSeq, TicketFields DEF StateTypes
<1>00. \A t \in active \cup activeBarriers : t.id \in Ids
  BY TicketFields DEF StateTypes
<1>1. ASSUME NEW i \in Ids, NEW r \in Requests, Submit(i, r)
      PROVE  StateTypes'
  <2> DEFINE q == Append(queue, NormalizeRequest(i, r))
  <2>1. q \in Seq(Ticket) /\ Len(q) \in 1 .. Len(q)
    BY NormalTicket, AppendProperties, LenProperties DEF StateTypes
  <2>2. CASE Grant(q, Len(q))
    BY <2>1, <2>2, GrantType
  <2>3. CASE /\ queue' = q
             /\ pc' = [Signalled(pc) EXCEPT ![i] = "parked"]
             /\ watch' = Signalled(watch)
             /\ UNCHANGED <<active, activeBarriers, aged, overdue, armed, fired>>
    BY <2>1, <2>3, SignalledPC DEF StateTypes, PC, WatchPC
  <2> QED BY <1>1, <2>2, <2>3 DEF Submit
<1>2. ASSUME NEW k \in DOMAIN queue, Recheck(k)
      PROVE  StateTypes'
  <2>1. CASE Grant(queue, k)
    BY <1>0, <2>1, GrantType DEF StateTypes
  <2>2. CASE ~ CanAcquire(queue, k)
    <3>1. pc' = [pc EXCEPT ![queue[k].id] = "parked"]
      BY <1>2, <2>2 DEF Recheck
    <3>2. UNCHANGED <<queue, active, activeBarriers, aged, overdue, armed, fired, watch>>
      BY <1>2, <2>2 DEF Recheck
    <3> QED BY <3>1, <3>2 DEF StateTypes
  <2> QED BY <1>2, <2>1, <2>2 DEF Recheck
<1>3. ASSUME NEW k \in DOMAIN queue, Timeout(k)
      PROVE  StateTypes'
  <2>1. RemoveAt(queue, k) \in Seq(Ticket)
    BY <1>0, RemoveAtProperties DEF StateTypes
  <2> QED BY <1>3, <1>0, <2>1, SignalledPC DEF Timeout, StateTypes, PC, WatchPC
<1>4. ASSUME NEW k \in DOMAIN queue, Age(k)
      PROVE  StateTypes'
  BY <1>4, <1>0 DEF Age, StateTypes
<1>5. ASSUME NEW t \in active, Expire(t) \/ Touch(t)
      PROVE  StateTypes'
  BY <1>5, <1>00 DEF Expire, Touch, StateTypes
<1>6. ASSUME NEW i \in Ids, TimerFires(i)
      PROVE  StateTypes'
  BY <1>6 DEF TimerFires, StateTypes
<1>7. ASSUME NEW i \in Ids, ReleaseExpired(i)
      PROVE  StateTypes'
  <2>1. fired' \subseteq Ids
    BY <1>7 DEF ReleaseExpired, StateTypes
  <2>2. CASE UNCHANGED <<queue, active, activeBarriers, pc, aged, overdue, watch>>
    <3>1. armed' \subseteq Ids
      BY <1>7 DEF ReleaseExpired, RemoveActive, StateTypes
    <3> QED BY <2>1, <2>2, <3>1 DEF StateTypes
  <2>3. ASSUME NEW t \in active, RemoveActive(t), pc' = Signalled(pc)
        PROVE  StateTypes'
    BY <2>1, <2>3, SignalledPC DEF RemoveActive, StateTypes, PC, WatchPC
  <2> QED BY <1>7, <2>2, <2>3 DEF ReleaseExpired
<1>8. ASSUME NEW i \in Ids, Release(i)
      PROVE  StateTypes'
  <2>1. CASE UNCHANGED <<queue, active, activeBarriers, aged, overdue, armed, watch>>
    <3>1. pc' \in [Ids -> PC]
      BY <1>8, SignalledPC DEF Release, StateTypes, PC
    <3>2. fired' = fired
      BY <1>8 DEF Release
    <3> QED BY <2>1, <3>1, <3>2 DEF StateTypes, PC
  <2>2. ASSUME NEW t \in active, RemoveActive(t), fired' = fired,
               pc' = [Signalled(pc) EXCEPT ![i] = "free"]
        PROVE  StateTypes'
    BY <2>2, SignalledPC DEF RemoveActive, StateTypes, PC, WatchPC
  <2> QED BY <1>8, <2>1, <2>2 DEF Release
<1>9. ASSUME NEW b \in activeBarriers, ReleaseBarrier(b)
      PROVE  StateTypes'
  BY <1>9, <1>00, SignalledPC DEF ReleaseBarrier, StateTypes, PC, WatchPC
<1>10. ASSUME NEW w \in Watchers, WatchCheck(w) \/ WatchTimeout(w)
       PROVE  StateTypes'
  BY <1>10 DEF WatchCheck, WatchTimeout, StateTypes
<1>11. CASE UNCHANGED vars
  BY <1>11 DEF vars, StateTypes
<1> QED
  BY <1>1, <1>2, <1>3, <1>4, <1>5, <1>6, <1>7, <1>8, <1>9, <1>10, <1>11 DEF Next

LEMMA StateTypesHold == Spec => []StateTypes
<1>1. Init => StateTypes
  BY EmptySeq DEF Init, StateTypes
<1> QED BY <1>1, TypeStep, PTL DEF Spec

(* Normalising a request leaves nothing undefined in its ticket.           *)
LEMMA TicketsAreNormal == Ticket \subseteq WaitTicket
<1> SUFFICES ASSUME NEW i \in Ids, NEW r \in Requests
             PROVE  NormalizeRequest(i, r) \in WaitTicket
  BY DEF Ticket
<1>1. r \in RawRequest
  BY RequestsAssumption
<1>2. DefaultClass(r.leaseType) \in Classes /\ r.class \in Classes \cup {""}
  BY <1>1 DEF RawRequest, DefaultClass, Classes
<1>3. NormalScope(r) \in {"exclusive", "qmi_channel"}
  BY DEF NormalScope
<1>4. NormalBlocked(r) \in SUBSET Classes
  BY <1>1 DEF RawRequest, NormalBlocked, Classes
<1>5. r.leaseType \in LeaseTypes \cup {"barrier"} /\ r.channel \in Nat
  BY <1>1 DEF RawRequest
<1> QED BY <1>2, <1>3, <1>4, <1>5 DEF NormalizeRequest, WaitTicket

(* Every state of the arbiter is of its types.                             *)
THEOREM TypeCorrect == Spec => []TypeOK
<1>1. StateTypes => TypeOK
  BY TicketsAreNormal, ElementOfSeq DEF StateTypes, TypeOK
<1> QED BY <1>1, StateTypesHold, PTL

-----------------------------------------------------------------------------
(* The tickets that stay when the k-th one is removed.                     *)
LEMMA RemovedTickets ==
  ASSUME NEW q \in Seq(Ticket), NEW k \in 1 .. Len(q), DistinctTickets(q)
  PROVE  /\ RemoveAt(q, k) \in Seq(Ticket)
         /\ DistinctTickets(RemoveAt(q, k))
         /\ \A j \in 1 .. Len(RemoveAt(q, k)) :
              \E m \in 1 .. Len(q) : m # k /\ RemoveAt(q, k)[j] = q[m]
         /\ \A m \in 1 .. Len(q) : m # k =>
              \E j \in 1 .. Len(RemoveAt(q, k)) : RemoveAt(q, k)[j] = q[m]
<1> DEFINE r == RemoveAt(q, k)
           Shift(j) == IF j < k THEN j ELSE j + 1
<1>0. Len(q) \in Nat
  BY LenProperties
<1>1. /\ r \in Seq(Ticket) /\ Len(r) = Len(q) - 1
      /\ \A j \in 1 .. Len(q) - 1 : r[j] = IF j < k THEN q[j] ELSE q[j + 1]
  BY RemoveAtProperties
<1> HIDE DEF r
<1>2. \A j \in 1 .. Len(r) :
        Shift(j) \in 1 .. Len(q) /\ Shift(j) # k /\ r[j] = q[Shift(j)]
  BY <1>0, <1>1
<1>3. DistinctTickets(r)
  <2> SUFFICES ASSUME NEW j \in 1 .. Len(r), NEW m \in 1 .. Len(r), r[j].id = r[m].id
               PROVE  j = m
    BY DEF DistinctTickets
  <2>1. Shift(j) = Shift(m)
    BY <1>2 DEF DistinctTickets
  <2> QED BY <1>0, <1>1, <2>1
<1>4. \A j \in 1 .. Len(r) : \E m \in 1 .. Len(q) : m # k /\ r[j] = q[m]
  BY <1>2
<1>5. ASSUME NEW m \in 1 .. Len(q), m # k
      PROVE  \E j \in 1 .. Len(r) : r[j] = q[m]
  <2>1. CASE m < k
    <3>1. m \in 1 .. Len(r) /\ r[m] = q[m]
      BY <1>0, <1>1, <2>1
    <3> QED BY <3>1
  <2>2. CASE m > k
    <3>1. m - 1 \in 1 .. Len(r) /\ r[m - 1] = q[m]
      BY <1>0, <1>1, <2>2
    <3> QED BY <3>1
  <2> QED BY <1>5, <2>1, <2>2
<1> QED BY <1>1, <1>3, <1>4, <1>5 DEF r

(* Granting the k-th ticket of q keeps every id in one place, when the     *)
(* others wait and the granted one holds nothing yet.                      *)
LEMMA GrantOnePlace ==
  ASSUME StateTypes, HoldersHoldOnce,
         NEW q \in Seq(Ticket), NEW k \in 1 .. Len(q), Grant(q, k),
         DistinctTickets(q),
         \A j \in 1 .. Len(q) : j # k => pc[q[j].id] \in {"parked", "woken"},
         \A i \in Ids : pc[i] \in {"parked", "woken"} =>
                           \E j \in 1 .. Len(q) : q[j].id = i,
         pc[q[k].id] # "holding"
  PROVE  OnePlace'
<1> DEFINE x == q[k]
<1>0. /\ \A j \in 1 .. Len(q) : q[j] \in Ticket /\ q[j].id \in Ids
      /\ \A t \in active \cup activeBarriers : t.id \in Ids
  BY ElementOfSeq, TicketFields DEF StateTypes
<1>1. \A i \in Ids : pc'[i] = IF i = x.id THEN "holding"
                               ELSE IF pc[i] = "parked" THEN "woken" ELSE pc[i]
  BY <1>0, SignalledPC DEF Grant
<1>2. WaitersAreQueued'
  <2>1. queue' = RemoveAt(q, k)
    BY DEF Grant
  <2>2. DistinctTickets(queue')
    BY <2>1, RemovedTickets
  <2>3. ASSUME NEW j \in 1 .. Len(queue')
        PROVE  pc'[queue'[j].id] \in {"parked", "woken"}
    <3>1. PICK m \in 1 .. Len(q) : m # k /\ queue'[j] = q[m]
      BY <2>1, RemovedTickets
    <3>2. q[m].id # x.id /\ q[m].id \in Ids /\ pc[q[m].id] \in {"parked", "woken"}
      BY <1>0, <3>1 DEF DistinctTickets
    <3> QED BY <1>1, <3>1, <3>2
  <2>4. ASSUME NEW i \in Ids, pc'[i] \in {"parked", "woken"}
        PROVE  \E j \in 1 .. Len(queue') : queue'[j].id = i
    <3>1. i # x.id /\ pc[i] \in {"parked", "woken"}
      BY <1>1, <2>4
    <3>2. PICK m \in 1 .. Len(q) : q[m].id = i
      BY <3>1
    <3>3. m # k
      BY <3>1, <3>2
    <3>4. PICK j \in 1 .. Len(RemoveAt(q, k)) : RemoveAt(q, k)[j] = q[m]
      BY <3>3, RemovedTickets
    <3> QED BY <2>1, <3>2, <3>4
  <2> QED BY <2>2, <2>3, <2>4 DEF WaitersAreQueued, DistinctTickets, Waiting
<1>3. HoldersHoldOnce'
  <2>1. x.id \in Ids /\ (\A t \in active \cup activeBarriers : t.id # x.id)
    BY <1>0 DEF HoldersHoldOnce
  <2>2. /\ \A t \in active \cup activeBarriers : pc'[t.id] = "holding"
        /\ pc'[x.id] = "holding"
    BY <1>0, <1>1, <2>1 DEF HoldersHoldOnce
  <2>3. CASE x.leaseType = "barrier"
    <3>1. activeBarriers' = activeBarriers \cup {x} /\ UNCHANGED <<active, armed, overdue>>
      BY <2>3 DEF Grant
    <3> QED BY <2>1, <2>2, <2>3, <3>1 DEF HoldersHoldOnce
  <2>4. CASE x.leaseType # "barrier"
    <3>1. /\ active' = active \cup {x} /\ armed' = armed \cup {x.id}
          /\ UNCHANGED <<activeBarriers, overdue>>
      BY <2>4 DEF Grant
    <3> QED BY <2>1, <2>2, <2>4, <3>1 DEF HoldersHoldOnce
  <2> QED BY <2>3, <2>4
<1> QED BY <1>2, <1>3 DEF OnePlace

(* The arbiter wakes goroutines without moving any ticket, lease or barrier*)
LEMMA WakeOnePlace ==
  ASSUME StateTypes, OnePlace,
         pc' = Signalled(pc) \/ pc' = pc,
         UNCHANGED <<queue, activeBarriers>>,
         \/ UNCHANGED <<active, overdue>> /\ armed' \subseteq {t.id : t \in active}
         \/ \E t \in active : RemoveActive(t)
  PROVE  OnePlace'
<1>0. \A i \in Ids : /\ pc'[i] \in {"parked", "woken"} <=> pc[i] \in {"parked", "woken"}
                     /\ pc'[i] = "holding" <=> pc[i] = "holding"
  BY SignalledPC DEF StateTypes, PC
<1>1. WaitersAreQueued'
  <2>1. \A k \in 1 .. Len(queue) : queue[k].id \in Ids
    BY ElementOfSeq, TicketFields DEF StateTypes
  <2> QED BY <1>0, <2>1 DEF WaitersAreQueued, DistinctTickets, Waiting, OnePlace
<1>2. HoldersHoldOnce'
  <2>1. \A t \in active \cup activeBarriers : t.id \in Ids
    BY TicketFields DEF StateTypes
  <2>2. CASE UNCHANGED <<active, overdue>> /\ armed' \subseteq {t.id : t \in active}
    BY <1>0, <2>1, <2>2 DEF HoldersHoldOnce, OnePlace
  <2>3. CASE \E t \in active : RemoveActive(t)
    BY <1>0, <2>1, <2>3 DEF HoldersHoldOnce, OnePlace, RemoveActive
  <2> QED BY <2>2, <2>3
<1> QED BY <1>1, <1>2 DEF OnePlace

(* A call that holds no ticket yet brings a new id to the queue.           *)
LEMMA AppendDistinct ==
  ASSUME StateTypes, OnePlace, NEW i \in Ids, NEW r \in Requests, pc[i] = "free"
  PROVE  DistinctTickets(Append(queue, NormalizeRequest(i, r)))
<1> DEFINE t == NormalizeRequest(i, r)
           q == Append(queue, t)
<1>1. /\ q \in Seq(Ticket) /\ Len(q) = Len(queue) + 1 /\ Len(queue) \in Nat
      /\ \A j \in 1 .. Len(queue) : q[j] = queue[j]
      /\ q[Len(q)] = t /\ t.id = i
  BY NormalTicket, AppendProperties, LenProperties DEF StateTypes
<1> HIDE DEF t, q
<1>2. \A j \in 1 .. Len(queue) : queue[j].id # i
  BY DEF OnePlace, WaitersAreQueued
<1>3. ASSUME NEW j \in 1 .. Len(q), NEW k \in 1 .. Len(q), q[j].id = q[k].id
      PROVE  j = k
  <2>1. \A n \in 1 .. Len(q) : n # Len(q) => n \in 1 .. Len(queue)
    BY <1>1
  <2>2. CASE j = Len(q) \/ k = Len(q)
    BY <1>1, <1>2, <1>3, <2>1, <2>2
  <2>3. CASE j # Len(q) /\ k # Len(q)
    BY <1>1, <1>3, <2>1, <2>3 DEF OnePlace, WaitersAreQueued, DistinctTickets
  <2> QED BY <2>2, <2>3
<1> QED BY <1>3 DEF DistinctTickets, q, t

LEMMA OnePlaceStep == StateTypes /\ OnePlace /\ [Next]_vars => OnePlace'
<1> SUFFICES ASSUME StateTypes, OnePlace, [Next]_vars PROVE OnePlace'
  OBVIOUS
<1>0. /\ DOMAIN queue = 1 .. Len(queue) /\ Len(queue) \in Nat
      /\ \A k \in DOMAIN queue : queue[k] \in Ticket /\ queue[k].id \in Ids
      /\ \A t \in active \cup activeBarriers : t.id \in Ids
  BY LenProperties, ElementOfSeq, TicketFields DEF StateTypes
<1>00. armed \subseteq {t.id : t \in active} /\ overdue \subseteq {t.id : t \in active}
  BY DEF OnePlace, HoldersHoldOnce
<1>1. ASSUME NEW i \in Ids, NEW r \in Requests, Submit(i, r)
      PROVE  OnePlace'
  <2> DEFINE t == NormalizeRequest(i, r)
             q == Append(queue, t)
  <2>1. /\ q \in Seq(Ticket) /\ Len(q) = Len(queue) + 1
        /\ \A j \in 1 .. Len(queue) : q[j] = queue[j]
        /\ q[Len(q)] = t /\ t.id = i
    BY <1>0, NormalTicket, AppendProperties DEF StateTypes
  <2> HIDE DEF t, q
  <2>2. pc[i] = "free"
    BY <1>1 DEF Submit
  <2>3. \A j \in 1 .. Len(q) : j # Len(q) => j \in 1 .. Len(queue)
    BY <1>0, <2>1
  <2>5. DistinctTickets(q)
    BY <2>2, AppendDistinct DEF q, t
  <2>6. \A j \in 1 .. Len(q) : j # Len(q) => pc[q[j].id] \in {"parked", "woken"}
    BY <2>1, <2>3 DEF OnePlace, WaitersAreQueued
  <2>7. \A c \in Ids : pc[c] \in {"parked", "woken"} =>
                        \E j \in 1 .. Len(q) : q[j].id = c
    <3> SUFFICES ASSUME NEW c \in Ids, pc[c] \in {"parked", "woken"}
                 PROVE  \E j \in 1 .. Len(q) : q[j].id = c
      OBVIOUS
    <3>1. PICK j \in 1 .. Len(queue) : queue[j].id = c
      BY DEF OnePlace, WaitersAreQueued, Waiting
    <3>2. j \in 1 .. Len(q) /\ q[j].id = c
      BY <1>0, <2>1, <3>1
    <3> QED BY <3>2
  <2>8. CASE Grant(q, Len(q))
    <3>1. Len(q) \in 1 .. Len(q) /\ pc[q[Len(q)].id] # "holding"
      BY <1>0, <2>1, <2>2
    <3> QED BY <2>1, <2>5, <2>6, <2>7, <2>8, <3>1, GrantOnePlace DEF OnePlace
  <2>9. CASE /\ queue' = q
             /\ pc' = [Signalled(pc) EXCEPT ![i] = "parked"]
             /\ UNCHANGED <<active, activeBarriers, aged, overdue, armed, fired>>
    <3>1. \A c \in Ids : pc'[c] = IF c = i THEN "parked"
                                  ELSE IF pc[c] = "parked" THEN "woken" ELSE pc[c]
      BY <2>9, SignalledPC
    <3>2. \A k \in 1 .. Len(q) : q[k].id \in Ids /\ pc'[q[k].id] \in {"parked", "woken"}
      <4> SUFFICES ASSUME NEW k \in 1 .. Len(q)
                   PROVE  q[k].id \in Ids /\ pc'[q[k].id] \in {"parked", "woken"}
        OBVIOUS
      <4>1. q[k].id \in Ids
        BY <2>1, ElementOfSeq, TicketFields
      <4> QED BY <2>1, <2>6, <3>1, <4>1
    <3>3. \A c \in Ids : pc'[c] \in {"parked", "woken"} =>
                          \E j \in 1 .. Len(q) : q[j].id = c
      <4> SUFFICES ASSUME NEW c \in Ids, pc'[c] \in {"parked", "woken"}
                   PROVE  \E j \in 1 .. Len(q) : q[j].id = c
        OBVIOUS
      <4>1. CASE c = i
        <5>1. Len(q) \in 1 .. Len(q) /\ q[Len(q)].id = c
          BY <1>0, <2>1, <4>1
        <5> QED BY <5>1
      <4>2. CASE c # i
        BY <2>7, <3>1, <4>2
      <4> QED BY <4>1, <4>2
    <3>4. WaitersAreQueued'
      BY <2>5, <2>9, <3>2, <3>3 DEF WaitersAreQueued, DistinctTickets, Waiting
    <3>5. HoldersHoldOnce'
      BY <1>0, <2>2, <2>9, <3>1 DEF OnePlace, HoldersHoldOnce
    <3> QED BY <3>4, <3>5 DEF OnePlace
  <2> QED BY <1>1, <2>8, <2>9 DEF Submit, q, t
<1>2. ASSUME NEW k \in DOMAIN queue, Recheck(k)
      PROVE  OnePlace'
  <2>1. CASE Grant(queue, k)
    <3>1. pc[queue[k].id] # "holding"
      BY <1>2 DEF Recheck
    <3> QED BY <1>0, <2>1, <3>1, GrantOnePlace
            DEF StateTypes, OnePlace, WaitersAreQueued, Waiting
  <2>2. CASE /\ pc' = [pc EXCEPT ![queue[k].id] = "parked"]
             /\ UNCHANGED <<queue, active, activeBarriers, aged, overdue, armed, fired, watch>>
    <3>1. \A i \in Ids : pc'[i] = IF i = queue[k].id THEN "parked" ELSE pc[i]
      BY <2>2 DEF StateTypes
    <3>2. pc[queue[k].id] = "woken"
      BY <1>2 DEF Recheck
    <3>3. WaitersAreQueued'
      BY <1>0, <2>2, <3>1, <3>2 DEF OnePlace, WaitersAreQueued, DistinctTickets, Waiting
    <3>4. HoldersHoldOnce'
      BY <1>0, <2>2, <3>1, <3>2 DEF OnePlace, HoldersHoldOnce
    <3> QED BY <3>3, <3>4 DEF OnePlace
  <2> QED BY <1>2, <2>1, <2>2 DEF Recheck
<1>3. ASSUME NEW k \in DOMAIN queue, Timeout(k)
      PROVE  OnePlace'
  <2> DEFINE x == queue[k].id
  <2>0. /\ x \in Ids /\ pc[x] \in {"parked", "woken"}
        /\ queue' = RemoveAt(queue, k)
        /\ UNCHANGED <<active, activeBarriers, overdue, armed>>
        /\ \A i \in Ids : pc'[i] = IF i = x THEN "free"
                                   ELSE IF pc[i] = "parked" THEN "woken" ELSE pc[i]
    BY <1>0, <1>3, SignalledPC DEF Timeout
  <2>1. /\ DistinctTickets(queue')
        /\ \A j \in 1 .. Len(queue') :
             \E m \in 1 .. Len(queue) : m # k /\ queue'[j] = queue[m]
        /\ \A m \in 1 .. Len(queue) : m # k =>
             \E j \in 1 .. Len(queue') : queue'[j] = queue[m]
    <3>1. queue \in Seq(Ticket) /\ DistinctTickets(queue) /\ k \in 1 .. Len(queue)
      BY <1>0 DEF StateTypes, OnePlace, WaitersAreQueued
    <3> QED BY <2>0, <3>1, RemovedTickets
  <2>2. WaitersAreQueued'
    <3>1. ASSUME NEW j \in 1 .. Len(queue')
          PROVE  pc'[queue'[j].id] \in {"parked", "woken"}
      <4>1. PICK m \in 1 .. Len(queue) : m # k /\ queue'[j] = queue[m]
        BY <2>1
      <4>2. /\ queue[m].id # x /\ queue[m].id \in Ids
            /\ pc[queue[m].id] \in {"parked", "woken"}
        BY <1>0, <4>1 DEF OnePlace, WaitersAreQueued, DistinctTickets
      <4> QED BY <2>0, <4>1, <4>2
    <3>2. ASSUME NEW i \in Ids, pc'[i] \in {"parked", "woken"}
          PROVE  \E j \in 1 .. Len(queue') : queue'[j].id = i
      <4>1. PICK m \in 1 .. Len(queue) : queue[m].id = i
        BY <2>0, <3>2 DEF OnePlace, WaitersAreQueued, Waiting
      <4>2. m # k
        BY <2>0, <3>2, <4>1
      <4> QED BY <2>1, <4>1, <4>2
    <3> QED BY <2>1, <3>1, <3>2 DEF WaitersAreQueued, DistinctTickets, Waiting
  <2>3. HoldersHoldOnce'
    BY <1>0, <2>0 DEF OnePlace, HoldersHoldOnce
  <2> QED BY <2>2, <2>3 DEF OnePlace
<1>4. ASSUME NEW k \in DOMAIN queue, Age(k)
      PROVE  OnePlace'
  BY <1>4 DEF Age, OnePlace, WaitersAreQueued, DistinctTickets, Waiting, HoldersHoldOnce
<1>5. ASSUME NEW t \in active, Expire(t) \/ Touch(t)
      PROVE  OnePlace'
  <2>1. WaitersAreQueued'
    BY <1>5 DEF Expire, Touch, OnePlace, WaitersAreQueued, DistinctTickets, Waiting
  <2>2. HoldersHoldOnce'
    BY <1>5 DEF Expire, Touch, OnePlace, HoldersHoldOnce
  <2> QED BY <2>1, <2>2 DEF OnePlace
<1>6. ASSUME NEW i \in Ids, TimerFires(i)
      PROVE  OnePlace'
  BY <1>00, <1>6, WakeOnePlace DEF TimerFires
<1>7. ASSUME NEW i \in Ids, ReleaseExpired(i)
      PROVE  OnePlace'
  BY <1>00, <1>7, WakeOnePlace DEF ReleaseExpired, RemoveActive
<1>8. ASSUME NEW i \in Ids, Release(i)
      PROVE  OnePlace'
  <2>1. /\ pc[i] = "holding" /\ (\A b \in activeBarriers : b.id # i)
        /\ UNCHANGED <<queue, activeBarriers>>
        /\ \A t \in active' : t \in active /\ t.id # i
        /\ \A c \in overdue' \cup armed' : \E t \in active' : t.id = c
    BY <1>8, <1>00 DEF Release, RemoveActive, OnePlace, HoldersHoldOnce
  <2>2. \A c \in Ids : /\ pc'[c] = IF c = i THEN "free" ELSE pc'[c]
                       /\ c # i => (pc'[c] = "holding" <=> pc[c] = "holding")
                       /\ pc'[c] \in {"parked", "woken"} <=> pc[c] \in {"parked", "woken"}
    <3>1. CASE pc' = [pc EXCEPT ![i] = "free"]
      BY <2>1, <3>1 DEF StateTypes
    <3>2. CASE pc' = [Signalled(pc) EXCEPT ![i] = "free"]
      BY <2>1, <3>2, SignalledPC DEF StateTypes, PC
    <3> QED BY <1>8, <3>1, <3>2 DEF Release
  <2>3. WaitersAreQueued'
    BY <1>0, <2>1, <2>2 DEF OnePlace, WaitersAreQueued, DistinctTickets, Waiting
  <2>4. HoldersHoldOnce'
    BY <1>0, <2>1, <2>2 DEF OnePlace, HoldersHoldOnce
  <2> QED BY <2>3, <2>4 DEF OnePlace
<1>9. ASSUME NEW b \in activeBarriers, ReleaseBarrier(b)
      PROVE  OnePlace'
  <2>1. /\ b.id \in Ids /\ pc[b.id] = "holding"
        /\ activeBarriers' = activeBarriers \ {b}
        /\ UNCHANGED <<queue, active, overdue, armed>>
        /\ \A c \in Ids : pc'[c] = IF c = b.id THEN "free"
                                   ELSE IF pc[c] = "parked" THEN "woken" ELSE pc[c]
    BY <1>0, <1>9, SignalledPC DEF ReleaseBarrier, OnePlace, HoldersHoldOnce
  <2>2. WaitersAreQueued'
    BY <1>0, <2>1 DEF OnePlace, WaitersAreQueued, DistinctTickets, Waiting
  <2>3. \A t \in active : t.id # b.id
    BY DEF OnePlace, HoldersHoldOnce
  <2>4. HoldersHoldOnce'
    BY <1>0, <2>1, <2>3 DEF OnePlace, HoldersHoldOnce
  <2> QED BY <2>2, <2>4 DEF OnePlace
<1>10. ASSUME NEW w \in Watchers, WatchCheck(w) \/ WatchTimeout(w)
       PROVE  OnePlace'
  BY <1>10 DEF WatchCheck, WatchTimeout, OnePlace, WaitersAreQueued, DistinctTickets,
               Waiting, HoldersHoldOnce
<1>11. CASE UNCHANGED vars
  BY <1>11 DEF vars, OnePlace, WaitersAreQueued, DistinctTickets, Waiting, HoldersHoldOnce
<1> QED
  BY <1>1, <1>2, <1>3, <1>4, <1>5, <1>6, <1>7, <1>8, <1>9, <1>10, <1>11 DEF Next

(* An id is always in one place: the queue, the leases and barriers in     *)
(* force and the goroutines agree on who waits and who holds.              *)
THEOREM OnePlaceHolds == Spec => []OnePlace
<1>1. Init => OnePlace
  BY EmptySeq DEF Init, OnePlace, WaitersAreQueued, DistinctTickets, HoldersHoldOnce
<1> QED BY <1>1, StateTypesHold, OnePlaceStep, PTL DEF Spec

-----------------------------------------------------------------------------
(* The transport the scan selects can run now, and no ticket before it is  *)
(* a barrier, a legacy lease, or a transport that gates the queue.         *)
LEMMA SelectedCanRun ==
  ASSUME NEW q, NEW k, SelectedTransport(q, k)
  PROVE  /\ k \in DOMAIN q
         /\ CanAcquireTransportNow(q[k])
         /\ \A j \in 1 .. k : q[j].leaseType = "transport"
         /\ \A j \in 1 .. k - 1 : ~ Gates(q[j])
BY DEF SelectedTransport, Preferred, EligibleAged, EligibleAKA, Eligible, Scanned

LEMMA LeaseTypesOfActive ==
  ASSUME StateTypes, OnePlace
  PROVE  active = ActiveOf("session") \cup ActiveOf("oneshot") \cup ActiveOf("transport")
BY TicketFields DEF StateTypes, OnePlace, HoldersHoldOnce, ActiveOf, LeaseTypes

(* The leases in force, and the facts about them that exclusion rests on.  *)
ExclusionInv ==
  /\ IsFiniteSet(active)
  /\ LeaseExclusion
  /\ BarrierExclusion

LEMMA AtMostOneMore ==
  ASSUME NEW S, NEW x, IsFiniteSet(S)
  PROVE  /\ IsFiniteSet(S \cup {x})
         /\ Cardinality(S \cup {x}) \in Nat
         /\ Cardinality(S \cup {x}) <= Cardinality(S) + 1
<1>1. /\ IsFiniteSet(S \cup {x})
      /\ Cardinality(S \cup {x}) = IF x \in S THEN Cardinality(S) ELSE Cardinality(S) + 1
  BY FS_AddElement
<1>2. Cardinality(S) \in Nat /\ Cardinality(S \cup {x}) \in Nat
  BY <1>1, FS_CardinalityType
<1> QED BY <1>1, <1>2

LEMMA AccessCardinality ==
  ASSUME NEW S
  PROVE  Access!Cardinality(S) = Cardinality(S)
BY DEF Cardinality, Access!Cardinality

LEMMA CompatibleIff ==
  ASSUME NEW S
  PROVE  Access!Compatible(S) <=>
           /\ \A s, t \in S : s # t => Access!MayOverlap(s, t)
           /\ Cardinality(Access!Sessions(S)) <= MaxSessions
           /\ Cardinality(Access!Channels(S)) <= MaxQMITransports
<1>1. /\ Access!Cardinality(Access!Sessions(S)) = Cardinality(Access!Sessions(S))
      /\ Access!Cardinality(Access!Channels(S)) = Cardinality(Access!Channels(S))
  BY AccessCardinality
<1> QED BY <1>1 DEF Access!Compatible

LEMMA LeaseExclusionIff ==
  /\ LeaseExclusion <=> Access!Compatible(active)
  /\ LeaseExclusion' <=> Access!Compatible(active')
BY DEF LeaseExclusion, Access!LeaseExclusion, Access!Compatible, Access!Sessions,
       Access!Channels, Access!MayOverlap

(* A lease granted by canAcquireLeaseLocked is compatible with those in    *)
(* force; a barrier granted by canAcquireBarrierLocked finds none in force.*)
LEMMA GrantExclusion ==
  ASSUME StateTypes, OnePlace, ExclusionInv,
         NEW q \in Seq(Ticket), NEW k \in 1 .. Len(q), CanAcquire(q, k), Grant(q, k)
  PROVE  ExclusionInv'
<1> DEFINE x == q[k]
<1>0. x \in Ticket /\ x.scope \in {"exclusive", "qmi_channel"}
  BY ElementOfSeq, TicketFields
<1>1. CASE x.leaseType = "barrier"
  <2>1. active = {} /\ active' = active
    BY <1>1 DEF CanAcquire, Grant
  <2> QED BY <2>1, LeaseExclusionIff
          DEF ExclusionInv, BarrierExclusion, Access!BarrierExclusion
<1>2. CASE x.leaseType # "barrier"
  <2>0. /\ CanAcquireLease(q, k)
        /\ active' = active \cup {x} /\ activeBarriers' = activeBarriers
    BY <1>2 DEF CanAcquire, Grant
  <2>1. IsFiniteSet(active')
    BY <2>0, FS_AddElement DEF ExclusionInv
  <2>2. BarrierExclusion'
    BY <2>0 DEF CanAcquireLease, BlockedByActiveBarrier, ExclusionInv, BarrierExclusion,
                Access!BarrierExclusion
  <2>3. /\ Access!Sessions(active') = IF x.leaseType = "session"
             THEN ActiveOf("session") \cup {x} ELSE ActiveOf("session")
        /\ Access!Channels(active') = IF x.leaseType = "transport" /\ x.scope = "qmi_channel"
             THEN ActiveQMI \cup {x} ELSE ActiveQMI
    BY <2>0 DEF Access!Sessions, Access!Channels, ActiveOf, ActiveQMI
  <2>4. /\ IsFiniteSet(ActiveOf("session")) /\ IsFiniteSet(ActiveQMI)
        /\ Cardinality(ActiveOf("session")) \in Nat /\ Cardinality(ActiveQMI) \in Nat
        /\ Cardinality(ActiveOf("session")) <= MaxSessions
        /\ Cardinality(ActiveQMI) <= MaxQMITransports
    <3>1. ActiveOf("session") = Access!Sessions(active) /\ ActiveQMI = Access!Channels(active)
      BY DEF ActiveOf, ActiveQMI, Access!Sessions, Access!Channels
    <3>2. ActiveOf("session") \in SUBSET active /\ ActiveQMI \in SUBSET active
      BY DEF ActiveOf, ActiveQMI
    <3>3. IsFiniteSet(ActiveOf("session")) /\ IsFiniteSet(ActiveQMI)
      BY <3>2, FS_Subset DEF ExclusionInv
    <3> QED BY <3>1, <3>3, FS_CardinalityType, LeaseExclusionIff, CompatibleIff
            DEF ExclusionInv
  <2>5. CASE x.leaseType = "session"
    <3>1. /\ active = ActiveOf("session")
          /\ Cardinality(ActiveOf("session")) < MaxSessions
      BY <2>0, <2>5, LeaseTypesOfActive DEF CanAcquireLease
    <3>2. \A s, t \in active' : Access!MayOverlap(s, t)
      BY <2>0, <2>5, <3>1 DEF ActiveOf, Access!MayOverlap
    <3>3. Cardinality(Access!Sessions(active')) <= MaxSessions
      <4>1. /\ Cardinality(ActiveOf("session") \cup {x}) \in Nat
            /\ Cardinality(ActiveOf("session") \cup {x}) <= Cardinality(ActiveOf("session")) + 1
        BY <2>4, AtMostOneMore
      <4> QED BY <2>3, <2>4, <2>5, <3>1, <4>1, LimitsAssumption
    <3> QED BY <2>1, <2>2, <2>3, <2>4, <2>5, <3>2, <3>3,
            LeaseExclusionIff, CompatibleIff DEF ExclusionInv
  <2>6. CASE x.leaseType = "oneshot"
    <3>1. active' = {x}
      BY <2>0, <2>6 DEF CanAcquireLease
    <3>2. \A s, t \in active' : s = t
      BY <3>1
    <3> QED BY <2>1, <2>2, <2>3, <2>4, <2>6, <3>2,
            LeaseExclusionIff, CompatibleIff DEF ExclusionInv
  <2>7. CASE x.leaseType = "transport"
    <3>1. CanAcquireTransportNow(x) /\ active = ActiveOf("transport")
      <4>1. SelectedTransport(q, k) /\ ActiveOf("session") = {} /\ ActiveOf("oneshot") = {}
        BY <2>0, <2>7 DEF CanAcquireLease
      <4> QED BY <4>1, SelectedCanRun, LeaseTypesOfActive
    <3>2. CASE x.scope = "exclusive"
      <4>1. active' = {x}
        BY <2>0, <3>1, <3>2 DEF CanAcquireTransportNow
      <4>2. \A s, t \in active' : s = t
        BY <4>1
      <4> QED BY <2>1, <2>2, <2>3, <2>4, <2>7, <3>2, <4>2,
              LeaseExclusionIff, CompatibleIff DEF ExclusionInv
    <3>3. CASE x.scope = "qmi_channel"
      <4>1. /\ ActiveExclusive = {}
            /\ Cardinality(ActiveQMI) < MaxQMITransports
            /\ \A s \in ActiveQMI : s.channel # x.channel
        BY <3>1, <3>3 DEF CanAcquireTransportNow
      <4>2. active = ActiveQMI
        BY <3>1, <4>1 DEF ActiveExclusive, ActiveQMI
      <4>3. \A s, t \in active' : s # t => Access!MayOverlap(s, t)
        <5>1. \A s, t \in active : s # t => Access!MayOverlap(s, t)
          BY LeaseExclusionIff, CompatibleIff DEF ExclusionInv
        <5>2. \A s \in active : Access!MayOverlap(s, x) /\ Access!MayOverlap(x, s)
          BY <2>7, <3>3, <4>1, <4>2 DEF ActiveQMI, ActiveOf, Access!MayOverlap
        <5> QED BY <2>0, <5>1, <5>2
      <4>4. Cardinality(Access!Channels(active')) <= MaxQMITransports
        <5>1. /\ Cardinality(ActiveQMI \cup {x}) \in Nat
              /\ Cardinality(ActiveQMI \cup {x}) <= Cardinality(ActiveQMI) + 1
          BY <2>4, AtMostOneMore
        <5> QED BY <2>3, <2>4, <2>7, <3>3, <4>1, <5>1, LimitsAssumption
      <4> QED BY <2>1, <2>2, <2>3, <2>4, <2>7, <4>3, <4>4,
              LeaseExclusionIff, CompatibleIff DEF ExclusionInv
    <3> QED BY <1>0, <3>2, <3>3
  <2> QED BY <1>0, <1>2, <2>5, <2>6, <2>7, TicketFields DEF LeaseTypes
<1> QED BY <1>1, <1>2

(* Taking leases and barriers away disturbs neither exclusion.             *)
LEMMA FewerExclusion ==
  ASSUME ExclusionInv, active' \subseteq active, activeBarriers' \subseteq activeBarriers
  PROVE  ExclusionInv'
<1>1. IsFiniteSet(active')
  BY FS_Subset DEF ExclusionInv
<1>2. /\ Access!Sessions(active') \in SUBSET Access!Sessions(active)
      /\ Access!Channels(active') \in SUBSET Access!Channels(active)
  BY DEF Access!Sessions, Access!Channels
<1>3. /\ Access!Sessions(active) \in SUBSET active
      /\ Access!Channels(active) \in SUBSET active
  BY DEF Access!Sessions, Access!Channels
<1>4. /\ IsFiniteSet(Access!Sessions(active)) /\ IsFiniteSet(Access!Channels(active))
  BY <1>3, FS_Subset DEF ExclusionInv
<1>5. /\ Cardinality(Access!Sessions(active')) <= Cardinality(Access!Sessions(active))
      /\ Cardinality(Access!Channels(active')) <= Cardinality(Access!Channels(active))
      /\ Cardinality(Access!Sessions(active')) \in Nat
      /\ Cardinality(Access!Channels(active')) \in Nat
      /\ Cardinality(Access!Sessions(active)) \in Nat
      /\ Cardinality(Access!Channels(active)) \in Nat
  BY <1>2, <1>4, FS_Subset, FS_CardinalityType
<1>6. LeaseExclusion'
  BY <1>5, LimitsAssumption, LeaseExclusionIff, CompatibleIff DEF ExclusionInv
<1>7. BarrierExclusion'
  BY DEF ExclusionInv, BarrierExclusion, Access!BarrierExclusion
<1> QED BY <1>1, <1>6, <1>7 DEF ExclusionInv

(* What one step does to the leases and barriers in force: nothing is      *)
(* added, or one waiting ticket that can be acquired is granted.           *)
LEMMA StepGrantsOrRemoves ==
  ASSUME StateTypes, OnePlace, [Next]_vars
  PROVE  \/ active' \subseteq active /\ activeBarriers' \subseteq activeBarriers
         \/ \E q \in Seq(Ticket) : \E k \in 1 .. Len(q) :
              /\ q = queue \/ (\E t \in Ticket : q = Append(queue, t))
              /\ DistinctTickets(q) /\ CanAcquire(q, k) /\ Grant(q, k)
<1> DEFINE Shrinks == active' \subseteq active /\ activeBarriers' \subseteq activeBarriers
<1>1. ASSUME NEW i \in Ids, NEW r \in Requests, Submit(i, r), ~ Shrinks
      PROVE  \E t \in Ticket : /\ Append(queue, t) \in Seq(Ticket)
                              /\ Len(Append(queue, t)) \in 1 .. Len(Append(queue, t))
                              /\ DistinctTickets(Append(queue, t))
                              /\ CanAcquire(Append(queue, t), Len(Append(queue, t)))
                              /\ Grant(Append(queue, t), Len(Append(queue, t)))
  <2> DEFINE t == NormalizeRequest(i, r)
  <2>1. t \in Ticket
    BY NormalTicket
  <2>2. Append(queue, t) \in Seq(Ticket) /\ Len(Append(queue, t)) \in 1 .. Len(Append(queue, t))
    BY <2>1, AppendProperties, LenProperties DEF StateTypes
  <2>3. CanAcquire(Append(queue, t), Len(Append(queue, t))) /\ Grant(Append(queue, t), Len(Append(queue, t)))
    BY <1>1 DEF Submit
  <2>4. DistinctTickets(Append(queue, t))
    BY <1>1, AppendDistinct DEF Submit
  <2> QED BY <2>1, <2>2, <2>3, <2>4
<1>2. ASSUME NEW k \in DOMAIN queue, Recheck(k), ~ Shrinks
      PROVE  k \in 1 .. Len(queue) /\ DistinctTickets(queue) /\ CanAcquire(queue, k) /\ Grant(queue, k)
  BY <1>2, LenProperties DEF Recheck, StateTypes, OnePlace, WaitersAreQueued
<1>3. ASSUME NEW k \in DOMAIN queue, Timeout(k) \/ Age(k)
      PROVE  Shrinks
  BY <1>3 DEF Timeout, Age
<1>4. ASSUME NEW t \in active, Expire(t) \/ Touch(t)
      PROVE  Shrinks
  BY <1>4 DEF Expire, Touch
<1>5. ASSUME NEW i \in Ids, TimerFires(i) \/ ReleaseExpired(i) \/ Release(i)
      PROVE  Shrinks
  BY <1>5 DEF TimerFires, ReleaseExpired, Release, RemoveActive
<1>6. ASSUME NEW b \in activeBarriers, ReleaseBarrier(b)
      PROVE  Shrinks
  BY <1>6 DEF ReleaseBarrier
<1>7. ASSUME NEW w \in Watchers, WatchCheck(w) \/ WatchTimeout(w)
      PROVE  Shrinks
  BY <1>7 DEF WatchCheck, WatchTimeout
<1>8. CASE UNCHANGED vars
  BY <1>8 DEF vars
<1> QED
  <2> SUFFICES ASSUME ~ Shrinks, Next
               PROVE  \E q \in Seq(Ticket) : \E k \in 1 .. Len(q) :
                        /\ q = queue \/ (\E t \in Ticket : q = Append(queue, t))
                        /\ DistinctTickets(q) /\ CanAcquire(q, k) /\ Grant(q, k)
    BY <1>8
  <2> HIDE DEF Shrinks
  <2>1. \/ \E i \in Ids, r \in Requests : Submit(i, r)
        \/ \E k \in DOMAIN queue : Recheck(k)
    BY <1>3, <1>4, <1>5, <1>6, <1>7 DEF Next
  <2>2. CASE \E i \in Ids, r \in Requests : Submit(i, r)
    BY <2>2, <1>1
  <2>3. CASE \E k \in DOMAIN queue : Recheck(k)
    BY <2>3, <1>2 DEF StateTypes
  <2> QED BY <2>1, <2>2, <2>3

LEMMA ExclusionStep == StateTypes /\ OnePlace /\ ExclusionInv /\ [Next]_vars => ExclusionInv'
BY StepGrantsOrRemoves, GrantExclusion, FewerExclusion

LEMMA ExclusionHolds == Spec => []ExclusionInv
<1>1. Init => ExclusionInv
  <2> SUFFICES ASSUME Init PROVE ExclusionInv
    OBVIOUS
  <2>1. active = {} /\ activeBarriers = {} /\ IsFiniteSet({}) /\ Cardinality({}) = 0
    BY FS_EmptySet DEF Init
  <2>2. Access!Sessions(active) = {} /\ Access!Channels(active) = {}
    BY <2>1 DEF Access!Sessions, Access!Channels
  <2> QED BY <2>1, <2>2, LeaseExclusionIff, CompatibleIff, LimitsAssumption
          DEF ExclusionInv, BarrierExclusion, Access!BarrierExclusion
<1> QED BY <1>1, StateTypesHold, OnePlaceHolds, ExclusionStep, PTL DEF Spec

(* Exclusion of APDU exchanges: the leases in force never conflict.        *)
THEOREM LeasesExclude == Spec => []LeaseExclusion
<1>1. ExclusionInv => LeaseExclusion
  BY DEF ExclusionInv
<1> QED BY <1>1, ExclusionHolds, PTL

(* Exclusion by barriers: what an entered barrier blocks is not in flight. *)
THEOREM BarriersExclude == Spec => []BarrierExclusion
<1>1. ExclusionInv => BarrierExclusion
  BY DEF ExclusionInv
<1> QED BY <1>1, ExclusionHolds, PTL

-----------------------------------------------------------------------------
(* The decision reads the queue, the leases and barriers in force and the  *)
(* ages, and nothing else.                                                 *)
LEMMA SameDecision ==
  ASSUME NEW q, NEW k, queue' = q, UNCHANGED <<active, activeBarriers, aged>>
  PROVE  CanAcquire(queue, k)' <=> CanAcquire(q, k)
BY DEF CanAcquire, CanAcquireLease, SelectedBarrier, SelectedTransport, Preferred,
       EligibleAged, EligibleAKA, Eligible, Scanned, Gates, TransportWaitGatesQueue,
       CanAcquireTransportNow, PendingBarrierAhead, BlockedByActiveBarrier,
       ActiveOf, ActiveExclusive, ActiveQMI

(* Ages matter to transports only.                                         *)
LEMMA AgeMattersToTransports ==
  ASSUME NEW k, queue[k].leaseType # "transport",
         UNCHANGED <<queue, active, activeBarriers>>
  PROVE  CanAcquire(queue, k)' <=> CanAcquire(queue, k)
BY DEF CanAcquire, CanAcquireLease, SelectedBarrier, PendingBarrierAhead,
       BlockedByActiveBarrier, ActiveOf

(* After a signal nobody is parked on the new channel.                     *)
LEMMA NobodyParked ==
  ASSUME StateTypes, OnePlace, StateTypes', OnePlace', watch' = Signalled(watch),
         \A i \in Ids : pc'[i] # "parked"
  PROVE  NoLostWakeup'
<1>1. \A k \in DOMAIN queue' : queue'[k].id \in Ids
  <2>1. queue' \in Seq(Ticket)
    BY DEF StateTypes
  <2> QED BY <2>1, LenProperties, ElementOfSeq, TicketFields
<1>2. \A w \in Watchers : watch'[w] # "parked"
  BY SignalledPC
<1> QED BY <1>1, <1>2 DEF NoLostWakeup

LEMMA NoLostWakeupStep ==
  StateTypes /\ OnePlace /\ StateTypes' /\ OnePlace' /\ NoLostWakeup /\ [Next]_vars => NoLostWakeup'
<1> SUFFICES ASSUME StateTypes, OnePlace, StateTypes', OnePlace', NoLostWakeup, [Next]_vars
             PROVE  NoLostWakeup'
  OBVIOUS
<1>0. /\ DOMAIN queue = 1 .. Len(queue) /\ Len(queue) \in Nat
      /\ \A k \in DOMAIN queue : queue[k] \in Ticket /\ queue[k].id \in Ids
      /\ \A t \in active \cup activeBarriers : t.id \in Ids
  BY LenProperties, ElementOfSeq, TicketFields DEF StateTypes
<1>1. ASSUME NEW q \in Seq(Ticket), NEW k \in 1 .. Len(q), Grant(q, k)
      PROVE  NoLostWakeup'
  <2>1. q[k].id \in Ids
    BY ElementOfSeq, TicketFields
  <2>2. \A i \in Ids : pc'[i] # "parked"
    BY <1>1, <2>1, SignalledPC DEF Grant
  <2> QED BY <1>1, <2>2, NobodyParked DEF Grant
<1>2. ASSUME NEW k \in 1 .. Len(queue), ~ CanAcquire(queue, k)', watch' = Signalled(watch) \/ watch' = watch,
             UNCHANGED <<active, activeBarriers, aged>>, queue' = queue,
             \A j \in 1 .. Len(queue) : j # k => (pc'[queue[j].id] = "parked" => pc[queue[j].id] = "parked")
      PROVE  NoLostWakeup'
  <2>1. \A j \in DOMAIN queue : CanAcquire(queue, j)' <=> CanAcquire(queue, j)
    BY <1>2, SameDecision
  <2>2. \A w \in Watchers : watch'[w] = "parked" => ~ IsIdle'
    BY <1>2, SignalledPC DEF NoLostWakeup, IsIdle
  <2> QED BY <1>0, <1>2, <2>1, <2>2 DEF NoLostWakeup
<1>3. ASSUME NEW i \in Ids, NEW r \in Requests, Submit(i, r)
      PROVE  NoLostWakeup'
  <2> DEFINE t == NormalizeRequest(i, r)
             q == Append(queue, t)
  <2>1. /\ q \in Seq(Ticket) /\ Len(q) = Len(queue) + 1 /\ Len(q) \in 1 .. Len(q)
        /\ \A j \in 1 .. Len(queue) : q[j] = queue[j]
        /\ q[Len(q)] = t /\ t.id = i
    BY <1>0, NormalTicket, AppendProperties DEF StateTypes
  <2> HIDE DEF t, q
  <2>2. CASE Grant(q, Len(q))
    BY <1>1, <2>1, <2>2
  <2>3. CASE /\ ~ CanAcquire(q, Len(q))
             /\ queue' = q
             /\ pc' = [Signalled(pc) EXCEPT ![i] = "parked"]
             /\ watch' = Signalled(watch)
             /\ UNCHANGED <<active, activeBarriers, aged, overdue, armed, fired>>
    <3>1. \A c \in Ids : pc'[c] = "parked" => c = i
      BY <2>3, SignalledPC
    <3>2. \A w \in Watchers : watch'[w] # "parked"
      BY <2>3, SignalledPC
    <3>3. ASSUME NEW k \in DOMAIN queue', pc'[queue'[k].id] = "parked"
          PROVE  k = Len(q)
      <4>1. k \in 1 .. Len(q) /\ q[k].id \in Ids
        BY <2>1, <2>3, LenProperties, ElementOfSeq, TicketFields
      <4>2. q[k].id = q[Len(q)].id
        BY <2>1, <2>3, <3>1, <3>3, <4>1
      <4> QED BY <2>1, <2>3, <4>1, <4>2 DEF OnePlace, WaitersAreQueued, DistinctTickets
    <3>4. ASSUME NEW n, n = Len(q)
          PROVE  ~ CanAcquire(queue, n)'
      <4>1. ~ CanAcquire(q, n)
        BY <2>3, <3>4
      <4> QED BY <2>3, <4>1, SameDecision
    <3> QED BY <3>2, <3>3, <3>4 DEF NoLostWakeup
  <2> QED BY <1>3, <2>2, <2>3 DEF Submit, q, t
<1>4. ASSUME NEW k \in DOMAIN queue, Recheck(k)
      PROVE  NoLostWakeup'
  <2>1. CASE Grant(queue, k)
    BY <1>0, <1>1, <2>1 DEF StateTypes
  <2>2. CASE /\ ~ CanAcquire(queue, k)
             /\ pc' = [pc EXCEPT ![queue[k].id] = "parked"]
             /\ UNCHANGED <<queue, active, activeBarriers, aged, overdue, armed, fired, watch>>
    <3>1. ~ CanAcquire(queue, k)'
      BY <2>2, SameDecision
    <3>2. \A j \in 1 .. Len(queue) : j # k => queue[j].id # queue[k].id
      BY <1>0 DEF OnePlace, WaitersAreQueued, DistinctTickets
    <3>3. \A j \in 1 .. Len(queue) : j # k =>
            (pc'[queue[j].id] = "parked" => pc[queue[j].id] = "parked")
      BY <1>0, <2>2, <3>2 DEF StateTypes
    <3> QED BY <1>0, <1>2, <2>2, <3>1, <3>3
  <2> QED BY <1>4, <2>1, <2>2 DEF Recheck
<1>5. ASSUME NEW k \in DOMAIN queue, Timeout(k)
      PROVE  NoLostWakeup'
  <2>1. \A i \in Ids : pc'[i] # "parked"
    BY <1>0, <1>5, SignalledPC DEF Timeout
  <2> QED BY <1>5, <2>1, NobodyParked DEF Timeout
<1>6. ASSUME NEW k \in DOMAIN queue, Age(k)
      PROVE  NoLostWakeup'
  <2>1. \A j \in DOMAIN queue : queue[j].leaseType # "transport" =>
          (CanAcquire(queue, j)' <=> CanAcquire(queue, j))
    BY <1>6, AgeMattersToTransports DEF Age
  <2>2. aged' # {}
    BY <1>6 DEF Age
  <2> QED BY <1>6, <2>1, <2>2 DEF Age, NoLostWakeup, IsIdle
<1>7. ASSUME UNCHANGED <<queue, active, activeBarriers, aged, watch>>,
             \A i \in Ids : pc'[i] = "parked" => pc[i] = "parked"
      PROVE  NoLostWakeup'
  <2>1. \A j \in DOMAIN queue : CanAcquire(queue, j)' <=> CanAcquire(queue, j)
    BY <1>7, SameDecision
  <2> QED BY <1>0, <1>7, <2>1 DEF NoLostWakeup, IsIdle
<1>8. ASSUME NEW t \in active, Expire(t) \/ Touch(t)
      PROVE  NoLostWakeup'
  BY <1>7, <1>8 DEF Expire, Touch
<1>9. ASSUME NEW i \in Ids, TimerFires(i) \/ ReleaseExpired(i) \/ Release(i)
      PROVE  NoLostWakeup'
  <2>1. CASE TimerFires(i)
    BY <1>7, <2>1 DEF TimerFires
  <2>2. CASE UNCHANGED <<queue, active, activeBarriers, aged, watch>> /\ pc' \in {pc, [pc EXCEPT ![i] = "free"]}
    BY <1>7, <2>2 DEF StateTypes
  <2>3. CASE \E t \in active : RemoveActive(t) /\ pc' \in {Signalled(pc), [Signalled(pc) EXCEPT ![i] = "free"]}
    <3>1. \A c \in Ids : pc'[c] # "parked"
      BY <2>3, SignalledPC
    <3> QED BY <2>3, <3>1, NobodyParked DEF RemoveActive
  <2> QED BY <1>9, <2>1, <2>2, <2>3 DEF ReleaseExpired, Release
<1>10. ASSUME NEW b \in activeBarriers, ReleaseBarrier(b)
       PROVE  NoLostWakeup'
  <2>1. \A i \in Ids : pc'[i] # "parked"
    BY <1>0, <1>10, SignalledPC DEF ReleaseBarrier
  <2> QED BY <1>10, <2>1, NobodyParked DEF ReleaseBarrier
<1>11. ASSUME NEW w \in Watchers, WatchCheck(w) \/ WatchTimeout(w)
       PROVE  NoLostWakeup'
  <2>1. UNCHANGED <<queue, active, activeBarriers, aged, pc>>
    BY <1>11 DEF WatchCheck, WatchTimeout
  <2>2. \A j \in DOMAIN queue : CanAcquire(queue, j)' <=> CanAcquire(queue, j)
    BY <2>1, SameDecision
  <2>3. \A v \in Watchers : watch'[v] = "parked" => ~ IsIdle
    BY <1>11 DEF WatchCheck, WatchTimeout, NoLostWakeup, StateTypes
  <2> QED BY <2>1, <2>2, <2>3 DEF NoLostWakeup, IsIdle
<1>12. CASE UNCHANGED vars
  BY <1>7, <1>12 DEF vars
<1> QED
  BY <1>3, <1>4, <1>5, <1>6, <1>8, <1>9, <1>10, <1>11, <1>12 DEF Next

(* No wakeup is lost: a signal reaches every caller that it could serve,   *)
(* transports excepted while one of them has aged.                         *)
THEOREM NoWakeupIsLost == Spec => []NoLostWakeup
<1>1. Init => NoLostWakeup
  BY EmptySeq DEF Init, NoLostWakeup
<1> QED BY <1>1, StateTypesHold, OnePlaceHolds, NoLostWakeupStep, PTL DEF Spec

-----------------------------------------------------------------------------
(* With nothing in force the scheduler can always serve somebody: the head *)
(* of the queue, unless it is a transport and the scan prefers a later one.*)
Free == active = {} /\ activeBarriers = {}

LEMMA SomebodyCanAcquire ==
  ASSUME StateTypes, Free, queue # <<>>
  PROVE  \E k \in DOMAIN queue : CanAcquire(queue, k)
<1>0. /\ DOMAIN queue = 1 .. Len(queue) /\ Len(queue) \in Nat /\ 1 \in DOMAIN queue
      /\ queue[1].leaseType \in LeaseTypes \cup {"barrier"}
  <2>1. queue \in Seq(Ticket) /\ Len(queue) \in Nat /\ DOMAIN queue = 1 .. Len(queue) /\ 1 \in 1 .. Len(queue)
    BY LenProperties, EmptySeq DEF StateTypes
  <2>2. queue[1] \in Ticket
    BY <2>1, ElementOfSeq
  <2> QED BY <2>1, <2>2, TicketFields
<1>1. /\ \A type : ActiveOf(type) = {}
      /\ ActiveExclusive = {} /\ ActiveQMI = {}
      /\ \A class : ~ BlockedByActiveBarrier(class)
  BY DEF Free, ActiveOf, ActiveExclusive, ActiveQMI, BlockedByActiveBarrier
<1>2. Cardinality({}) < MaxSessions /\ Cardinality({}) < MaxQMITransports
  BY FS_EmptySet, LimitsAssumption
<1>3. ~ \E j \in 1 .. 1 - 1 : TRUE
  OBVIOUS
<1>4. \A t : CanAcquireTransportNow(t) /\ ~ Gates(t)
  BY <1>1, <1>2 DEF CanAcquireTransportNow, Gates
<1>5. CASE queue[1].leaseType = "barrier"
  BY <1>0, <1>3, <1>5 DEF Free, CanAcquire, SelectedBarrier
<1>6. CASE queue[1].leaseType = "session" \/ queue[1].leaseType = "oneshot"
  <2>1. ~ PendingBarrierAhead(queue, 1)
    BY <1>3 DEF PendingBarrierAhead
  <2>2. CanAcquireLease(queue, 1)
    BY <1>1, <1>2, <1>6, <2>1 DEF Free, CanAcquireLease
  <2> QED BY <1>0, <1>6, <2>2 DEF CanAcquire
<1>7. CASE queue[1].leaseType = "transport"
  <2>1. 1 \in Eligible(queue)
    <3>1. \A j \in 1 .. 1 : queue[j].leaseType = "transport"
      BY <1>7
    <3>2. 1 \in Scanned(queue)
      BY <1>0, <1>4, <3>1 DEF Scanned
    <3> QED BY <1>1, <1>4, <3>2 DEF Eligible
  <2>2. Preferred(queue) # {} /\ Preferred(queue) \in SUBSET Eligible(queue)
    BY <2>1 DEF Preferred, EligibleAged, EligibleAKA
  <2>3. Eligible(queue) \in SUBSET Nat /\ Eligible(queue) \in SUBSET DOMAIN queue
    BY <1>0 DEF Eligible, Scanned
  <2>4. PICK k \in Preferred(queue) : \A j \in Preferred(queue) : k <= j
    <3>1. \E k \in Preferred(queue) : \A j \in Preferred(queue) : ~ (<<j, k>> \in OpToRel(<, Nat))
      BY <2>2, <2>3, NatLessThanWellFounded, WFMin
    <3>2. \A j, k \in Nat : ~ (<<j, k>> \in OpToRel(<, Nat)) => k <= j
      BY DEF OpToRel
    <3> QED BY <2>2, <2>3, <3>1, <3>2
  <2>5. SelectedTransport(queue, k)
    BY <2>4 DEF SelectedTransport
  <2>6. k \in DOMAIN queue /\ \A j \in 1 .. k : queue[j].leaseType = "transport"
    BY <2>5, SelectedCanRun
  <2>7. k \in 1 .. k /\ \A j \in 1 .. k - 1 : j \in 1 .. k
    BY <1>0, <2>6
  <2>8. ~ PendingBarrierAhead(queue, k) /\ queue[k].leaseType = "transport"
    BY <2>6, <2>7 DEF PendingBarrierAhead
  <2>9. CanAcquireLease(queue, k)
    BY <1>1, <2>5, <2>8 DEF CanAcquireLease
  <2> QED BY <2>6, <2>8, <2>9 DEF CanAcquire
<1> QED BY <1>0, <1>5, <1>6, <1>7 DEF LeaseTypes

(* The callers never all wait on each other: when nothing is in force,     *)
(* some waiting call has been woken and will be served when it looks again.*)
(* Not so while a transport has aged, which signals nobody.                *)
NobodyStranded ==
  /\ queue # <<>> /\ Free /\ aged = {}
  => \E k \in DOMAIN queue : pc[queue[k].id] = "woken" /\ CanAcquire(queue, k)

(* For any calls, requests and limits: acquire's wait loop and             *)
(* signalLocked never leave all callers asleep behind nothing.             *)
THEOREM WaitersAreNotStranded == Spec => []NobodyStranded
<1>1. StateTypes /\ OnePlace /\ NoLostWakeup => NobodyStranded
  <2> SUFFICES ASSUME StateTypes, OnePlace, NoLostWakeup, queue # <<>>, Free, aged = {}
               PROVE  \E k \in DOMAIN queue : pc[queue[k].id] = "woken" /\ CanAcquire(queue, k)
    BY DEF NobodyStranded
  <2>1. PICK k \in DOMAIN queue : CanAcquire(queue, k)
    BY SomebodyCanAcquire
  <2>2. pc[queue[k].id] \in {"parked", "woken"}
    BY LenProperties DEF StateTypes, OnePlace, WaitersAreQueued
  <2> QED BY <2>1, <2>2 DEF NoLostWakeup
<1> QED BY <1>1, StateTypesHold, OnePlaceHolds, NoWakeupIsLost, PTL

-----------------------------------------------------------------------------
(* Nothing that can be acquired waits behind a barrier, and a transport    *)
(* that needs the card alone lets nobody pass while others transmit.       *)
LEMMA NobodyPasses ==
  ASSUME StateTypes, NEW q \in Seq(Ticket), NEW k \in 1 .. Len(q), CanAcquire(q, k)
  PROVE  /\ \A j \in 1 .. k - 1 : q[j].leaseType # "barrier"
         /\ \A j \in 1 .. k - 1 :
              ~ /\ q[j].leaseType = "transport" /\ q[j].scope = "exclusive"
                /\ ~ BlockedByActiveBarrier(q[j].class)
                /\ ActiveOf("transport") # {}
<1>0. Len(q) \in Nat
  BY LenProperties
<1>1. CASE q[k].leaseType = "barrier"
  BY <1>1 DEF CanAcquire, SelectedBarrier, ActiveOf
<1>2. CASE q[k].leaseType # "barrier"
  <2>1. CanAcquireLease(q, k)
    BY <1>2 DEF CanAcquire
  <2>2. CASE k = 1
    BY <2>2
  <2>3. CASE SelectedTransport(q, k)
    <3>1. \A j \in 1 .. k - 1 : q[j].leaseType = "transport" /\ ~ Gates(q[j])
      BY <1>0, <2>3, SelectedCanRun
    <3> QED BY <3>1 DEF Gates, CanAcquireTransportNow, TransportWaitGatesQueue
  <2> QED BY <2>1, <2>2, <2>3 DEF CanAcquireLease
<1> QED BY <1>1, <1>2

(* A waiting exclusive transport is not overtaken while others transmit.   *)
THEOREM ExclusiveIsNotOvertaken == Spec => ExclusiveNotOvertaken
<1> DEFINE Waits(j) == /\ queue[j].leaseType = "transport" /\ queue[j].scope = "exclusive"
                       /\ ~ BlockedByActiveBarrier(queue[j].class)
                       /\ ActiveOf("transport") # {}
           NotOvertaken == \A j, k \in DOMAIN queue :
                             j < k /\ Waits(j) => queue[k] \notin active' \cup activeBarriers'
<1>1. StateTypes /\ OnePlace /\ [Next]_vars => NotOvertaken
  <2> SUFFICES ASSUME StateTypes, OnePlace, [Next]_vars,
                      NEW j \in DOMAIN queue, NEW k \in DOMAIN queue, j < k, Waits(j)
               PROVE  queue[k] \notin active' \cup activeBarriers'
    OBVIOUS
  <2>0. DOMAIN queue = 1 .. Len(queue) /\ Len(queue) \in Nat /\ queue[k].id \in Ids
    BY LenProperties, ElementOfSeq, TicketFields DEF StateTypes
  <2>1. queue[k] \notin active \cup activeBarriers
    BY <2>0 DEF OnePlace, WaitersAreQueued, HoldersHoldOnce
  <2>2. CASE active' \subseteq active /\ activeBarriers' \subseteq activeBarriers
    BY <2>1, <2>2
  <2>3. ASSUME NEW q \in Seq(Ticket), NEW m \in 1 .. Len(q),
               q = queue \/ (\E t \in Ticket : q = Append(queue, t)),
               DistinctTickets(q), CanAcquire(q, m), Grant(q, m)
        PROVE  queue[k] \notin active' \cup activeBarriers'
    <3>1. Len(q) \in Nat /\ j \in 1 .. Len(q) /\ k \in 1 .. Len(q) /\ q[j] = queue[j] /\ q[k] = queue[k]
      BY <2>0, <2>3, AppendProperties, LenProperties DEF StateTypes
    <3>2. m # k
      <4>1. ~ \E n \in 1 .. m - 1 : n = j
        BY <2>3, <3>1, NobodyPasses
      <4> QED BY <2>0, <3>1, <4>1
    <3>3. q[m] # q[k]
      BY <2>3, <3>1, <3>2 DEF DistinctTickets
    <3>4. active' \subseteq active \cup {q[m]} /\ activeBarriers' \subseteq activeBarriers \cup {q[m]}
      BY <2>3 DEF Grant
    <3> QED BY <2>1, <3>1, <3>3, <3>4
  <2> QED BY <2>2, <2>3, StepGrantsOrRemoves
<1>2. NotOvertaken => \A j, k \in DOMAIN queue :
        /\ j < k
        /\ queue[j].leaseType = "transport" /\ queue[j].scope = "exclusive"
        /\ ~ BlockedByActiveBarrier(queue[j].class)
        /\ ActiveOf("transport") # {}
        => queue[k] \notin active' \cup activeBarriers'
  OBVIOUS
<1> QED BY <1>1, <1>2, StateTypesHold, OnePlaceHolds, PTL DEF Spec, ExclusiveNotOvertaken

(* The watchdog takes only leases whose deadline has passed.               *)
THEOREM ForcedReleaseOnlyWhenOverdue == Spec => ForcedOnlyWhenOverdue
<1>1. StateTypes /\ OnePlace /\ [Next]_vars =>
        \A t \in active \ active' : pc'[t.id] = "holding" => t.id \in overdue
  <2> SUFFICES ASSUME StateTypes, OnePlace, [Next]_vars,
                      NEW t \in active \ active', pc'[t.id] = "holding"
               PROVE  t.id \in overdue
    OBVIOUS
  <2>0. t.id \in Ids
    BY TicketFields DEF StateTypes
  <2>1. ASSUME NEW i \in Ids, ReleaseExpired(i)
        PROVE  t.id \in overdue
    BY <2>1 DEF ReleaseExpired, RemoveActive
  <2>2. ASSUME NEW i \in Ids, Release(i)
        PROVE  FALSE
    BY <2>0, <2>2, SignalledPC DEF Release, RemoveActive
  <2>3. ASSUME NEW q, NEW k, Grant(q, k)
        PROVE  FALSE
    BY <2>3 DEF Grant
  <2>4. ASSUME active' = active
        PROVE  FALSE
    BY <2>4
  <2>5. ASSUME NEW i \in Ids, NEW r \in Requests, Submit(i, r)
        PROVE  FALSE
    BY <2>3, <2>4, <2>5 DEF Submit
  <2>6. ASSUME NEW k \in DOMAIN queue, Recheck(k) \/ Timeout(k) \/ Age(k)
        PROVE  FALSE
    BY <2>3, <2>4, <2>6 DEF Recheck, Timeout, Age
  <2>7. ASSUME NEW s \in active, Expire(s) \/ Touch(s)
        PROVE  FALSE
    BY <2>4, <2>7 DEF Expire, Touch
  <2>8. ASSUME NEW i \in Ids, TimerFires(i)
        PROVE  FALSE
    BY <2>4, <2>8 DEF TimerFires
  <2>9. ASSUME NEW b \in activeBarriers, ReleaseBarrier(b)
        PROVE  FALSE
    BY <2>4, <2>9 DEF ReleaseBarrier
  <2>10. ASSUME NEW w \in Watchers, WatchCheck(w) \/ WatchTimeout(w)
         PROVE  FALSE
    BY <2>4, <2>10 DEF WatchCheck, WatchTimeout
  <2>11. CASE UNCHANGED vars
    BY <2>4, <2>11 DEF vars
  <2> QED
    BY <2>1, <2>2, <2>5, <2>6, <2>7, <2>8, <2>9, <2>10, <2>11 DEF Next
<1> QED BY <1>1, StateTypesHold, OnePlaceHolds, PTL DEF Spec, ForcedOnlyWhenOverdue

-----------------------------------------------------------------------------
LEMMA AccessRemoveAt ==
  ASSUME NEW q, NEW k
  PROVE  Access!RemoveAt(q, k) = RemoveAt(q, k)
BY DEF RemoveAt, Access!RemoveAt

(* A granted ticket is served in the sense of ApduAccess.                  *)
LEMMA GrantServes ==
  ASSUME StateTypes, OnePlace, ExclusionInv, ExclusionInv',
         NEW q \in Seq(Ticket), NEW k \in 1 .. Len(q), CanAcquire(q, k), Grant(q, k)
  PROVE  Access!ServeFrom(q, k)
<1>1. \A j \in 1 .. k - 1 : ~ Access!IsBarrier(q[j])
  BY NobodyPasses DEF Access!IsBarrier
<1>2. queue' = Access!RemoveAt(q, k)
  BY AccessRemoveAt DEF Grant
<1>3. CASE q[k].leaseType = "barrier"
  BY <1>1, <1>2, <1>3 DEF CanAcquire, Grant, Access!ServeFrom, Access!IsBarrier
<1>4. CASE q[k].leaseType # "barrier"
  <2>1. \A b \in activeBarriers : q[k].class \notin b.blocked
    BY <1>4 DEF CanAcquire, CanAcquireLease, BlockedByActiveBarrier
  <2>2. Access!Compatible(active')
    BY LeaseExclusionIff DEF ExclusionInv
  <2> QED BY <1>1, <1>2, <1>4, <2>1, <2>2 DEF Grant, Access!ServeFrom, Access!IsBarrier
<1> QED BY <1>3, <1>4

LEMMA StepImplementsAccess ==
  StateTypes /\ OnePlace /\ ExclusionInv /\ ExclusionInv' /\ [Next]_vars
    => [Access!AccessNext]_(Access!accessVars)
<1> SUFFICES ASSUME StateTypes, OnePlace, ExclusionInv, ExclusionInv', [Next]_vars
             PROVE  [Access!AccessNext]_(Access!accessVars)
  OBVIOUS
<1>0. DOMAIN queue = 1 .. Len(queue) /\ Len(queue) \in Nat
  BY LenProperties DEF StateTypes
<1>1. ASSUME UNCHANGED <<queue, active, activeBarriers>>
      PROVE  UNCHANGED Access!accessVars
  BY <1>1 DEF Access!accessVars
<1>2. ASSUME NEW i \in Ids, NEW r \in Requests, Submit(i, r)
      PROVE  Access!Arrive \/ Access!ArriveAndServe
  <2> DEFINE t == NormalizeRequest(i, r)
             q == Append(queue, t)
  <2>1. /\ t \in Ticket /\ q \in Seq(Ticket) /\ Len(q) = Len(queue) + 1
        /\ Len(q) \in 1 .. Len(q)
    BY <1>0, NormalTicket, AppendProperties DEF StateTypes
  <2> HIDE DEF t
  <2>2. CASE CanAcquire(q, Len(q)) /\ Grant(q, Len(q))
    <3>1. Access!ServeFrom(q, Len(queue) + 1)
      BY <2>1, <2>2, GrantServes
    <3> QED BY <2>1, <3>1 DEF Access!ArriveAndServe
  <2>3. CASE queue' = q /\ UNCHANGED <<active, activeBarriers>>
    BY <2>1, <2>3 DEF Access!Arrive
  <2> QED BY <1>2, <2>2, <2>3 DEF Submit, t
<1>3. ASSUME NEW k \in DOMAIN queue, Recheck(k)
      PROVE  Access!Serve \/ UNCHANGED Access!accessVars
  <2>1. CASE CanAcquire(queue, k) /\ Grant(queue, k)
    <3>1. Access!ServeFrom(queue, k)
      BY <1>0, <2>1, GrantServes DEF StateTypes
    <3> QED BY <3>1 DEF Access!Serve
  <2>2. CASE UNCHANGED <<queue, active, activeBarriers>>
    BY <1>1, <2>2
  <2> QED BY <1>3, <2>1, <2>2 DEF Recheck
<1>4. ASSUME NEW k \in DOMAIN queue, Timeout(k)
      PROVE  Access!GiveUp
  BY <1>4, AccessRemoveAt DEF Timeout, Access!GiveUp
<1>5. ASSUME NEW i \in Ids, ReleaseExpired(i) \/ Release(i)
      PROVE  Access!Return \/ UNCHANGED Access!accessVars
  <2>1. CASE UNCHANGED <<queue, active, activeBarriers>>
    BY <1>1, <2>1
  <2>2. CASE \E t \in active : RemoveActive(t) /\ activeBarriers' = activeBarriers
    BY <2>2 DEF RemoveActive, Access!Return
  <2> QED BY <1>5, <2>1, <2>2 DEF ReleaseExpired, Release, RemoveActive
<1>6. ASSUME NEW b \in activeBarriers, ReleaseBarrier(b)
      PROVE  Access!Leave
  BY <1>6 DEF ReleaseBarrier, Access!Leave
<1>7. ASSUME \/ \E k \in DOMAIN queue : Age(k)
             \/ \E t \in active : Expire(t) \/ Touch(t)
             \/ \E i \in Ids : TimerFires(i)
             \/ \E w \in Watchers : WatchCheck(w) \/ WatchTimeout(w)
             \/ UNCHANGED vars
      PROVE  UNCHANGED Access!accessVars
  BY <1>1, <1>7 DEF Age, Expire, Touch, TimerFires, WatchCheck, WatchTimeout, vars
<1> QED
  BY <1>2, <1>3, <1>4, <1>5, <1>6, <1>7 DEF Next, Access!AccessNext

(* The arbiter implements the promise of ApduAccess: every run of it is a  *)
(* run of the abstract specification with the same calls, leases, barriers.*)
THEOREM ArbiterImplementsAccess == Spec => ImplementsAccess
<1>1. Init => Access!AccessInit
  BY DEF Init, Access!AccessInit
<1> QED BY <1>1, StepImplementsAccess, StateTypesHold, OnePlaceHolds, ExclusionHolds, PTL
        DEF Spec, ImplementsAccess, Access!AccessSpec
=============================================================================
