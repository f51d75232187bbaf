------------------------------ MODULE Arbiter -------------------------------
(***************************************************************************)
(* The APDU arbiter of one modem (apduarbiter/arbiter.go): the queue of    *)
(* waiting calls, the leases and barriers in force, the goroutines parked  *)
(* on the broadcast channel notifyC, and the watchdog timer of each lease. *)
(*                                                                         *)
(* A ticket id stands for one call.  The code draws ids from a 64-bit      *)
(* counter; ids are only compared for equality, so the model hands an id   *)
(* out again once nothing in the program refers to it any more.            *)
(***************************************************************************)
EXTENDS Naturals, FiniteSets, SequencesExt

CONSTANTS
  Ids,               \* ticket ids
  Watchers,          \* goroutines inside WaitIdle
  Requests,          \* what callers pass in: see RawRequest
  MaxSessions,       \* Options.MaxSessions
  MaxQMITransports,  \* Options.MaxQMITransports
  Aging              \* FALSE: no call waits for transportPriorityAging

Classes == {"EUICCWrite", "EUICCRead", "USIMAKA", "SMSC", "SwitchBarrier", "Recovery"}
LeaseTypes == {"session", "oneshot", "transport"}

RawRequest ==
  [leaseType : LeaseTypes \cup {"barrier"}, class : Classes \cup {""},
   scope : {"", "exclusive", "qmi_channel"}, mode : {"QMI", "AT", "MBIM"},
   channel : Nat, blocked : SUBSET Classes]

ASSUME RequestsAssumption == Requests \subseteq RawRequest
ASSUME LimitsAssumption ==
  MaxSessions \in Nat \ {0} /\ MaxQMITransports \in Nat \ {0}
ASSUME AgingAssumption == Aging \in BOOLEAN

VARIABLES
  queue,             \* a.queue: waitTickets, oldest first
  active,            \* activeSessions, activeOneshot, activeTransports
  activeBarriers,
  pc,                \* where the goroutine of a call is
  aged,              \* waiting calls enqueued transportPriorityAging ago
  overdue,           \* ids of leases past their expiresAt
  armed,             \* ids whose AfterFunc timer is running
  fired,             \* ids whose releaseExpired callback awaits a.mu
  watch              \* where each WaitIdle goroutine is

vars == <<queue, active, activeBarriers, pc, aged, overdue, armed, fired, watch>>

-----------------------------------------------------------------------------
(* normalizeRequest, and the defaults BeginBarrier fills in.               *)

DefaultClass(leaseType) ==
  CASE leaseType = "oneshot" -> "USIMAKA"
    [] leaseType = "barrier" -> "SwitchBarrier"
    [] OTHER -> "EUICCWrite"

NormalScope(r) ==
  IF /\ r.leaseType = "transport"
     /\ r.scope = "qmi_channel" /\ r.mode = "QMI" /\ r.channel > 0
    THEN "qmi_channel" ELSE "exclusive"

NormalBlocked(r) ==
  IF r.leaseType # "barrier" THEN {}
  ELSE IF r.blocked = {} THEN {"USIMAKA", "SMSC"} ELSE r.blocked

(* Mutant: an empty class is not given its default.                        *)
NormalizeClassKept(i, r) ==
  [id |-> i, leaseType |-> r.leaseType, class |-> r.class,
   scope |-> NormalScope(r), channel |-> r.channel, blocked |-> NormalBlocked(r)]

NormalizeRequest(i, r) ==
  [id |-> i, leaseType |-> r.leaseType,
   class |-> IF r.class = "" THEN DefaultClass(r.leaseType) ELSE r.class,
   scope |-> NormalScope(r), channel |-> r.channel, blocked |-> NormalBlocked(r)]

(* The waitTickets that can be in the program: id and normalised request.  *)
Ticket == {NormalizeRequest(i, r) : i \in Ids, r \in Requests}

-----------------------------------------------------------------------------
(* The predicates evaluated with a.mu held.  q is the queue as it stands   *)
(* inside the critical section.                                            *)

ActiveOf(leaseType) == {t \in active : t.leaseType = leaseType}
ActiveExclusive == {t \in ActiveOf("transport") : t.scope # "qmi_channel"}
ActiveQMI == {t \in ActiveOf("transport") : t.scope = "qmi_channel"}

BlockedByActiveBarrier(class) == \E b \in activeBarriers : class \in b.blocked

PendingBarrierAhead(q, k) ==
  \E j \in 1 .. k - 1 : q[j].leaseType = "barrier" /\ q[k].class \in q[j].blocked

CanAcquireTransportNow(t) ==
  IF t.scope # "qmi_channel"
    THEN ActiveOf("transport") = {}
    ELSE /\ ActiveExclusive = {}
         /\ Cardinality(ActiveQMI) < MaxQMITransports
         /\ \A s \in ActiveQMI : s.channel # t.channel

(* Mutant: an exclusive transport that waits does not hold others back.    *)
OnlyChannelsGate(t) ==
  /\ t.scope = "qmi_channel"
  /\ ActiveExclusive # {} \/ Cardinality(ActiveQMI) >= MaxQMITransports

TransportWaitGatesQueue(t) ==
  \/ t.scope # "qmi_channel"
  \/ ActiveExclusive # {}
  \/ Cardinality(ActiveQMI) >= MaxQMITransports

(* Mutant: the scan for a transport passes over waiting barriers.          *)
ScannedPastBarriers(q) ==
  {k \in DOMAIN q : q[k].leaseType = "transport"}

(* selectedTransportLocked scans the queue up to the first barrier or      *)
(* legacy call, or up to a transport that cannot run and gates the rest.   *)
Gates(t) ==
  /\ ~ BlockedByActiveBarrier(t.class)
  /\ ~ CanAcquireTransportNow(t)
  /\ TransportWaitGatesQueue(t)

Scanned(q) ==
  {k \in DOMAIN q : /\ \A j \in 1 .. k : q[j].leaseType = "transport"
                    /\ \A j \in 1 .. k - 1 : ~ Gates(q[j])}

Eligible(q) ==
  {k \in Scanned(q) : /\ ~ BlockedByActiveBarrier(q[k].class)
                      /\ CanAcquireTransportNow(q[k])}

EligibleAKA(q) == {k \in Eligible(q) : q[k].class = "USIMAKA"}
EligibleAged(q) == {k \in Eligible(q) \ EligibleAKA(q) : q[k].id \in aged}

(* Aged calls of other classes first, then AKA, then arrival order.        *)
Preferred(q) ==
  IF EligibleAged(q) # {} THEN EligibleAged(q)
  ELSE IF EligibleAKA(q) # {} THEN EligibleAKA(q) ELSE Eligible(q)

SelectedTransport(q, k) == k \in Preferred(q) /\ \A j \in Preferred(q) : k <= j

SelectedBarrier(q, k) == \A j \in 1 .. k - 1 : q[j].leaseType # "barrier"

CanAcquireLease(q, k) ==
  /\ ~ BlockedByActiveBarrier(q[k].class)
  /\ ~ PendingBarrierAhead(q, k)
  /\ \/ /\ q[k].leaseType = "session"
        /\ k = 1 /\ ActiveOf("oneshot") = {} /\ ActiveOf("transport") = {}
        /\ Cardinality(ActiveOf("session")) < MaxSessions
     \/ q[k].leaseType = "oneshot" /\ k = 1 /\ active = {}
     \/ /\ q[k].leaseType = "transport"
        /\ ActiveOf("session") = {} /\ ActiveOf("oneshot") = {}
        /\ SelectedTransport(q, k)

CanAcquire(q, k) ==
  IF q[k].leaseType = "barrier"
    THEN active = {} /\ SelectedBarrier(q, k)
    ELSE CanAcquireLease(q, k)

IsIdle == active = {} /\ activeBarriers = {} /\ queue = <<>>

-----------------------------------------------------------------------------
Init ==
  /\ queue = <<>>
  /\ active = {} /\ activeBarriers = {}
  /\ pc = [i \in Ids |-> "free"]
  /\ aged = {} /\ overdue = {} /\ armed = {} /\ fired = {}
  /\ watch = [w \in Watchers |-> "free"]

(* signalLocked closes notifyC and makes a new one: every goroutine parked *)
(* on the old channel will run again.                                      *)
Signalled(at) == [x \in DOMAIN at |-> IF at[x] = "parked" THEN "woken" ELSE at[x]]

(* The k-th ticket of q is removed and becomes an active lease or barrier; *)
(* a lease gets its watchdog timer.                                        *)
Grant(q, k) ==
  /\ queue' = RemoveAt(q, k)
  /\ aged' = aged \ {q[k].id}
  /\ pc' = [Signalled(pc) EXCEPT ![q[k].id] = "holding"]
  /\ watch' = Signalled(watch)
  /\ IF q[k].leaseType = "barrier"
       THEN /\ activeBarriers' = activeBarriers \cup {q[k]}
            /\ UNCHANGED <<active, armed>>
       ELSE /\ active' = active \cup {q[k]}
            /\ armed' = armed \cup {q[k].id}
            /\ UNCHANGED activeBarriers
  /\ UNCHANGED <<overdue, fired>>

(* acquire and BeginBarrier up to their first park: the ticket is appended,*)
(* everyone is signalled, and the caller either is served at once or parks.*)
Submit(i, r) ==
  LET q == Append(queue, NormalizeRequest(i, r)) IN
  /\ pc[i] = "free" /\ i \notin fired
  /\ \/ /\ CanAcquire(q, Len(q))
        /\ Grant(q, Len(q))
     \/ /\ ~ CanAcquire(q, Len(q))
        /\ queue' = q
        /\ pc' = [Signalled(pc) EXCEPT ![i] = "parked"]
        /\ watch' = Signalled(watch)
        /\ UNCHANGED <<active, activeBarriers, aged, overdue, armed, fired>>

(* The caller of the k-th ticket saw notifyC closed and checks again.      *)
Recheck(k) ==
  /\ pc[queue[k].id] = "woken"
  /\ \/ CanAcquire(queue, k) /\ Grant(queue, k)
     \/ /\ ~ CanAcquire(queue, k)
        /\ pc' = [pc EXCEPT ![queue[k].id] = "parked"]
        /\ UNCHANGED <<queue, active, activeBarriers, aged, overdue, armed, fired, watch>>

(* ctx.Done: the call gives up with ErrAPDUBusy.  When the channel is      *)
(* closed too, select may still choose this branch.                        *)
Timeout(k) ==
  /\ pc[queue[k].id] \in {"parked", "woken"}
  /\ queue' = RemoveAt(queue, k)
  /\ aged' = aged \ {queue[k].id}
  /\ pc' = [Signalled(pc) EXCEPT ![queue[k].id] = "free"]
  /\ watch' = Signalled(watch)
  /\ UNCHANGED <<active, activeBarriers, overdue, armed, fired>>

(* transportPriorityAging has passed since the k-th ticket was enqueued.   *)
(* Nothing is signalled.  Only the scan for transports reads the age, and  *)
(* there of other classes than AKA; tickets age in the order they came.    *)
Ages(t) == t.leaseType = "transport" /\ t.class # "USIMAKA"

Age(k) ==
  /\ Aging
  /\ Ages(queue[k]) /\ queue[k].id \notin aged
  /\ \A j \in 1 .. k - 1 : Ages(queue[j]) => queue[j].id \in aged
  /\ aged' = aged \cup {queue[k].id}
  /\ UNCHANGED <<queue, active, activeBarriers, pc, overdue, armed, fired, watch>>

-----------------------------------------------------------------------------
(* MaxLeaseHold has passed since the lease was acquired or last touched.   *)
Expire(t) ==
  /\ t.id \notin overdue
  /\ overdue' = overdue \cup {t.id}
  /\ UNCHANGED <<queue, active, activeBarriers, pc, aged, armed, fired, watch>>

(* The runtime starts the timer's callback; it has yet to take a.mu.       *)
TimerFires(i) ==
  /\ i \in armed \cap overdue
  /\ armed' = armed \ {i}
  /\ fired' = fired \cup {i}
  /\ UNCHANGED <<queue, active, activeBarriers, pc, aged, overdue, watch>>

Touch(t) ==
  /\ pc[t.id] = "holding"
  /\ overdue' = overdue \ {t.id}
  /\ armed' = armed \cup {t.id}
  /\ UNCHANGED <<queue, active, activeBarriers, pc, aged, fired, watch>>

(* The part of release and releaseExpired that takes the lease away.       *)
RemoveActive(t) ==
  /\ active' = active \ {t}
  /\ overdue' = overdue \ {t.id}
  /\ armed' = armed \ {t.id}
  /\ watch' = Signalled(watch)
  /\ UNCHANGED <<queue, activeBarriers, aged>>

(* Mutant: the callback takes an overdue lease for one still to wait for,  *)
(* and does not set its timer again.                                       *)
ExpireForgets(i) ==
  /\ i \in fired
  /\ fired' = fired \ {i}
  /\ UNCHANGED <<queue, active, activeBarriers, pc, aged, overdue, armed, watch>>

(* releaseExpired: no lease any more, a lease whose deadline was moved, or *)
(* a forced release.                                                       *)
ReleaseExpired(i) ==
  /\ i \in fired
  /\ fired' = fired \ {i}
  /\ \/ /\ \A t \in active : t.id # i
        /\ UNCHANGED <<queue, active, activeBarriers, pc, aged, overdue, armed, watch>>
     \/ /\ \E t \in active : t.id = i
        /\ i \notin overdue
        /\ armed' = armed \cup {i}
        /\ UNCHANGED <<queue, active, activeBarriers, pc, aged, overdue, watch>>
     \/ \E t \in active :
          /\ t.id = i /\ i \in overdue
          /\ RemoveActive(t)
          /\ pc' = Signalled(pc)

(* Mutant: Release signals nobody.                                         *)
ReleaseSilently(i) ==
  /\ pc[i] = "holding"
  /\ \A b \in activeBarriers : b.id # i
  /\ active' = {t \in active : t.id # i}
  /\ overdue' = overdue \ {i} /\ armed' = armed \ {i}
  /\ pc' = [pc EXCEPT ![i] = "free"]
  /\ UNCHANGED <<queue, activeBarriers, aged, fired, watch>>

(* Lease.Release: a lease the watchdog took away is released to no effect. *)
Release(i) ==
  /\ pc[i] = "holding"
  /\ \A b \in activeBarriers : b.id # i
  /\ fired' = fired
  /\ \/ \E t \in active :
          /\ t.id = i
          /\ RemoveActive(t)
          /\ pc' = [Signalled(pc) EXCEPT ![i] = "free"]
     \/ /\ \A t \in active : t.id # i
        /\ pc' = [pc EXCEPT ![i] = "free"]
        /\ UNCHANGED <<queue, active, activeBarriers, aged, overdue, armed, watch>>

ReleaseBarrier(b) ==
  /\ activeBarriers' = activeBarriers \ {b}
  /\ pc' = [Signalled(pc) EXCEPT ![b.id] = "free"]
  /\ watch' = Signalled(watch)
  /\ UNCHANGED <<queue, active, aged, overdue, armed, fired>>

-----------------------------------------------------------------------------
(* WaitIdle: idle and notifyC are read in one critical section.            *)
WatchCheck(w) ==
  /\ watch[w] \in {"free", "woken"}
  /\ watch' = [watch EXCEPT ![w] = IF IsIdle THEN "free" ELSE "parked"]
  /\ UNCHANGED <<queue, active, activeBarriers, pc, aged, overdue, armed, fired>>

WatchTimeout(w) ==
  /\ watch[w] \in {"parked", "woken"}
  /\ watch' = [watch EXCEPT ![w] = "free"]
  /\ UNCHANGED <<queue, active, activeBarriers, pc, aged, overdue, armed, fired>>

-----------------------------------------------------------------------------
Next ==
  \/ \E i \in Ids, r \in Requests : Submit(i, r)
  \/ \E k \in DOMAIN queue : Recheck(k) \/ Timeout(k) \/ Age(k)
  \/ \E t \in active : Expire(t) \/ Touch(t)
  \/ \E i \in Ids : TimerFires(i) \/ ReleaseExpired(i) \/ Release(i)
  \/ \E b \in activeBarriers : ReleaseBarrier(b)
  \/ \E w \in Watchers : WatchCheck(w) \/ WatchTimeout(w)

Spec == Init /\ [][Next]_vars

-----------------------------------------------------------------------------
(* A woken goroutine runs, a waiting call grows old, the watchdog's timers *)
(* fire and their callbacks run, and an eSIM switch ends its barrier.      *)
Fairness ==
  \A i \in Ids :
    /\ WF_vars(\E k \in DOMAIN queue : queue[k].id = i /\ Recheck(k))
    /\ WF_vars(\E k \in DOMAIN queue : queue[k].id = i /\ Age(k))
    /\ WF_vars(TimerFires(i)) /\ WF_vars(ReleaseExpired(i))
    /\ WF_vars(\E b \in activeBarriers : b.id = i /\ ReleaseBarrier(b))

FairSpec == Spec /\ Fairness

(* A holder releases in the end: every production holder defers Release    *)
(* around one exchange that the modem driver bounds by a timeout.          *)
HoldersRelease == \A i \in Ids : WF_vars(Release(i))

-----------------------------------------------------------------------------
(* Properties *)

Waiting(i) == \E k \in 1 .. Len(queue) : queue[k].id = i

(* Types.  Of whatever callers pass in, only tickets with a class, a scope  *)
(* and blocked classes that the scheduler compares against get in.         *)
WaitTicket ==
  [id : Ids, leaseType : LeaseTypes \cup {"barrier"}, class : Classes,
   scope : {"exclusive", "qmi_channel"}, channel : Nat, blocked : SUBSET Classes]

StateTypes ==
  /\ queue \in Seq(Ticket)
  /\ active \subseteq Ticket /\ activeBarriers \subseteq Ticket
  /\ pc \in [Ids -> {"free", "parked", "woken", "holding"}]
  /\ aged \subseteq Ids /\ overdue \subseteq Ids
  /\ armed \subseteq Ids /\ fired \subseteq Ids
  /\ watch \in [Watchers -> {"free", "parked", "woken"}]

TypeOK ==
  /\ StateTypes
  /\ \A k \in 1 .. Len(queue) : queue[k] \in WaitTicket
  /\ active \cup activeBarriers \subseteq WaitTicket

(* An id is in one place at a time, the place where its goroutine is: a    *)
(* waiting call has one ticket in the queue; a holder has at most one      *)
(* lease or barrier (none after a forced release); and only a lease in     *)
(* force is overdue or has a running timer.                                *)
DistinctTickets(q) == \A j, k \in 1 .. Len(q) : q[j].id = q[k].id => j = k

WaitersAreQueued ==
  /\ DistinctTickets(queue)
  /\ \A k \in 1 .. Len(queue) : pc[queue[k].id] \in {"parked", "woken"}
  /\ \A i \in Ids : pc[i] \in {"parked", "woken"} => Waiting(i)

HoldersHoldOnce ==
  /\ \A t \in active : pc[t.id] = "holding" /\ t.leaseType # "barrier"
  /\ \A b \in activeBarriers : pc[b.id] = "holding" /\ b.leaseType = "barrier"
  /\ \A s, t \in active \cup activeBarriers : s.id = t.id => s = t
  /\ \A i \in overdue \cup armed : \E t \in active : t.id = i

OnePlace == WaitersAreQueued /\ HoldersHoldOnce

Access ==
  INSTANCE ApduAccess WITH
    CallTickets <- Ticket, SessionLimit <- MaxSessions,
    ChannelLimit <- MaxQMITransports,
    calls <- queue, granted <- active, entered <- activeBarriers

(* The leases in force never conflict on the card, whatever interleaving   *)
(* of submissions, releases, forced releases and timeouts led to them.     *)
LeaseExclusion == Access!LeaseExclusion

(* A class that an entered barrier blocks is not in flight: the barrier    *)
(* waited for the leases in force, and none of its classes came after it.  *)
BarrierExclusion == Access!BarrierExclusion

(* The arbiter implements the promise of ApduAccess.                       *)
ImplementsAccess == Access!AccessSpec

(* No wakeup is lost: a goroutine parked on the current notifyC could not  *)
(* be served if it looked again, and a parked WaitIdle would not find the  *)
(* arbiter idle.  Transports are exempt while one of them has aged: ageing *)
(* changes the choice among them and signals nobody.                       *)
NoLostWakeup ==
  /\ \A k \in DOMAIN queue :
       /\ pc[queue[k].id] = "parked"
       /\ queue[k].leaseType = "transport" => aged = {}
       => ~ CanAcquire(queue, k)
  /\ \A w \in Watchers : watch[w] = "parked" => ~ IsIdle

(* The watchdog takes a lease only after a full MaxLeaseHold without       *)
(* progress: a Touch that moves the deadline while the timer's callback is *)
(* already on its way to a.mu still saves the lease.                       *)
ForcedOnlyWhenOverdue ==
  [][\A t \in active \ active' : pc'[t.id] = "holding" => t.id \in overdue]_vars

(* A transport that needs the card alone is not overtaken while others     *)
(* transmit: once it waits, unblocked, behind active transports, nothing   *)
(* queued after it is granted before the card has drained.                 *)
ExclusiveNotOvertaken ==
  [][\A j, k \in DOMAIN queue :
       /\ j < k
       /\ queue[j].leaseType = "transport" /\ queue[j].scope = "exclusive"
       /\ ~ BlockedByActiveBarrier(queue[j].class)
       /\ ActiveOf("transport") # {}
       => queue[k] \notin active' \cup activeBarriers']_vars

(* A barrier that waits is entered (or its caller gives up), although      *)
(* callers keep arriving: the leases in force drain and nothing that came  *)
(* after the barrier is granted before it.                                 *)
BarrierProgress ==
  HoldersRelease =>
    \A i \in Ids :
      (\E k \in DOMAIN queue : queue[k].id = i /\ queue[k].leaseType = "barrier")
        ~> ~ Waiting(i)

(* A stalled holder does not keep the card: once its deadline has passed,  *)
(* the lease is forced out unless the holder releases it or touches it.    *)
StalledLeaseIsFreed == \A i \in Ids : i \in overdue ~> i \notin overdue

(* TestTransportPriorityAgingPreventsEUICCStarvation (arbiter_test.go:162):*)
(* an eUICC call that has aged is served although AKA calls compete.       *)
AgingPreventsStarvation ==
  HoldersRelease => \A i \in Ids : i \in aged ~> i \notin aged
=============================================================================
