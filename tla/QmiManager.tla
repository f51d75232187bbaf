----------------------------- MODULE QmiManager -----------------------------
(***************************************************************************)
(* The QMI connection manager of quectel-qmi-go (pkg/manager/manager.go    *)
(* and uim_recovery.go): one event loop that dials, checks and recovers,   *)
(* fed through a bounded channel by the indication handler, by timers and  *)
(* by itself; callers that connect and disconnect beside it; a modem that  *)
(* resets; and Stop, which waits for both goroutines.                      *)
(*                                                                         *)
(* One call of IPv4 stands for both families, and the client with its      *)
(* services is one value: closed, control services only, or WDS as well.   *)
(* RotateIP, the per-service rebinds and the callbacks are not modelled.   *)
(***************************************************************************)
EXTENDS Naturals, Sequences

CONSTANTS
  Handles,     \* packet data handles the modem gives out
  QueueLimit,  \* capacity of eventCh (16)
  MaxRetries,  \* recoveries that fail in a row before 90 s have surely passed
  MaxOutside   \* bound on what callers, the modem and the clock ask for

ASSUME ManagerAssumption ==
  /\ QueueLimit \in Nat \ {0} /\ MaxRetries \in Nat \ {0} /\ MaxOutside \in Nat
  /\ 0 \notin Handles

VARIABLES
  state, desired, coreReady,  \* m.state, m.desiredConnection, m.coreReady
  services,   \* m.client and m.wds: "closed", "control" or "data"
  handle,     \* m.handleV4, 0 for none
  queue,      \* m.eventCh
  timers,     \* the kinds of scheduled timer that have not fired
  sender,     \* a timer's goroutine blocks on eventCh to send eventStart
  pc,         \* where the event loop and the caller are
  seen,       \* the event loop's locals, Nothing while it is idle
  inds,       \* the indication handler
  ctx, stop,  \* m.ctx; how far Stop is
  pending, deferred, recent,  \* modemResetPending, Deferred, EnqueuedAt < 1 s
  attempts,   \* m.recoverCount
  exhausted,  \* EventRecoveryExhausted has been emitted
  calls, broken, notice,  \* the modem: calls up, reset since opened, reset
                          \* indication under way
  outside,    \* how often the outside has acted
  marks       \* history: the races this run has met

core    == <<state, desired, coreReady, services, handle>>
resetVs == <<pending, deferred, recent>>
modem   == <<calls, broken, notice, outside>>
ending  == <<ctx, stop>>
vars == <<core, queue, timers, sender, pc, seen, inds, resetVs, attempts,
          exhausted, modem, ending, marks>>

Processes == {"loop", "user"}
States   == {"disconnected", "connecting", "connected", "stopping"}
Events   == {"start", "stop", "check", "packet", "reset"}
Timers   == {"start", "check", "retry", "deferred", "again"}
Dialing  == {"ensure", "call", "configure"}
Recovery == {"recover", "teardown", "opening", "quiet", "identity"}
LoopPCs  == {"ended", "idle", "hangup", "settle", "query", "sendCheck", "sendStart"}
              \cup Dialing \cup Recovery
UserPCs  == {"idle", "starting", "opened", "connect", "hangup", "settle"} \cup Dialing

Full        == Len(queue) >= QueueLimit
Dials(p)   == pc[p] \in Dialing
Recovering == pc["loop"] \in Recovery \/ seen.next = "teardown"
Nothing    == [state |-> "disconnected", desired |-> FALSE, next |-> "idle"]
FromOutside == outside < MaxOutside /\ outside' = outside + 1
Goes(p, l) == pc' = [pc EXCEPT ![p] = l]

Init ==
  /\ state = "disconnected" /\ desired = FALSE /\ coreReady = FALSE
  /\ services = "closed" /\ handle = 0 /\ queue = <<>> /\ timers = {}
  /\ sender = FALSE /\ pc = [p \in Processes |-> IF p = "loop" THEN "ended" ELSE "idle"]
  /\ seen = Nothing
  /\ inds = "ended" /\ ctx = "none" /\ stop = "none"
  /\ pending = FALSE /\ deferred = FALSE /\ recent = FALSE
  /\ attempts = 0 /\ exhausted = FALSE /\ calls = {} /\ broken = FALSE
  /\ notice = FALSE /\ outside = 0 /\ marks = {}

-----------------------------------------------------------------------------
(* Starting the core *)

\* StartCoreContext up to its unlock; a stopped manager is not started again.
StartCore ==
  /\ pc["user"] = "idle" /\ stop = "none"
  /\ ~coreReady /\ state = "disconnected" /\ ctx = "none"
  /\ state' = "connecting" /\ desired' = FALSE /\ Goes("user", "starting")
  /\ UNCHANGED <<coreReady, services, handle, queue, timers, sender, seen,
                 inds, resetVs, attempts, exhausted, modem, ending, marks>>

\* openClientAndAllocateServices fails: cleanup, and the caller may try again.
CoreFails ==
  /\ pc["user"] = "starting"
  /\ state' = "disconnected" /\ coreReady' = FALSE
  /\ services' = "closed" /\ timers' = {} /\ handle' = 0 /\ Goes("user", "idle")
  /\ UNCHANGED <<desired, queue, sender, seen, inds, resetVs, attempts,
                 exhausted, modem, ending, marks>>

CoreOpens ==
  /\ pc["user"] = "starting"
  /\ services' = "control" /\ broken' = FALSE /\ Goes("user", "opened")
  /\ UNCHANGED <<state, desired, coreReady, handle, queue, timers, sender, seen,
                 inds, resetVs, attempts, exhausted, calls, notice, outside,
                 ending, marks>>

\* Both goroutines start, then the core counts as ready.
CoreStarts ==
  /\ pc["user"] = "opened"
  /\ ctx' = "live" /\ timers' = {} /\ inds' = "reading"
  /\ pc' = [p \in Processes |-> "idle"]
  /\ coreReady' = TRUE /\ state' = "disconnected"
  /\ UNCHANGED <<desired, services, handle, queue, sender, seen, resetVs,
                 attempts, exhausted, modem, stop, marks>>

-----------------------------------------------------------------------------
(* Dialling and hanging up, by the event loop (p = "loop") or a caller *)

\* Connect up to its call of doConnect.
Connect ==
  /\ FromOutside
  /\ pc["user"] = "idle" /\ coreReady /\ state # "stopping"
  /\ desired' = TRUE
  /\ IF state = "connected" \/ (state = "connecting" /\ handle # 0)
     THEN UNCHANGED pc
     ELSE Goes("user", "connect")
  /\ marks' = IF stop = "none" THEN marks ELSE marks \cup {"overlapped"}
  /\ UNCHANGED <<state, coreReady, services, handle, queue, timers, sender, seen,
                 inds, resetVs, attempts, exhausted, calls, broken, notice, ending>>

\* The locked part of doConnect.
DialBegins(p) ==
  IF \/ ~desired
     \/ state \in {"connected", "stopping"}
     \/ state = "connecting" /\ handle # 0
  THEN /\ Goes(p, "idle") /\ UNCHANGED <<state, marks>>
  ELSE /\ state' = "connecting" /\ Goes(p, "ensure")
       /\ marks' = IF \/ p = "user" /\ pc["loop"] # "idle"
                      \/ p = "loop" /\ Dials("user")
                   THEN marks \cup {"overlapped"} ELSE marks

UserDials ==
  /\ pc["user"] = "connect" /\ DialBegins("user")
  /\ UNCHANGED <<desired, coreReady, services, handle, queue, timers, sender,
                 seen, inds, resetVs, attempts, exhausted, modem, ending>>

\* handleDialFailure: back to disconnected, and a timer if still desired.
DialFails(p) ==
  /\ pc[p] \in {"ensure", "call"} /\ services # "closed"
  /\ IF broken THEN UNCHANGED outside ELSE FromOutside
  /\ state' = "disconnected" /\ Goes(p, "idle")
  /\ timers' = IF desired THEN timers \cup {"start"} ELSE timers
  /\ UNCHANGED <<desired, coreReady, services, handle, queue, sender, seen,
                 inds, resetVs, attempts, exhausted, calls, broken, notice, ending, marks>>

\* ensureDataPlaneServices: WDS is allocated at the first dial.
ServicesEnsured(p) ==
  /\ pc[p] = "ensure" /\ services # "closed" /\ ~broken
  /\ services' = "data" /\ Goes(p, "call")
  /\ UNCHANGED <<state, desired, coreReady, handle, queue, timers, sender, seen,
                 inds, resetVs, attempts, exhausted, modem, ending, marks>>

CallStarts(p) ==
  /\ pc[p] = "call" /\ services = "data" /\ ~broken
  /\ \E h \in Handles \ calls : /\ calls' = calls \cup {h}
                                /\ handle' = h
  /\ Goes(p, "configure")
  /\ UNCHANGED <<state, desired, coreReady, services, queue, timers, sender, seen,
                 inds, resetVs, attempts, exhausted, broken, notice, outside,
                 ending, marks>>

Configured(p) ==
  /\ pc[p] = "configure" /\ state' = "connected" /\ Goes(p, "idle")
  /\ UNCHANGED <<desired, coreReady, services, handle, queue, timers, sender,
                 seen, inds, resetVs, attempts, exhausted, modem, ending, marks>>

\* Disconnect up to its call of doDisconnect.
Disconnect ==
  /\ FromOutside
  /\ pc["user"] = "idle" /\ coreReady /\ state # "stopping"
  /\ desired' = FALSE
  /\ IF handle # 0 \/ state \in {"connected", "connecting"}
     THEN Goes("user", "hangup") ELSE UNCHANGED pc
  /\ marks' = IF Dials("loop") THEN marks \cup {"overlapped"} ELSE marks
  /\ UNCHANGED <<state, coreReady, services, handle, queue, timers, sender, seen,
                 inds, resetVs, attempts, exhausted, calls, broken, notice, ending>>

\* Wrong variant: the handle is forgotten, the modem is not told.
HangUpSilently(p) ==
  /\ pc[p] = "hangup" /\ Goes(p, "settle") /\ handle' = 0
  /\ UNCHANGED <<state, desired, coreReady, services, queue, timers, sender, seen,
                 inds, resetVs, attempts, exhausted, modem, ending, marks>>

\* doDisconnect: StopNetworkInterface, then the state.
HangUp(p) ==
  /\ pc[p] = "hangup" /\ Goes(p, "settle")
  /\ IF services = "data" THEN calls' = calls \ {handle} /\ handle' = 0
                          ELSE UNCHANGED <<calls, handle>>
  /\ UNCHANGED <<state, desired, coreReady, services, queue, timers, sender, seen,
                 inds, resetVs, attempts, exhausted, broken, notice, outside,
                 ending, marks>>

Settle(p) ==
  /\ pc[p] = "settle" /\ state' = "disconnected"
  /\ Goes(p, IF p = "loop" THEN seen.next ELSE "idle")
  /\ seen' = IF p = "loop" THEN [seen EXCEPT !.next = "idle"] ELSE seen
  /\ UNCHANGED <<desired, coreReady, services, handle, queue, timers, sender,
                 inds, resetVs, attempts, exhausted, modem, ending, marks>>

-----------------------------------------------------------------------------
(* Modem resets become events *)

\* enqueueModemResetEvent, called with the timers `left` and modemResetPending
\* at `waiting`: joined to the recovery that runs, dropped in the dedup window,
\* queued, or left to a timer when the queue is full.
EnqueueModemReset(running, waiting, left) ==
  \/ /\ running /\ pending' = TRUE /\ timers' = left
     /\ UNCHANGED <<queue, deferred, recent, marks>>
  \/ /\ ~running /\ recent /\ pending' = waiting /\ timers' = left
     /\ marks' = IF coreReady THEN marks ELSE marks \cup {"swallowed"}
     /\ UNCHANGED <<queue, deferred, recent>>
  \/ /\ ~running /\ ~recent /\ recent' = TRUE
     /\ \/ /\ ~Full /\ queue' = Append(queue, "reset") /\ timers' = left
           /\ pending' = waiting /\ UNCHANGED <<deferred, marks>>
        \/ /\ Full /\ deferred /\ pending' = TRUE /\ timers' = left
           /\ marks' = IF left \cap {"deferred", "again"} # {} THEN marks
                       ELSE marks \cup {"swallowed"}
           /\ UNCHANGED <<queue, deferred>>
        \/ /\ Full /\ ~deferred /\ deferred' = TRUE /\ pending' = waiting
           /\ timers' = left \cup {"deferred"} /\ UNCHANGED <<queue, marks>>

\* The end of handleModemResetEvent: what was reported meanwhile is enqueued.
RecoveryEnds(left) ==
  /\ Goes("loop", "idle") /\ seen' = Nothing
  /\ IF pending THEN EnqueueModemReset(FALSE, FALSE, left)
     ELSE /\ timers' = left /\ pending' = FALSE
          /\ UNCHANGED <<queue, deferred, recent, marks>>

\* Wrong variant: no retry is scheduled.
GiveUpLater ==
  \/ /\ attempts < MaxRetries /\ attempts' = attempts + 1
     /\ RecoveryEnds(timers) /\ UNCHANGED exhausted
  \/ /\ attempts > 0 /\ attempts' = 0 /\ exhausted' = TRUE
     /\ RecoveryEnds(timers)

\* scheduleRecoverRetry after a failure: try again with backoff, or give up
\* once 90 s have passed, which the first failure cannot have.
RetryOrGiveUp ==
  \/ /\ attempts < MaxRetries /\ attempts' = attempts + 1
     /\ RecoveryEnds(timers \cup {"retry"}) /\ UNCHANGED exhausted
  \/ /\ attempts > 0 /\ attempts' = 0 /\ exhausted' = TRUE
     /\ RecoveryEnds(timers)

-----------------------------------------------------------------------------
(* The event loop: checks *)

\* handleEvent for the event taken; a status check reads its state here.
TakeEvent ==
  /\ pc["loop"] = "idle" /\ queue # <<>>
  /\ LET evt == Head(queue) IN
     /\ queue' = Tail(queue)
     /\ \/ /\ evt = "start" /\ DialBegins("loop") /\ UNCHANGED <<timers, seen, resetVs>>
        \/ /\ evt = "stop" /\ Goes("loop", "hangup")
           /\ UNCHANGED <<state, timers, seen, marks, resetVs>>
        \/ /\ evt = "packet" /\ timers' = timers \cup {"check"}
           /\ UNCHANGED <<state, pc, seen, marks, resetVs>>
        \/ /\ evt = "check"
           /\ IF state \in {"stopping", "disconnected"} \/ services = "closed"
              THEN UNCHANGED <<pc, seen>>
              ELSE /\ Goes("loop", "query")
                   /\ seen' = [state |-> state, desired |-> desired, next |-> "idle"]
           /\ UNCHANGED <<state, timers, marks, resetVs>>
        \/ /\ evt = "reset" /\ pending' = FALSE
           /\ IF state = "stopping" THEN UNCHANGED <<pc, seen>>
              ELSE /\ Goes("loop", "hangup")
                   /\ seen' = [Nothing EXCEPT !.desired = desired, !.next = "teardown"]
           /\ UNCHANGED <<state, timers, marks, deferred, recent>>
  /\ UNCHANGED <<desired, coreReady, services, handle, sender, inds,
                 attempts, exhausted, modem, ending>>

\* doStatusCheck once the modem has answered (or not) the query.
CheckReturns ==
  /\ pc["loop"] = "query"
  /\ \/ Goes("loop", "idle") /\ seen' = Nothing /\ UNCHANGED <<state, handle>>
     \/ /\ services = "data" /\ calls # {} /\ ~broken
        /\ IF seen.state # "connected"
           THEN /\ state' = "connected" /\ Goes("loop", "idle") /\ seen' = Nothing
           ELSE /\ Goes("loop", "hangup") /\ UNCHANGED state  \* the address differs
                /\ seen' = [Nothing EXCEPT !.next = IF seen.desired THEN "sendStart" ELSE "idle"]
        /\ UNCHANGED handle
     \/ /\ services = "data" /\ calls = {} /\ seen.state = "connected"
        /\ handle' = 0 /\ state' = "disconnected" /\ seen' = Nothing
        /\ Goes("loop", IF seen.desired THEN "sendStart" ELSE "idle")
  /\ UNCHANGED <<desired, coreReady, services, queue, timers, sender, inds, resetVs,
                 attempts, exhausted, modem, ending, marks>>

\* The check timer of the loop; its send, like that of a check that lost the
\* call, blocks the loop while the queue is full.
CheckDue ==
  /\ FromOutside
  /\ pc["loop"] = "idle" /\ Goes("loop", "sendCheck")
  /\ UNCHANGED <<core, queue, timers, sender, seen, inds, resetVs, attempts,
                 exhausted, calls, broken, notice, ending, marks>>

LoopSends ==
  /\ pc["loop"] \in {"sendCheck", "sendStart"} /\ ~Full
  /\ queue' = Append(queue, IF pc["loop"] = "sendCheck" THEN "check" ELSE "start")
  /\ Goes("loop", "idle")
  /\ UNCHANGED <<core, timers, sender, seen, inds, resetVs, attempts, exhausted,
                 modem, ending, marks>>

LoopEnds ==
  /\ pc["loop"] = "idle" /\ ctx = "done" /\ Goes("loop", "ended")
  /\ UNCHANGED <<core, queue, timers, sender, seen, inds, resetVs, attempts,
                 exhausted, modem, ending, marks>>

-----------------------------------------------------------------------------
(* The event loop: recovery *)

\* Wrong variant: the timers live on.
CleansUpServices ==
  /\ services' = "closed" /\ handle' = 0 /\ calls' = {} /\ notice' = FALSE
  /\ coreReady' = FALSE /\ UNCHANGED timers

\* cleanup: the services are closed, and every timer with them.
CleansUp ==
  /\ services' = "closed" /\ handle' = 0 /\ calls' = {} /\ notice' = FALSE
  /\ timers' = {} /\ coreReady' = FALSE

RecoveryTearsDown ==
  /\ pc["loop"] = "teardown" /\ CleansUp /\ Goes("loop", "opening")
  /\ marks' = marks \cup {m \in {"overlapped", "lateStart"} :
                 IF m = "overlapped" THEN pc["user"] \in Dialing \cup {"connect"}
                 ELSE sender \/ \E i \in DOMAIN queue : queue[i] = "start"}
  /\ UNCHANGED <<state, desired, queue, sender, seen, inds, resetVs, attempts,
                 exhausted, broken, outside, ending>>

RecoveryOpens ==
  /\ pc["loop"] = "opening"
  /\ services' = "control" /\ broken' = FALSE /\ Goes("loop", "quiet")
  /\ UNCHANGED <<state, desired, coreReady, handle, queue, timers, sender, seen,
                 inds, resetVs, attempts, exhausted, calls, notice, outside,
                 ending, marks>>

\* Opening fails (the device may be gone), or Stop ends the quiet window's wait.
RecoveryFails ==
  /\ \/ pc["loop"] = "opening" /\ state' = "disconnected"
     \/ pc["loop"] = "quiet" /\ ctx = "done" /\ ~pending /\ UNCHANGED state
  /\ \/ RetryOrGiveUp
     \/ /\ pc["loop"] = "opening" /\ attempts' = 0 /\ exhausted' = TRUE
        /\ RecoveryEnds(timers)
  /\ UNCHANGED <<desired, coreReady, services, handle, sender, inds, modem, ending>>

\* waitResetQuietWindow: a second without a reset.
QuietPasses ==
  /\ pc["loop"] = "quiet" /\ ~pending /\ ~recent /\ Goes("loop", "identity")
  /\ UNCHANGED <<core, queue, timers, sender, seen, inds, resetVs, attempts,
                 exhausted, modem, ending, marks>>

QuietBroken ==
  /\ pc["loop"] = "quiet" /\ pending /\ RecoveryEnds(timers)
  /\ UNCHANGED <<core, sender, inds, attempts, exhausted, modem, ending>>

\* The identity has been read, or the wait for it is over.
RecoveryConverges ==
  /\ pc["loop"] = "identity"
  /\ attempts' = 0 /\ coreReady' = TRUE /\ state' = "disconnected"
  /\ RecoveryEnds(IF seen.desired THEN timers \cup {"start"} ELSE timers)
  /\ UNCHANGED <<desired, services, handle, sender, inds, exhausted, modem, ending>>

-----------------------------------------------------------------------------
(* Timers: a callback does nothing once the manager's context is done *)

Fires(t) == /\ t \in timers /\ ctx = "live"

StartFires ==
  /\ Fires("start") /\ timers' = timers \ {"start"}
  /\ IF Full THEN sender' = TRUE /\ UNCHANGED queue
             ELSE queue' = Append(queue, "start") /\ UNCHANGED sender
  /\ UNCHANGED <<core, pc, seen, inds, resetVs, attempts, exhausted, modem,
                 ending, marks>>

SenderSends ==
  /\ sender /\ ~Full /\ sender' = FALSE /\ queue' = Append(queue, "start")
  /\ UNCHANGED <<core, timers, pc, seen, inds, resetVs, attempts, exhausted,
                 modem, ending, marks>>

CheckFires ==
  /\ Fires("check") /\ timers' = timers \ {"check"}
  /\ queue' = IF Full THEN queue ELSE Append(queue, "check")
  /\ UNCHANGED <<core, sender, pc, seen, inds, resetVs, attempts, exhausted,
                 modem, ending, marks>>

\* The first two retries wait about 0.5 s and 1 s, later ones 1.6 s and more:
\* only those two can fall into the dedup window.
RetryFires ==
  /\ Fires("retry") /\ (attempts > 2 => ~recent)
  /\ EnqueueModemReset(Recovering, pending, timers \ {"retry"})
  /\ UNCHANGED <<core, sender, pc, seen, inds, attempts, exhausted, modem, ending>>

\* The 200 ms timer of a full queue, and the 500 ms timer if it is still full.
DeferredFires ==
  /\ Fires("deferred")
  /\ IF Recovering
     THEN /\ deferred' = FALSE /\ pending' = TRUE
          /\ timers' = timers \ {"deferred"} /\ UNCHANGED <<queue, recent>>
     ELSE /\ recent' = TRUE
          /\ IF Full
             THEN /\ deferred' = TRUE /\ pending' = TRUE /\ UNCHANGED queue
                  /\ timers' = (timers \ {"deferred"}) \cup {"again"}
             ELSE /\ deferred' = FALSE /\ UNCHANGED pending
                  /\ timers' = timers \ {"deferred"} /\ queue' = Append(queue, "reset")
  /\ UNCHANGED <<core, sender, pc, seen, inds, attempts, exhausted, modem, ending, marks>>

\* The flag and the debounce time are cleared, then the event is enqueued anew.
AgainFires ==
  /\ Fires("again")
  /\ \/ /\ Recovering /\ pending' = TRUE /\ deferred' = FALSE /\ recent' = FALSE
        /\ timers' = timers \ {"again"} /\ UNCHANGED queue
     \/ /\ ~Recovering /\ recent' = TRUE /\ UNCHANGED pending
        /\ IF Full THEN /\ deferred' = TRUE /\ UNCHANGED queue
                        /\ timers' = (timers \ {"again"}) \cup {"deferred"}
                   ELSE /\ deferred' = FALSE /\ queue' = Append(queue, "reset")
                        /\ timers' = timers \ {"again"}
  /\ UNCHANGED <<core, sender, pc, seen, inds, attempts, exhausted, modem, ending, marks>>

\* A second has passed since the last reset event was enqueued.
WindowCloses ==
  /\ recent /\ recent' = FALSE
  /\ UNCHANGED <<core, queue, timers, sender, pc, seen, inds, pending, deferred,
                 attempts, exhausted, modem, ending, marks>>

-----------------------------------------------------------------------------
(* The indication handler and the outside *)

\* A packet-service or serving-system indication: a send that blocks.
StatusIndicated ==
  /\ FromOutside
  /\ inds = "reading" /\ services # "closed"
  /\ IF Full THEN inds' = "blocked" /\ UNCHANGED queue
             ELSE queue' = Append(queue, "packet") /\ UNCHANGED inds
  /\ UNCHANGED <<core, timers, sender, pc, seen, resetVs, attempts, exhausted,
                 calls, broken, notice, ending, marks>>

HandlerSends ==
  /\ inds = "blocked" /\ ~Full
  /\ queue' = Append(queue, "packet") /\ inds' = "reading"
  /\ UNCHANGED <<core, timers, sender, pc, seen, resetVs, attempts, exhausted,
                 modem, ending, marks>>

\* The modem's reset indication reaches enqueueModemResetEvent.
ResetIndicated ==
  /\ inds = "reading" /\ notice /\ notice' = FALSE
  /\ EnqueueModemReset(Recovering, pending, timers)
  /\ UNCHANGED <<core, sender, pc, seen, inds, attempts, exhausted, calls, broken,
                 outside, ending>>

\* Wrong variant: the context is only looked at while a client is open.
HandlerEndsWithClient ==
  /\ inds = "reading" /\ ctx = "done" /\ services # "closed" /\ inds' = "ended"
  /\ UNCHANGED <<core, queue, timers, sender, pc, seen, resetVs, attempts,
                 exhausted, modem, ending, marks>>

HandlerEnds ==
  /\ inds = "reading" /\ ctx = "done" /\ inds' = "ended"
  /\ UNCHANGED <<core, queue, timers, sender, pc, seen, resetVs, attempts,
                 exhausted, modem, ending, marks>>

ModemResets ==
  /\ FromOutside
  /\ broken' = TRUE /\ calls' = {} /\ notice' = (services # "closed")
  /\ UNCHANGED <<core, queue, timers, sender, pc, seen, inds, resetVs, attempts,
                 exhausted, ending, marks>>

\* The network ends a call.
CallDrops ==
  /\ FromOutside
  /\ \E c \in calls : calls' = calls \ {c}
  /\ UNCHANGED <<core, queue, timers, sender, pc, seen, inds, resetVs, attempts,
                 exhausted, broken, notice, ending, marks>>

\* triggerCoreRecoveryFromService when requests fail, RequestCoreRecovery from
\* outside; a storm of timeouts (detectTimeoutStorm) asks without the guard.
RequestCoreRecovery ==
  /\ FromOutside
  /\ \/ broken /\ services # "closed"
     \/ coreReady /\ state # "stopping"
  /\ EnqueueModemReset(Recovering, pending, timers)
  /\ UNCHANGED <<core, sender, pc, seen, inds, attempts, exhausted, calls, broken,
                 notice, ending>>

-----------------------------------------------------------------------------
(* Stopping *)

\* Stop up to m.wg.Wait; eventStop is dropped if the queue is full.
StopBegins ==
  /\ stop = "none" /\ (ctx # "none" \/ pc["user"] \in {"starting", "opened"})
  /\ desired' = FALSE /\ state' = "stopping" /\ stop' = "waiting"
  /\ timers' = {} /\ ctx' = IF ctx = "live" THEN "done" ELSE ctx
  /\ queue' = IF Full \/ (~coreReady /\ state = "disconnected")
              THEN queue ELSE Append(queue, "stop")
  /\ marks' = IF pc["user"] # "idle" \/ Dials("loop")
              THEN marks \cup {"overlapped"} ELSE marks
  /\ UNCHANGED <<coreReady, services, handle, sender, pc, seen, inds, resetVs,
                 attempts, exhausted, modem>>

\* Wrong variant: Stop waits for the indication handler only.
StopReturnsEarly ==
  /\ stop = "waiting" /\ inds = "ended"
  /\ CleansUp /\ state' = "disconnected" /\ stop' = "returned"
  /\ UNCHANGED <<desired, queue, sender, pc, seen, inds, resetVs, attempts,
                 exhausted, broken, outside, ctx, marks>>

\* m.wg.Wait is over: cleanup and the last state.
StopReturns ==
  /\ stop = "waiting" /\ pc["loop"] = "ended" /\ inds = "ended"
  /\ CleansUp /\ state' = "disconnected" /\ stop' = "returned"
  /\ UNCHANGED <<desired, queue, sender, pc, seen, inds, resetVs, attempts,
                 exhausted, broken, outside, ctx, marks>>

-----------------------------------------------------------------------------
Dialling(p) == \/ ServicesEnsured(p) \/ CallStarts(p) \/ Configured(p)
               \/ DialFails(p) \/ HangUp(p) \/ Settle(p)
Starting    == CoreFails \/ CoreOpens \/ CoreStarts
Looping     == \/ TakeEvent \/ CheckReturns \/ LoopSends \/ LoopEnds
               \/ RecoveryTearsDown \/ RecoveryOpens \/ RecoveryFails
               \/ QuietPasses \/ QuietBroken \/ RecoveryConverges
Firing      == \/ StartFires \/ CheckFires \/ RetryFires \/ DeferredFires
               \/ AgainFires
Outside     == \/ StartCore \/ Connect \/ Disconnect \/ StopBegins \/ CheckDue
               \/ StatusIndicated \/ ModemResets \/ CallDrops \/ RequestCoreRecovery

Next ==
  \/ \E p \in Processes : Dialling(p)
  \/ UserDials \/ Starting \/ Looping \/ Firing \/ SenderSends \/ WindowCloses
  \/ HandlerSends \/ ResetIndicated \/ HandlerEnds \/ StopReturns
  \/ Outside

LoopStep    == Dialling("loop") \/ Looping
UserStep    == Dialling("user") \/ UserDials \/ Starting
HandlerStep == HandlerSends \/ ResetIndicated \/ HandlerEnds

\* The runtime schedules every goroutine, timers fire and every request to the
\* modem ends with an answer or its timeout; nothing is asked of the outside.
Fairness ==
  /\ WF_vars(LoopStep) /\ WF_vars(UserStep) /\ WF_vars(HandlerStep)
  /\ WF_vars(StartFires) /\ WF_vars(CheckFires)
  /\ WF_vars(RetryFires) /\ WF_vars(DeferredFires)
  /\ WF_vars(AgainFires) /\ WF_vars(SenderSends)
  /\ WF_vars(WindowCloses) /\ WF_vars(StopReturns)

Spec == Init /\ [][Next]_vars
FairSpec == Spec /\ Fairness

-----------------------------------------------------------------------------
(* Properties *)

\* Types; the channel never holds more than its capacity.
TypeOK ==
  /\ state \in States
  /\ desired \in BOOLEAN /\ coreReady \in BOOLEAN
  /\ services \in {"closed", "control", "data"} /\ handle \in Handles \cup {0}
  /\ queue \in Seq(Events) /\ Len(queue) <= QueueLimit
  /\ timers \subseteq Timers /\ sender \in BOOLEAN
  /\ pc \in [Processes -> LoopPCs \cup UserPCs]
  /\ pc["loop"] \in LoopPCs /\ pc["user"] \in UserPCs
  /\ seen \in [state : States, desired : BOOLEAN, next : {"idle", "sendStart", "teardown"}]
  /\ inds \in {"reading", "blocked", "ended"}
  /\ ctx \in {"none", "live", "done"} /\ stop \in {"none", "waiting", "returned"}
  /\ {pending, deferred, recent, exhausted, broken, notice} \subseteq BOOLEAN
  /\ attempts \in 0 .. MaxRetries /\ calls \subseteq Handles /\ outside \in 0 .. MaxOutside
  /\ marks \subseteq {"overlapped", "lateStart", "swallowed"}

\* The races named in marks are met by the code as it is (see the README); what
\* follows one of them is not explored.
Unraced == marks = {}

AtRest == pc["user"] = "idle" /\ pc["loop"] \in {"idle", "ended"}

\* Once the loop and the caller rest, the modem keeps no call but the one whose
\* handle is stored, and none after a Disconnect: whatever checks, retries and
\* queued starts came in between, unless a dial met another command.
CallsAreKnown ==
  AtRest /\ stop = "none" /\ "overlapped" \notin marks =>
    calls \subseteq (IF desired THEN {handle} ELSE {})

\* After Stop nothing comes back to life: no timer, queued event or recovery
\* that was under way opens the device, dials or reports a ready core again.
StoppedStaysDown ==
  stop = "returned" /\ "overlapped" \notin marks =>
    /\ state = "disconnected" /\ services = "closed" /\ handle = 0
    /\ ~coreReady /\ calls = {} /\ timers = {}

\* A nil client or WDS service is about to be used, which ends the process.
NilService ==
  \E p \in Processes : pc[p] \in (CASE services = "closed"  -> {"ensure", "call"}
                                          [] services = "control" -> {"call"}
                                          [] services = "data"    -> {})

\* No dial works on closed services, unless it overlapped the teardown or its
\* eventStart was queued before it: doConnect itself does not look at coreReady.
DialsHaveServices == NilService => marks \cap {"overlapped", "lateStart"} # {}

\* A recovery's retry never outlives it: once the core is ready no retry is
\* left that would tear it down again.
RetryOnlyWhileDown == "retry" \in timers => ~coreReady

\* The loop waits for room in the channel that only it empties.
Stuck == pc["loop"] \in {"sendCheck", "sendStart"} /\ Full

\* A core that is down is pursued until it is ready or given up for good, as
\* long as no reset event was dropped in the dedup window or behind the flag of
\* a deferred event whose timer cleanup has stopped.
RecoveryPursued ==
  (ctx = "live" /\ ~coreReady) ~>
    \/ coreReady \/ exhausted \/ ctx = "done" \/ Stuck
    \/ "swallowed" \in marks

\* Stop returns, unless the loop waits for itself or the indication handler is
\* left sending into the full channel of a loop that has ended.
StopEnds ==
  stop = "waiting" ~>
    \/ stop = "returned" \/ Stuck
    \/ inds = "blocked" /\ Full /\ pc["loop"] = "ended"
=============================================================================
