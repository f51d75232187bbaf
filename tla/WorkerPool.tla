----------------------------- MODULE WorkerPool -----------------------------
(***************************************************************************)
(* The pool's hold on one QMI device (vohive/internal/device): attempts to *)
(* start a worker, the removal and the rebuild of workers, the scan for    *)
(* hardware, the recovery goroutine behind its controller, and the health  *)
(* check, all of them free to run at once.                                 *)
(*                                                                         *)
(* A worker is named by the attempt (a call of AddWorkerFromConfig) that   *)
(* makes it; a name is given out again when its attempt has ended and its  *)
(* core is closed or out of reach.  Generations are only compared for      *)
(* equality: newest names the worker that was given the latest.  Delays    *)
(* and deadlines are time; other devices, VoWiFi and the paths of the      *)
(* device are left out.                                                    *)
(***************************************************************************)
EXTENDS Naturals

CONSTANTS
  MaxAttempts,  \* attempts, and workers, at a time
  MaxTroubles,  \* bound on what goes wrong and on what users ask for; for
                \* liveness less than MaxAttempts, or hung attempts use up the names
  Rounds        \* scans of one recovery (7, after a manual reboot 6)

ASSUME PoolAssumption ==
  /\ {MaxAttempts, Rounds} \subseteq Nat \ {0} /\ MaxTroubles \in Nat

VARIABLES
  present,     \* the device node is there
  workers,     \* p.workers of the device
  rebuilding,  \* p.rebuilding
  token,       \* the attempt that p.rebuildAttempt counts
  newest,      \* the worker whose generation is the controller's
  boot,        \* how far AddWorkerFromConfig is, by attempt
  overdue,     \* attempts whose watchdog has fired: they may never return
  core,        \* worker.QMICore; "late" when it was opening as its worker was
               \* stopped: it may yet come up, and then nobody closes it
  recovering,  \* p.modemRebootRecovering
  active,      \* transportRecovery.active holds an event
  closing,     \* a recovery has ended, Finish of its event is to come
  scheduled,   \* recoveries whose goroutine has not begun, by kind
  rounds,      \* rounds of the recovery that have begun
  job,         \* where the recovery and another request are
  troubles     \* how often something went wrong

control   == <<rebuilding, token, newest>>
attemptVs == <<boot, overdue>>
recoverVs == <<recovering, active, closing, scheduled, rounds>>
outside   == <<present, troubles>>
vars == <<workers, control, attemptVs, core, recoverVs, job, outside>>

Attempts  == 1 .. MaxAttempts
None      == 0
Processes == {"recovery", "request"}
Kinds     == {"observed", "plain"}    \* started by an accepted event, or not
Begun(a)  == boot[a] # "none"
\* Names are given out again, the least one first.
Free      == {a \in Attempts : /\ ~ Begun(a) /\ core[a] \in {"none", "late"}
                               /\ \A p \in Processes : job[p].worker # a}
Starting(a) == core[a] \in {"opening", "idle"} /\ a \notin overdue /\ present

\* pc, what comes after RemoveWorker, the worker that is removed or awaited,
\* and whether RemoveWorker has set rebuilding itself.
Idle == [pc |-> "idle", next |-> "idle", worker |-> None, owns |-> FALSE]
At(p, l)      == job[p].pc = l
Goes(p, l)    == job' = [job EXCEPT ![p] = [Idle EXCEPT !.pc = l]]
Removes(p, l) == job' = [job EXCEPT ![p] = [Idle EXCEPT !.pc = "take", !.next = l]]
AfterScan(p)  == IF p = "recovery" THEN "check" ELSE "idle"
Trouble       == troubles < MaxTroubles /\ troubles' = troubles + 1

Init ==
  /\ present = TRUE /\ workers = None /\ rebuilding = FALSE /\ token = None /\ newest = None
  /\ boot = [a \in Attempts |-> "none"] /\ overdue = {}
  /\ core = [a \in Attempts |-> "none"]
  /\ recovering = FALSE /\ active = FALSE /\ closing = FALSE /\ scheduled = {}
  /\ rounds = 0 /\ job = [p \in Processes |-> Idle] /\ troubles = 0

-----------------------------------------------------------------------------
(* AddWorkerFromConfig.                                                    *)

\* The part under the lock.
AttemptBegins(a) ==
  /\ workers = None /\ ~ rebuilding
  /\ a \in Free /\ \A b \in Free : a <= b
  /\ rebuilding' = TRUE /\ token' = a
  /\ boot' = [boot EXCEPT ![a] = "probing"]

Add(p) ==
  /\ At(p, "add")
  /\ \/ \E a \in Attempts :
          /\ AttemptBegins(a)
          /\ job' = [job EXCEPT ![p] = [Idle EXCEPT !.pc = "adding", !.worker = a]]
     \/ /\ workers # None \/ rebuilding
        /\ Goes(p, AfterScan(p)) /\ UNCHANGED <<rebuilding, token, boot>>
  /\ UNCHANGED <<workers, newest, overdue, core, recoverVs, outside>>

\* The deferred end: the flag is taken back by the newest attempt only. The
\* caller goes on.
Ends(a) ==
  /\ boot' = [boot EXCEPT ![a] = "none"] /\ overdue' = overdue \ {a}
  /\ rebuilding' = (rebuilding /\ token # a)
  /\ token' = IF token = a THEN None ELSE token
  /\ job' = [p \in Processes |-> IF At(p, "adding") /\ job[p].worker = a
                                 THEN [Idle EXCEPT !.pc = AfterScan(p)] ELSE job[p]]
Continues(a, l) == boot' = [boot EXCEPT ![a] = l] /\ UNCHANGED <<overdue, rebuilding, token, job>>

\* No device, or a part of the worker that cannot be made.
ProbeFails(a) ==
  /\ boot[a] \in {"probing", "built"}
  /\ IF present THEN Trouble ELSE UNCHANGED troubles
  /\ Ends(a)
  /\ UNCHANGED <<workers, newest, core, recoverVs, present>>

\* assignWorkerGeneration, the pool's and the controller's.
AssignGeneration(a) ==
  /\ boot[a] = "probing"
  /\ newest' = a /\ Continues(a, "built")
  /\ UNCHANGED <<workers, core, recoverVs, outside>>

\* isRebuildAttemptCurrent.
CheckCurrent(a) ==
  /\ boot[a] = "built"
  /\ IF token = a THEN Continues(a, "checked") ELSE Ends(a)
  /\ UNCHANGED <<workers, newest, core, recoverVs, outside>>

\* registerWorkerStarting and the start of the core.
Register(a) ==
  /\ boot[a] = "checked"
  /\ IF workers = None
     THEN /\ workers' = a /\ core' = [core EXCEPT ![a] = "opening"]
          /\ Continues(a, "starting")
     ELSE Ends(a) /\ UNCHANGED <<workers, core>>
  /\ UNCHANGED <<newest, recoverVs, outside>>

\* Mutant: a worker that is given up is not stopped.
StartAborts(a) ==
  /\ boot[a] = "starting"
  /\ workers' = IF workers = a THEN None ELSE workers
  /\ Ends(a)
  /\ UNCHANGED <<newest, core, recoverVs, outside>>

\* startQMICoreWithStartupBudget: the core is up, or not yet and left to the
\* retry loop, or its transport is down and the worker is given up.
StartReturns(a) ==
  /\ boot[a] = "starting"
  /\ \/ /\ \/ core[a] = "late" /\ UNCHANGED core
           \/ core[a] # "late" /\ present /\ core' = [core EXCEPT ![a] = "up"]
           \/ core[a] # "late" /\ core' = [core EXCEPT ![a] = "idle"]
        /\ UNCHANGED <<workers, troubles>>
     \/ /\ IF present THEN Trouble ELSE UNCHANGED troubles
        /\ workers' = IF workers = a THEN None ELSE workers
        /\ core' = [core EXCEPT ![a] = "none"]
  /\ Ends(a)
  /\ UNCHANGED <<newest, recoverVs, present>>

\* Mutant: the watchdog only logs.
WatchdogLogs(a) ==
  /\ Begun(a) /\ a \notin overdue /\ Trouble
  /\ overdue' = overdue \cup {a}
  /\ UNCHANGED <<workers, control, boot, core, recoverVs, job, present>>

\* startBootstrapWatchdog.
Watchdog(a) ==
  /\ Begun(a) /\ a \notin overdue /\ Trouble
  /\ overdue' = overdue \cup {a}
  /\ rebuilding' = (rebuilding /\ token # a)
  /\ UNCHANGED <<workers, token, newest, boot, core, recoverVs, job, present>>

Attempt(a) ==
  \/ ProbeFails(a) \/ AssignGeneration(a) \/ CheckCurrent(a) \/ Register(a) \/ StartReturns(a)

-----------------------------------------------------------------------------
(* The QMI core of a worker.                                               *)

\* startQMICoreRetryLoop.
Retry(a) ==
  /\ boot[a] = "none"
  /\ \/ core[a] = "idle" /\ core' = [core EXCEPT ![a] = "opening"]
     \/ core[a] = "opening" /\ core' \in {[core EXCEPT ![a] = "idle"]}
          \cup (IF present THEN {[core EXCEPT ![a] = "up"]} ELSE {})
  /\ UNCHANGED <<workers, control, attemptVs, recoverVs, job, outside>>

Dies(a) ==
  /\ core[a] = "up" /\ Trouble /\ core' = [core EXCEPT ![a] = "lost"]
  /\ UNCHANGED <<workers, control, attemptVs, recoverVs, job, present>>

Revives(a) ==
  /\ core[a] = "lost" /\ present /\ core' = [core EXCEPT ![a] = "up"]
  /\ UNCHANGED <<workers, control, attemptVs, recoverVs, job, outside>>

\* Observe, and the goroutine of the recovery.
Accepts(a) == newest = a /\ ~ active
Schedules(a) == /\ Accepts(a) /\ active' = TRUE /\ scheduled' = scheduled \cup {"observed"}

\* The core gives up: maybeScheduleTransportRebuild. AllowRebuild may refuse.
Exhausts(a) ==
  /\ core[a] = "lost" /\ core' = [core EXCEPT ![a] = "over"]
  /\ \/ workers = a /\ Schedules(a)
     \/ UNCHANGED <<active, scheduled>>
  /\ UNCHANGED <<workers, control, attemptVs, recovering, closing, rounds, job, outside>>

-----------------------------------------------------------------------------
(* RemoveWorker, by the process p.                                         *)

Take(p) ==
  /\ At(p, "take")
  /\ IF workers # None
     THEN /\ job' = [job EXCEPT ![p].pc = "stopping", ![p].worker = workers,
                                ![p].owns = ~ rebuilding]
          /\ workers' = None /\ rebuilding' = TRUE
     ELSE Goes(p, job[p].next) /\ UNCHANGED <<workers, rebuilding>>
       \* at once, or after waitWorkerInitSettled has waited in vain
  /\ UNCHANGED <<token, newest, attemptVs, core, recoverVs, outside>>

\* Mutant: RemoveWorker takes its flag back only if there was a core to close.
StopClosed(p) ==
  /\ At(p, "stopping")
  /\ core' = [core EXCEPT ![job[p].worker] = IF @ = "opening" THEN "late" ELSE "none"]
  /\ rebuilding' = (rebuilding /\ ~ (job[p].owns /\ core'[job[p].worker] = "none"))
  /\ Goes(p, job[p].next)
  /\ UNCHANGED <<workers, token, newest, attemptVs, recoverVs, outside>>

\* The core's Stop does not interrupt what is opening.
Stop(p) ==
  /\ At(p, "stopping")
  /\ core' = [core EXCEPT ![job[p].worker] =
                IF @ = "opening" THEN "late" ELSE "none"]
  /\ rebuilding' = (rebuilding /\ ~ job[p].owns)
  /\ Goes(p, job[p].next)
  /\ UNCHANGED <<workers, token, newest, attemptVs, recoverVs, outside>>

-----------------------------------------------------------------------------
(* rescanAndReconnect, by the recovery or another request.                 *)

Scan(p) ==
  /\ At(p, "scan")
  /\ IF present
     THEN IF workers = None THEN Goes(p, "add")
          ELSE IF core[workers] = "up" THEN Goes(p, AfterScan(p)) ELSE Removes(p, "add")
     ELSE IF workers = None THEN Goes(p, AfterScan(p)) ELSE Removes(p, AfterScan(p))
  /\ UNCHANGED <<workers, control, attemptVs, core, recoverVs, outside>>

RescanAndReconnect ==
  /\ At("request", "idle") /\ Trouble /\ Goes("request", "scan")
  /\ UNCHANGED <<workers, control, attemptVs, core, recoverVs, present>>

\* RebuildWorker: the flag is set and taken back whoever holds it.
RebuildWorker ==
  /\ At("request", "idle") /\ Trouble
  /\ rebuilding' = TRUE /\ Removes("request", "handover")
  /\ UNCHANGED <<workers, token, newest, attemptVs, core, recoverVs, present>>

Handover ==
  /\ At("request", "handover")
  /\ rebuilding' = FALSE /\ Goes("request", "add")
  /\ UNCHANGED <<workers, token, newest, attemptVs, core, recoverVs, outside>>

Working(p) == Add(p) \/ Take(p) \/ Stop(p) \/ Scan(p)

-----------------------------------------------------------------------------
(* runModemRebootRecovery.                                                 *)

RecoveryBegins(k) ==
  /\ k \in scheduled /\ ~ recovering
  /\ scheduled' = scheduled \ {k}
  /\ recovering' = TRUE /\ rounds' = 0
  /\ Removes("recovery", "wait")
  /\ UNCHANGED <<workers, control, attemptVs, core, active, closing, outside>>

\* Another one is running; the event of this one is finished.
RecoveryRefused(k) ==
  /\ k \in scheduled /\ recovering
  /\ scheduled' = scheduled \ {k}
  /\ active' = (active /\ k = "plain")
  /\ UNCHANGED <<workers, control, attemptVs, core, recovering, closing, rounds, job, outside>>

\* The delay of the round is over, or a udev event wakes the recovery.
RecoveryRound ==
  /\ At("recovery", "wait") /\ rounds < Rounds
  /\ rounds' = rounds + 1
  /\ Goes("recovery", IF present THEN "scan" ELSE "wait")
  /\ UNCHANGED <<workers, control, attemptVs, core, recovering, active, closing, scheduled, outside>>

\* refreshModemRebootRecoveredIdentity: the control plane answers, or the
\* identity is left to a background task; the next round; or the worker is
\* removed because its transport is down.
RecoveryChecks ==
  /\ At("recovery", "check")
  /\ \/ workers # None /\ Goes("recovery", "finish")
     \/ Goes("recovery", "wait")
     \/ workers # None /\ core[workers] # "up" /\ Removes("recovery", "wait")
  /\ UNCHANGED <<workers, control, attemptVs, core, recoverVs, outside>>

\* Mutant: a recovery ends without finishing its event.
EndsUnfinished ==
  /\ At("recovery", "finish") \/ (At("recovery", "wait") /\ rounds = Rounds)
  /\ ~ closing
  /\ recovering' = FALSE /\ rounds' = 0
  /\ Goes("recovery", "idle")
  /\ UNCHANGED <<workers, control, attemptVs, core, active, closing, scheduled, outside>>

\* finishModemRebootRecovery, then the controller's Finish.
RecoveryEnds ==
  /\ At("recovery", "finish") \/ (At("recovery", "wait") /\ rounds = Rounds)
  /\ ~ closing
  /\ recovering' = FALSE /\ closing' = TRUE /\ rounds' = 0
  /\ Goes("recovery", "idle")
  /\ UNCHANGED <<workers, control, attemptVs, core, active, scheduled, outside>>

Finish ==
  /\ closing /\ closing' = FALSE /\ active' = FALSE
  /\ UNCHANGED <<workers, control, attemptVs, core, recovering, scheduled, rounds, job, outside>>

Scheduled(k) == RecoveryBegins(k) \/ RecoveryRefused(k)
Recovery     == RecoveryRound \/ RecoveryChecks \/ RecoveryEnds

-----------------------------------------------------------------------------
(* The health check.                                                       *)

\* An unhealthy worker; that a start is not waited for is trouble.
TickEvicts ==
  /\ workers # None /\ core[workers] # "up"
  /\ IF Starting(workers) THEN Trouble ELSE UNCHANGED troubles
  /\ Schedules(workers)
  /\ UNCHANGED <<workers, control, attemptVs, core, recovering, closing, rounds, job, present>>

\* No worker, and nobody at work on it; but the flag of the recovery was read
\* before the discovery, which takes a while.
TickStarts ==
  /\ present /\ \E a \in Attempts : AttemptBegins(a)
  /\ IF recovering THEN Trouble ELSE UNCHANGED troubles
  /\ UNCHANGED <<workers, newest, overdue, core, recoverVs, job, present>>

(* The device and the user.                                                *)

Unplug ==
  /\ present /\ Trouble /\ present' = FALSE
  /\ core' = [a \in Attempts |-> IF core[a] = "up" THEN "lost" ELSE core[a]]
  /\ UNCHANGED <<workers, control, attemptVs, recoverVs, job>>

Plug ==
  /\ ~ present /\ present' = TRUE
  /\ UNCHANGED <<workers, control, attemptVs, core, recoverVs, job, troubles>>

\* The reboot is sent through a worker; a recovery without an event follows.
ManualReboot ==
  /\ workers # None /\ "plain" \notin scheduled /\ Trouble
  /\ scheduled' = scheduled \cup {"plain"}
  /\ UNCHANGED <<workers, control, attemptVs, core, recovering, active, closing, rounds, job, present>>

Next ==
  \/ \E a \in Attempts : \/ Attempt(a) \/ Watchdog(a) \/ Retry(a)
                         \/ Dies(a) \/ Revives(a) \/ Exhausts(a)
  \/ \E p \in Processes : Working(p)
  \/ RescanAndReconnect \/ RebuildWorker \/ Handover
  \/ \E k \in Kinds : Scheduled(k)
  \/ Recovery \/ Finish \/ TickEvicts \/ TickStarts \/ Unplug \/ Plug \/ ManualReboot

InTime(a) == a \notin overdue /\ Attempt(a)
Fairness ==
  /\ \A a \in Attempts : WF_vars(InTime(a)) /\ WF_vars(Retry(a))
  /\ \A p \in Processes : WF_vars(Working(p))
  /\ \A k \in Kinds : WF_vars(Scheduled(k))
  /\ WF_vars(Handover) /\ WF_vars(Recovery) /\ WF_vars(Finish)
  /\ WF_vars(TickEvicts) /\ WF_vars(~ recovering /\ TickStarts)

Spec == Init /\ [][Next]_vars
FairSpec == Spec /\ Fairness

-----------------------------------------------------------------------------
(* Properties *)

TypeOK ==
  /\ present \in BOOLEAN /\ workers \in Attempts \cup {None} /\ rebuilding \in BOOLEAN
  /\ {token, newest} \subseteq Attempts \cup {None}
  /\ boot \in [Attempts -> {"none", "probing", "built", "checked", "starting"}]
  /\ overdue \subseteq Attempts
  /\ core \in [Attempts -> {"none", "opening", "idle", "up", "lost", "over", "late"}]
  /\ {recovering, active, closing} \subseteq BOOLEAN
  /\ scheduled \subseteq Kinds /\ rounds \in 0 .. Rounds
  /\ job \in [Processes -> [pc : {"idle", "add", "adding", "take", "stopping", "scan",
                                  "handover", "wait", "check", "finish"},
                            next : {"idle", "add", "handover", "wait", "check"},
                            worker : Attempts \cup {None}, owns : BOOLEAN]]
  /\ troubles \in 0 .. MaxTroubles

\* The flag that refuses starts and removals has an owner who takes it back: an
\* attempt that is in time, a removal, or a rebuild.  The device is not locked
\* out, whichever of them set, shared or took back the flag before.
FlagIsReleased ==
  rebuilding =>
    \/ token # None /\ token \notin overdue
    \/ \E p \in Processes : At(p, "stopping") /\ job[p].owns
    \/ At("request", "handover") \/ job["request"].next = "handover"

\* An event in the controller, which keeps out all later ones, belongs to a
\* recovery that will run, runs or is about to finish it, although recoveries
\* without an event run beside it and refuse it.
ActiveHasOwner == active => "observed" \in scheduled \/ recovering \/ closing

\* A core that holds the device belongs to the registered worker or to one that
\* is being stopped: no attempt that fails, is overtaken or comes late leaves
\* one behind.  Only a core that was opening as its worker was stopped is out of
\* the pool's hands.
CoreHasOwner ==
  \A a \in Attempts : core[a] \in {"opening", "idle", "up", "lost", "over"} =>
    workers = a \/ \E p \in Processes : At(p, "stopping") /\ job[p].worker = a

\* The recovery waits for an attempt that may never return.
HeldUp == At("recovery", "adding") /\ job["recovery"].worker \in overdue

\* A device that is there gets a worker, after failed, refused and hung starts,
\* removals and recoveries, as long as the recovery itself is not held up.
MissingIsStarted ==
  (present /\ workers = None) ~> (workers # None \/ ~ present \/ HeldUp)

\* A registered worker whose core is lost revives or is removed for a new one: no
\* recovery that ran, was refused or met another leaves the controller deaf to
\* it.  A late attempt that took the newest generation does.
Lost(a) == workers = a /\ core[a] \in {"lost", "over"}
LostIsReplaced ==
  \A a \in Attempts : Lost(a) ~> (~ Lost(a) \/ ~ present \/ newest # a \/ HeldUp)
=============================================================================
