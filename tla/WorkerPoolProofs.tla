-------------------------- MODULE WorkerPoolProofs --------------------------
(***************************************************************************)
(* What holds of the pool's device however many attempts overlap and       *)
(* however much goes wrong, without any fairness.                          *)
(***************************************************************************)
EXTENDS WorkerPool, TLAPS

PCs   == {"idle", "add", "adding", "take", "stopping", "scan",
          "handover", "wait", "check", "finish"}
Nexts == {"idle", "add", "handover", "wait", "check"}
Jobs  == [pc : PCs, next : Nexts, worker : Attempts \cup {None}, owns : BOOLEAN]

\* Where a process goes, and that the others stay.
LEMMA GoesThere ==
  ASSUME job \in [Processes -> Jobs], NEW p \in Processes, NEW l \in PCs, Goes(p, l)
  PROVE  /\ job' \in [Processes -> Jobs]
         /\ job'[p].pc = l /\ job'[p].next = "idle" /\ job'[p].worker = None /\ ~ job'[p].owns
         /\ \A q \in Processes : q # p => job'[q] = job[q]
BY DEF Goes, Idle, Jobs, PCs, Nexts, Attempts, None

LEMMA RemovesNext ==
  ASSUME job \in [Processes -> Jobs], NEW p \in Processes, NEW l \in Nexts, Removes(p, l)
  PROVE  /\ job' \in [Processes -> Jobs]
         /\ job'[p].pc = "take" /\ job'[p].next = l /\ job'[p].worker = None /\ ~ job'[p].owns
         /\ \A q \in Processes : q # p => job'[q] = job[q]
BY DEF Removes, Idle, Jobs, PCs, Nexts, Attempts, None

LEMMA JobsTyped == TypeOK => job \in [Processes -> Jobs]
BY DEF TypeOK, Jobs, PCs, Nexts

\* The end of an attempt frees the callers that waited for it.
LEMMA EndsThere ==
  ASSUME job \in [Processes -> Jobs], NEW a \in Attempts, Ends(a)
  PROVE  /\ job' \in [Processes -> Jobs]
         /\ \A q \in Processes :
              \/ job'[q] = job[q]
              \/ /\ At(q, "adding") /\ job'[q].pc \in {"check", "idle"}
                 /\ job'[q].next = "idle" /\ ~ job'[q].owns /\ job'[q].worker = None
BY DEF Ends, AfterScan, At, Idle, Jobs, PCs, Nexts, Attempts, None, Processes

-----------------------------------------------------------------------------
(* Types *)

LEMMA InitTyped == Init => TypeOK
<1> SUFFICES ASSUME Init PROVE TypeOK
  OBVIOUS
<1>1. job \in [Processes -> Jobs]
  BY DEF Init, Idle, Jobs, PCs, Nexts
<1>2. 0 \in 0 .. Rounds /\ 0 \in 0 .. MaxTroubles
  BY PoolAssumption
<1> QED BY <1>1, <1>2 DEF Init, TypeOK, Jobs, PCs, Nexts

LEMMA StepTyped == TypeOK /\ [Next]_vars => TypeOK'
<1> SUFFICES ASSUME TypeOK, [Next]_vars PROVE TypeOK'
  OBVIOUS
<1>j. job \in [Processes -> Jobs]
  BY JobsTyped
<1> USE DEF TypeOK
<1>jt. job' \in [Processes -> Jobs] <=>
         job' \in [Processes -> [pc : {"idle", "add", "adding", "take", "stopping", "scan",
                                       "handover", "wait", "check", "finish"},
                                 next : {"idle", "add", "handover", "wait", "check"},
                                 worker : Attempts \cup {None}, owns : BOOLEAN]]
  BY DEF Jobs, PCs, Nexts
<1>c. {"recovery", "request"} = Processes /\ \A p \in Processes : AfterScan(p) \in PCs
  BY DEF Processes, AfterScan, PCs
<1>e. \A a \in Attempts : Ends(a) =>
         /\ boot' \in [Attempts -> {"none", "probing", "built", "checked", "starting"}]
         /\ overdue' \subseteq Attempts /\ rebuilding' \in BOOLEAN
         /\ token' \in Attempts \cup {None} /\ job' \in [Processes -> Jobs]
  BY <1>j, EndsThere DEF Ends
<1>b. \A a \in Attempts : AttemptBegins(a) =>
         /\ boot' \in [Attempts -> {"none", "probing", "built", "checked", "starting"}]
         /\ rebuilding' \in BOOLEAN /\ token' \in Attempts \cup {None}
  BY DEF AttemptBegins
<1>t. Trouble => troubles' \in 0 .. MaxTroubles
  BY PoolAssumption DEF Trouble
<1>1. ASSUME NEW a \in Attempts, ProbeFails(a) PROVE TypeOK'
  BY <1>1, <1>e, <1>t, <1>jt DEF ProbeFails, recoverVs
<1>2. ASSUME NEW a \in Attempts, AssignGeneration(a) PROVE TypeOK'
  BY <1>2 DEF AssignGeneration, Continues, recoverVs, outside
<1>3. ASSUME NEW a \in Attempts, CheckCurrent(a) PROVE TypeOK'
  BY <1>3, <1>e, <1>jt DEF CheckCurrent, Continues, recoverVs, outside
<1>4. ASSUME NEW a \in Attempts, Register(a) PROVE TypeOK'
  BY <1>4, <1>e, <1>jt DEF Register, Continues, recoverVs, outside
<1>5. ASSUME NEW a \in Attempts, StartReturns(a) PROVE TypeOK'
  <2>1. /\ core' \in [Attempts -> {"none", "opening", "idle", "up", "lost", "over", "late"}]
        /\ workers' \in Attempts \cup {None} /\ troubles' \in 0 .. MaxTroubles
    BY <1>5, <1>t DEF StartReturns
  <2> QED BY <1>5, <2>1, <1>e, <1>jt DEF StartReturns, recoverVs
<1>6. ASSUME NEW a \in Attempts, Watchdog(a) PROVE TypeOK'
  BY <1>6, <1>t DEF Watchdog, recoverVs
<1>7. ASSUME NEW a \in Attempts, Retry(a) \/ Dies(a) \/ Revives(a) \/ Exhausts(a) PROVE TypeOK'
  <2>1. /\ core' \in [Attempts -> {"none", "opening", "idle", "up", "lost", "over", "late"}]
        /\ active' \in BOOLEAN /\ scheduled' \subseteq Kinds /\ troubles' \in 0 .. MaxTroubles
    BY <1>7, <1>t DEF Retry, Dies, Revives, Exhausts, Schedules, recoverVs, outside, Kinds
  <2> QED BY <1>7, <2>1 DEF Retry, Dies, Revives, Exhausts, control, attemptVs, recoverVs, outside
<1>8. ASSUME NEW p \in Processes, Add(p) PROVE TypeOK'
  <2>1. job' \in [Processes -> Jobs]
    <3>1. CASE \E a \in Attempts : job' = [job EXCEPT ![p] = [Idle EXCEPT !.pc = "adding", !.worker = a]]
      <4>1. \A a \in Attempts : [Idle EXCEPT !.pc = "adding", !.worker = a] \in Jobs
        BY DEF Idle, Jobs, PCs, Nexts
      <4> QED BY <3>1, <4>1, <1>j
    <3>2. CASE Goes(p, AfterScan(p))
      BY <3>2, <1>j, <1>c, GoesThere
    <3> QED BY <1>8, <3>1, <3>2 DEF Add
  <2> QED BY <1>8, <2>1, <1>b, <1>jt DEF Add, recoverVs, outside
<1>9. ASSUME NEW p \in Processes, Take(p) PROVE TypeOK'
  <2>1. job' \in [Processes -> Jobs]
    <3>1. job[p].next \in PCs
      BY <1>j DEF Jobs, PCs, Nexts
    <3>2. CASE workers # None
      BY <3>2, <1>9, <1>j DEF Take, Jobs, PCs
    <3>3. CASE workers = None
      BY <3>3, <1>9, <3>1, <1>j, GoesThere DEF Take
    <3> QED BY <3>2, <3>3
  <2> QED BY <1>9, <2>1, <1>jt DEF Take, attemptVs, recoverVs, outside
<1>10. ASSUME NEW p \in Processes, Stop(p) PROVE TypeOK'
  <2>1. job' \in [Processes -> Jobs]
    BY <1>10, <1>j, GoesThere DEF Stop, Jobs, PCs, Nexts
  <2>2. core' \in [Attempts -> {"none", "opening", "idle", "up", "lost", "over", "late"}]
    BY <1>10 DEF Stop
  <2> QED BY <1>10, <2>1, <2>2, <1>jt DEF Stop, attemptVs, recoverVs, outside
<1>11. ASSUME NEW p \in Processes, Scan(p) PROVE TypeOK'
  <2>1. AfterScan(p) \in Nexts /\ AfterScan(p) \in PCs /\ "add" \in PCs /\ "add" \in Nexts
    BY DEF AfterScan, Nexts, PCs
  <2>2. job' \in [Processes -> Jobs]
    BY <1>11, <2>1, <1>j, GoesThere, RemovesNext DEF Scan
  <2> QED BY <1>11, <2>2, <1>jt DEF Scan, control, attemptVs, recoverVs, outside
<1>12. CASE RescanAndReconnect \/ RebuildWorker \/ Handover
  <2>1. job' \in [Processes -> Jobs]
    BY <1>12, <1>j, <1>c, GoesThere, RemovesNext DEF RescanAndReconnect, RebuildWorker, Handover, PCs, Nexts
  <2> QED BY <1>12, <2>1, <1>jt, <1>t DEF RescanAndReconnect, RebuildWorker, Handover,
                                         control, attemptVs, recoverVs, outside
<1>13. ASSUME NEW k \in Kinds, Scheduled(k) PROVE TypeOK'
  <2>1. job' \in [Processes -> Jobs]
    BY <1>13, <1>j, <1>c, RemovesNext DEF Scheduled, RecoveryBegins, RecoveryRefused, Nexts
  <2>2. rounds' \in 0 .. Rounds
    BY <1>13, PoolAssumption DEF Scheduled, RecoveryBegins, RecoveryRefused
  <2> QED BY <1>13, <2>1, <2>2, <1>jt DEF Scheduled, RecoveryBegins, RecoveryRefused, control, attemptVs, outside
<1>14. CASE Recovery
  <2>1. job' \in [Processes -> Jobs]
    BY <1>14, <1>j, <1>c, GoesThere, RemovesNext
       DEF Recovery, RecoveryRound, RecoveryChecks, RecoveryEnds, PCs, Nexts
  <2>2. rounds' \in 0 .. Rounds
    BY <1>14, PoolAssumption DEF Recovery, RecoveryRound, RecoveryChecks, RecoveryEnds, recoverVs
  <2> QED BY <1>14, <2>1, <2>2, <1>jt
          DEF Recovery, RecoveryRound, RecoveryChecks, RecoveryEnds, control, attemptVs, recoverVs, outside
<1>15. CASE Finish \/ TickEvicts \/ TickStarts
  BY <1>15, <1>b, <1>t DEF Finish, TickEvicts, TickStarts, Schedules, Kinds, control, attemptVs, recoverVs, outside
<1>16. CASE Unplug \/ Plug \/ ManualReboot
  BY <1>16, <1>t DEF Unplug, Plug, ManualReboot, Kinds, control, attemptVs, recoverVs
<1>17. CASE UNCHANGED vars
  BY <1>17 DEF vars, control, attemptVs, recoverVs, outside
<1> QED
  BY <1>1, <1>2, <1>3, <1>4, <1>5, <1>6, <1>7, <1>8, <1>9, <1>10, <1>11, <1>12, <1>13, <1>14,
     <1>15, <1>16, <1>17 DEF Next, Attempt, Working

(* Every variable keeps its type.                                          *)
THEOREM TypeCorrect == Spec => []TypeOK
BY InitTyped, StepTyped, PTL DEF Spec

-----------------------------------------------------------------------------
(* The order in which the recovery and a request go about                  *)

\* The recovery is at work only while it holds its flag, only a removal knows
\* what comes next, and only a started attempt is overdue.
Orderly ==
  /\ ~ recovering => At("recovery", "idle")
  /\ \A p \in Processes : job[p].pc \notin {"take", "stopping"} => job[p].next = "idle"
  /\ \A a \in overdue : Begun(a)

LEMMA StepOrderly == TypeOK /\ Orderly /\ [Next]_vars => Orderly'
<1> SUFFICES ASSUME TypeOK, Orderly, [Next]_vars PROVE Orderly'
  OBVIOUS
<1>j. job \in [Processes -> Jobs]
  BY JobsTyped
<1>p. "recovery" \in Processes /\ "request" \in Processes
  BY DEF Processes
<1> USE DEF Orderly, At, Begun
<1>l. ASSUME NEW p \in Processes, NEW l \in PCs, Goes(p, l)
      PROVE  /\ job'[p].pc = l /\ job'[p].next = "idle"
             /\ \A q \in Processes : q # p => job'[q] = job[q]
  BY <1>l, <1>j, GoesThere
<1>m. ASSUME NEW p \in Processes, NEW l \in Nexts, Removes(p, l)
      PROVE  /\ job'[p].pc = "take" /\ job'[p].next = l
             /\ \A q \in Processes : q # p => job'[q] = job[q]
  BY <1>m, <1>j, RemovesNext
<1>n. "idle" \in PCs /\ Nexts \subseteq PCs /\ {"scan", "finish"} \subseteq PCs
      /\ {"add", "handover", "wait"} \subseteq Nexts
      /\ \A p \in Processes : AfterScan(p) \in Nexts /\ job[p].next \in Nexts
  BY <1>j DEF PCs, Nexts, AfterScan, Jobs
<1>e. \A a \in Attempts : Ends(a) =>
        /\ \A p \in Processes : job'[p] = job[p]
              \/ (job[p].pc = "adding" /\ job'[p].next = "idle")
        /\ \A b \in overdue' : boot'[b] # "none"
  BY <1>j, EndsThere DEF Ends, TypeOK
<1>b. \A a \in Attempts : AttemptBegins(a) => \A b \in overdue : boot'[b] # "none"
  BY DEF AttemptBegins, TypeOK
<1>1. ASSUME NEW a \in Attempts, Attempt(a) PROVE Orderly'
  <2>1. CASE Ends(a) /\ UNCHANGED recovering
    BY <2>1, <1>e, <1>p
  <2>2. CASE Begun(a) /\ UNCHANGED <<recovering, job>> /\ \E l \in {"built", "checked", "starting"} : Continues(a, l)
    BY <2>2 DEF Continues, TypeOK
  <2>3. CASE ProbeFails(a) \/ StartReturns(a)
    BY <2>3, <2>1 DEF ProbeFails, StartReturns, recoverVs
  <2>4. CASE AssignGeneration(a) \/ CheckCurrent(a) \/ Register(a)
    <3>1. Begun(a) /\ UNCHANGED recovering
      BY <2>4 DEF AssignGeneration, CheckCurrent, Register, recoverVs
    <3>2. Ends(a) \/ \E l \in {"built", "checked", "starting"} : Continues(a, l)
      BY <2>4 DEF AssignGeneration, CheckCurrent, Register
    <3> QED BY <3>1, <3>2, <2>1, <2>2 DEF Continues
  <2> QED BY <1>1, <2>3, <2>4 DEF Attempt
<1>2. ASSUME NEW a \in Attempts, Watchdog(a) \/ Retry(a) \/ Dies(a) \/ Revives(a) \/ Exhausts(a)
      PROVE Orderly'
  BY <1>2 DEF Watchdog, Retry, Dies, Revives, Exhausts, attemptVs, recoverVs
<1>3. ASSUME NEW p \in Processes, Add(p) PROVE Orderly'
  <2>1. /\ job[p].pc = "add" /\ job'[p].next = "idle" /\ UNCHANGED recovering
        /\ \A q \in Processes : q # p => job'[q] = job[q]
    BY <1>3, <1>l, <1>n, <1>j DEF Add, Idle, recoverVs
  <2>2. \A b \in overdue' : boot'[b] # "none"
    BY <1>3, <1>b DEF Add
  <2> QED BY <2>1, <2>2, <1>p
<1>4. ASSUME NEW p \in Processes, Take(p) PROVE Orderly'
  <2>1. /\ job[p].pc = "take"
        /\ job'[p].pc \in {"take", "stopping"} \/ job'[p].next = "idle"
        /\ \A q \in Processes : q # p => job'[q] = job[q]
    <3>1. CASE workers = None
      BY <3>1, <1>4, <1>l, <1>n DEF Take
    <3>2. CASE workers # None
      BY <3>2, <1>4, <1>j DEF Take, Jobs
    <3> QED BY <3>1, <3>2
  <2> QED BY <1>4, <2>1, <1>p DEF Take, attemptVs, recoverVs
<1>5. ASSUME NEW p \in Processes, Stop(p) \/ Scan(p) PROVE Orderly'
  <2>1. /\ job[p].pc \in {"stopping", "scan"}
        /\ job'[p].pc = "take" \/ job'[p].next = "idle"
        /\ \A q \in Processes : q # p => job'[q] = job[q]
    BY <1>5, <1>l, <1>m, <1>n DEF Stop, Scan
  <2> QED BY <1>5, <2>1, <1>p DEF Stop, Scan, attemptVs, recoverVs
<1>6. CASE RescanAndReconnect \/ RebuildWorker \/ Handover
  <2>1. /\ job'["request"].pc = "take" \/ job'["request"].next = "idle"
        /\ job'["recovery"] = job["recovery"]
    BY <1>6, <1>l, <1>m, <1>n, <1>p DEF RescanAndReconnect, RebuildWorker, Handover
  <2> QED BY <1>6, <2>1 DEF RescanAndReconnect, RebuildWorker, Handover, Processes, attemptVs, recoverVs
<1>7. ASSUME NEW k \in Kinds, Scheduled(k) PROVE Orderly'
  BY <1>7, <1>m, <1>n, <1>p DEF Scheduled, RecoveryBegins, RecoveryRefused, attemptVs
<1>8. CASE Recovery
  <2>1. /\ job["recovery"].pc # "idle"
        /\ job'["recovery"].pc = "take" \/ job'["recovery"].next = "idle"
        /\ job'["request"] = job["request"]
        /\ ~ recovering' => job'["recovery"].pc = "idle"
    BY <1>8, <1>l, <1>m, <1>n, <1>p
       DEF Recovery, RecoveryRound, RecoveryChecks, RecoveryEnds, recoverVs
  <2>2. UNCHANGED attemptVs
    BY <1>8 DEF Recovery, RecoveryRound, RecoveryChecks, RecoveryEnds
  <2>3. \A q \in Processes : q = "recovery" \/ q = "request"
    BY DEF Processes
  <2> QED BY <2>1, <2>2, <2>3, <1>p DEF attemptVs
<1>9. CASE Finish \/ TickEvicts \/ TickStarts
  BY <1>9, <1>b DEF Finish, TickEvicts, TickStarts, attemptVs, recoverVs
<1>10. CASE Unplug \/ Plug \/ ManualReboot
  BY <1>10 DEF Unplug, Plug, ManualReboot, attemptVs, recoverVs
<1>11. CASE UNCHANGED vars
  BY <1>11 DEF vars, attemptVs, recoverVs
<1> QED
  BY <1>1, <1>2, <1>3, <1>4, <1>5, <1>6, <1>7, <1>8, <1>9, <1>10, <1>11 DEF Next, Working

-----------------------------------------------------------------------------
(* The flag and the controller's event                                     *)

Owns(p) == At(p, "stopping") /\ job[p].owns
Hands   == At("request", "handover") \/ job["request"].next = "handover"

LEMMA StepFlag ==
  TypeOK /\ Orderly /\ FlagIsReleased /\ [Next]_vars => FlagIsReleased'
<1> SUFFICES ASSUME TypeOK, Orderly, FlagIsReleased, [Next]_vars PROVE FlagIsReleased'
  OBVIOUS
<1>j. job \in [Processes -> Jobs]
  BY JobsTyped
<1>p. "recovery" \in Processes /\ "request" \in Processes
      /\ \A q \in Processes : q = "recovery" \/ q = "request"
  BY DEF Processes
<1>g. ASSUME rebuilding' => rebuilding, token' = token, token # None /\ token \in overdue' => token \in overdue,
             \A p \in Processes : Owns(p) => Owns(p)', Hands => Hands'
      PROVE  FlagIsReleased'
  <2>1. CASE token # None /\ token \notin overdue
    BY <1>g, <2>1 DEF FlagIsReleased
  <2>2. CASE \E p \in Processes : Owns(p)
    BY <1>g, <2>2 DEF FlagIsReleased, Owns
  <2>3. CASE Hands
    BY <1>g, <2>3 DEF FlagIsReleased, Hands
  <2> QED BY <1>g, <2>1, <2>2, <2>3 DEF FlagIsReleased, Owns, Hands
<1>h. ASSUME rebuilding' = FALSE \/ (token' # None /\ token' \notin overdue')
      PROVE  FlagIsReleased'
  BY <1>h DEF FlagIsReleased
<1>l. ASSUME NEW p \in Processes, NEW l \in PCs, Goes(p, l)
      PROVE  /\ job'[p].pc = l /\ job'[p].next = "idle"
             /\ \A q \in Processes : q # p => job'[q] = job[q]
  BY <1>l, <1>j, GoesThere
<1>m. ASSUME NEW p \in Processes, NEW l \in Nexts, Removes(p, l)
      PROVE  /\ job'[p].pc = "take" /\ job'[p].next = l
             /\ \A q \in Processes : q # p => job'[q] = job[q]
  BY <1>m, <1>j, RemovesNext
<1>n. {"idle", "wait", "scan", "finish"} \subseteq PCs /\ Nexts \subseteq PCs
      /\ {"add", "handover", "wait"} \subseteq Nexts
      /\ \A p \in Processes : AfterScan(p) \in Nexts /\ job[p].next \in Nexts
  BY <1>j DEF PCs, Nexts, AfterScan, Jobs
\* A process that is at none of the places of an owner may go anywhere.
<1>o. ASSUME NEW p \in Processes, job[p].pc \notin {"take", "stopping", "handover"},
             \A q \in Processes : q # p => job'[q] = job[q]
      PROVE  (\A q \in Processes : Owns(q) => Owns(q)') /\ (Hands => Hands')
  BY <1>o, <1>p DEF Owns, Hands, At, Orderly
<1>e. ASSUME NEW a \in Attempts, Ends(a) PROVE FlagIsReleased'
  <2>1. CASE token = a
    BY <2>1, <1>e, <1>h DEF Ends
  <2>2. CASE token # a
    <3>1. \A q \in Processes : job'[q] = job[q] \/ job[q].pc = "adding"
      BY <1>e, <1>j, EndsThere DEF At
    <3>2. (\A q \in Processes : Owns(q) => Owns(q)') /\ (Hands => Hands')
      BY <3>1, <1>p DEF Owns, Hands, At, Orderly
    <3> QED BY <2>2, <1>e, <3>2, <1>g DEF Ends
  <2> QED BY <2>1, <2>2
<1>b. ASSUME NEW a \in Attempts, AttemptBegins(a), overdue' = overdue PROVE FlagIsReleased'
  BY <1>b, <1>h DEF AttemptBegins, Free, Orderly, TypeOK, Attempts, None
<1>1. ASSUME NEW a \in Attempts, Attempt(a) PROVE FlagIsReleased'
  <2>1. CASE \E l \in {"built", "checked", "starting"} : Continues(a, l)
    BY <2>1, <1>g DEF Continues, Owns, Hands, At
  <2>2. Ends(a) \/ \E l \in {"built", "checked", "starting"} : Continues(a, l)
    BY <1>1 DEF Attempt, ProbeFails, AssignGeneration, CheckCurrent, Register, StartReturns
  <2> QED BY <2>1, <2>2, <1>e
<1>2. ASSUME NEW a \in Attempts, Watchdog(a) PROVE FlagIsReleased'
  <2>1. CASE token = a
    BY <2>1, <1>2, <1>h DEF Watchdog
  <2>2. CASE token # a
    BY <2>2, <1>2, <1>g DEF Watchdog, Owns, Hands, At
  <2> QED BY <2>1, <2>2
<1>3. ASSUME NEW a \in Attempts, Retry(a) \/ Dies(a) \/ Revives(a) \/ Exhausts(a)
      PROVE FlagIsReleased'
  BY <1>3, <1>g DEF Retry, Dies, Revives, Exhausts, control, attemptVs, Owns, Hands, At
<1>4. ASSUME NEW p \in Processes, Add(p) PROVE FlagIsReleased'
  <2>1. CASE \E a \in Attempts : AttemptBegins(a)
    BY <2>1, <1>4, <1>b DEF Add
  <2>2. CASE Goes(p, AfterScan(p)) /\ UNCHANGED <<rebuilding, token, boot>>
    <3>1. \A q \in Processes : q # p => job'[q] = job[q]
      BY <2>2, <1>l, <1>n
    <3> QED BY <3>1, <2>2, <1>4, <1>o, <1>g DEF Add, At
  <2> QED BY <1>4, <2>1, <2>2 DEF Add
<1>5. ASSUME NEW p \in Processes, Take(p) PROVE FlagIsReleased'
  <2>1. CASE workers = None
    <3>1. /\ job'[p].pc = job[p].next /\ \A q \in Processes : q # p => job'[q] = job[q]
          /\ job[p].pc = "take" /\ UNCHANGED <<rebuilding, token, overdue>>
      BY <2>1, <1>5, <1>l, <1>n DEF Take, At, attemptVs
    <3>2. (\A q \in Processes : Owns(q) => Owns(q)') /\ (Hands => Hands')
      BY <3>1, <1>p DEF Owns, Hands, At
    <3> QED BY <3>1, <3>2, <1>g
  <2>2. CASE workers # None
    <3>1. /\ job'[p].pc = "stopping" /\ job'[p].next = job[p].next
          /\ job'[p].owns = ~ rebuilding
          /\ \A q \in Processes : q # p => job'[q] = job[q]
          /\ job[p].pc = "take" /\ UNCHANGED <<token, overdue>>
      BY <2>2, <1>5, <1>j DEF Take, At, attemptVs, Jobs
    <3>2. (\A q \in Processes : Owns(q) => Owns(q)') /\ (Hands => Hands')
      BY <3>1, <1>p DEF Owns, Hands, At
    <3>3. CASE rebuilding
      BY <3>3, <3>1, <3>2, <1>g
    <3>4. CASE ~ rebuilding
      BY <3>4, <3>1 DEF FlagIsReleased, At
    <3> QED BY <3>3, <3>4
  <2> QED BY <2>1, <2>2
<1>6. ASSUME NEW p \in Processes, Stop(p) PROVE FlagIsReleased'
  <2>1. /\ job'[p].pc = job[p].next /\ \A q \in Processes : q # p => job'[q] = job[q]
        /\ job[p].pc = "stopping" /\ UNCHANGED <<token, overdue>>
        /\ rebuilding' = (rebuilding /\ ~ job[p].owns)
    BY <1>6, <1>l, <1>n DEF Stop, At, attemptVs
  <2>2. CASE job[p].owns
    BY <2>1, <2>2, <1>h
  <2>3. CASE ~ job[p].owns
    <3>1. (\A q \in Processes : Owns(q) => Owns(q)') /\ (Hands => Hands')
      BY <2>1, <2>3, <1>p DEF Owns, Hands, At
    <3> QED BY <2>1, <3>1, <1>g
  <2> QED BY <2>2, <2>3
<1>7. ASSUME NEW p \in Processes, Scan(p) PROVE FlagIsReleased'
  <2>1. \A q \in Processes : q # p => job'[q] = job[q]
    BY <1>7, <1>l, <1>m, <1>n DEF Scan
  <2> QED BY <2>1, <1>7, <1>o, <1>g DEF Scan, At, control, attemptVs
<1>8. CASE RescanAndReconnect
  <2>1. \A q \in Processes : q # "request" => job'[q] = job[q]
    BY <1>8, <1>l, <1>n, <1>p DEF RescanAndReconnect
  <2> QED BY <2>1, <1>8, <1>o, <1>p, <1>g DEF RescanAndReconnect, At, control, attemptVs
<1>9. CASE RebuildWorker
  BY <1>9, <1>m, <1>n, <1>p DEF RebuildWorker, FlagIsReleased
<1>10. CASE Handover
  BY <1>10, <1>h DEF Handover
<1>11. ASSUME NEW k \in Kinds, Scheduled(k) PROVE FlagIsReleased'
  <2>1. CASE RecoveryBegins(k)
    <3>1. \A q \in Processes : q # "recovery" => job'[q] = job[q]
      BY <2>1, <1>m, <1>n, <1>p DEF RecoveryBegins
    <3>2. job["recovery"].pc = "idle"
      BY <2>1 DEF RecoveryBegins, Orderly, At
    <3> QED BY <3>1, <3>2, <2>1, <1>o, <1>p, <1>g DEF RecoveryBegins, control, attemptVs
  <2>2. CASE RecoveryRefused(k)
    BY <2>2, <1>g DEF RecoveryRefused, control, attemptVs, Owns, Hands, At
  <2> QED BY <1>11, <2>1, <2>2 DEF Scheduled
<1>12. CASE Recovery
  <2>1. \A q \in Processes : q # "recovery" => job'[q] = job[q]
    BY <1>12, <1>l, <1>m, <1>n, <1>p DEF Recovery, RecoveryRound, RecoveryChecks, RecoveryEnds
  <2>2. /\ job["recovery"].pc \in {"wait", "check", "finish"}
        /\ UNCHANGED <<rebuilding, token, overdue>>
    BY <1>12 DEF Recovery, RecoveryRound, RecoveryChecks, RecoveryEnds, At, control, attemptVs
  <2> QED BY <2>1, <2>2, <1>o, <1>p, <1>g
<1>13. CASE TickStarts
  BY <1>13, <1>b DEF TickStarts
<1>14. CASE Finish \/ TickEvicts \/ Unplug \/ Plug \/ ManualReboot \/ UNCHANGED vars
  BY <1>14, <1>g DEF Finish, TickEvicts, Unplug, Plug, ManualReboot, vars, control, attemptVs, Owns, Hands, At
<1> QED
  BY <1>1, <1>2, <1>3, <1>4, <1>5, <1>6, <1>7, <1>8, <1>9, <1>10, <1>11, <1>12, <1>13, <1>14
  DEF Next, Working

LEMMA StepActive == ActiveHasOwner /\ [Next]_vars => ActiveHasOwner'
<1> SUFFICES ASSUME ActiveHasOwner, [Next]_vars PROVE ActiveHasOwner'
  OBVIOUS
<1> USE DEF ActiveHasOwner
<1>1. ASSUME NEW a \in Attempts, Attempt(a) \/ Watchdog(a) \/ Retry(a) \/ Dies(a) \/ Revives(a)
      PROVE ActiveHasOwner'
  <2>1. UNCHANGED recoverVs
    BY <1>1 DEF Attempt, ProbeFails, AssignGeneration, CheckCurrent, Register, StartReturns,
                Watchdog, Retry, Dies, Revives
  <2> QED BY <2>1 DEF recoverVs
<1>2. ASSUME NEW a \in Attempts, Exhausts(a) PROVE ActiveHasOwner'
  BY <1>2 DEF Exhausts, Schedules
<1>3. ASSUME NEW p \in Processes, Working(p) PROVE ActiveHasOwner'
  BY <1>3 DEF Working, Add, Take, Stop, Scan, recoverVs
<1>4. ASSUME NEW k \in Kinds, Scheduled(k) PROVE ActiveHasOwner'
  BY <1>4 DEF Scheduled, RecoveryBegins, RecoveryRefused, Kinds
<1>5. CASE Recovery \/ Finish
  BY <1>5 DEF Recovery, RecoveryRound, RecoveryChecks, RecoveryEnds, Finish, recoverVs
<1>6. CASE RescanAndReconnect \/ RebuildWorker \/ Handover \/ TickStarts \/ Unplug \/ Plug \/ UNCHANGED vars
  BY <1>6 DEF RescanAndReconnect, RebuildWorker, Handover, TickStarts, Unplug, Plug, vars, recoverVs
<1>7. CASE TickEvicts \/ ManualReboot
  BY <1>7 DEF TickEvicts, Schedules, ManualReboot
<1> QED BY <1>1, <1>2, <1>3, <1>4, <1>5, <1>6, <1>7 DEF Next

-----------------------------------------------------------------------------
(* The cores                                                               *)

Stops(p, a) == At(p, "stopping") /\ job[p].worker = a

\* Until it is registered an attempt has no core that is open and nobody stops
\* its worker; while its start runs the core is opening, or was when its worker
\* was stopped; a worker is registered or stopped, and stopped once.
Sequenced ==
  \A a \in Attempts :
    /\ boot[a] \in {"probing", "built", "checked"} =>
         core[a] \in {"none", "late"} /\ workers # a /\ \A p \in Processes : ~ Stops(p, a)
    /\ boot[a] = "starting" => core[a] \in {"opening", "late"}
    /\ core[a] = "late" \/ workers = a => \A p \in Processes : ~ Stops(p, a)
    /\ core[a] = "late" => workers # a
    /\ \A p, q \in Processes : Stops(p, a) /\ Stops(q, a) => p = q

Held(a) == core[a] \in {"opening", "idle", "up", "lost", "over"}

LEMMA StepCores ==
  TypeOK /\ Orderly /\ Sequenced /\ CoreHasOwner /\ [Next]_vars => (Sequenced /\ CoreHasOwner)'
<1> SUFFICES ASSUME TypeOK, Orderly, Sequenced, CoreHasOwner, [Next]_vars
             PROVE  (Sequenced /\ CoreHasOwner)'
  OBVIOUS
<1>j. job \in [Processes -> Jobs]
  BY JobsTyped
<1>y. /\ workers \in Attempts \cup {None} /\ None \notin Attempts
      /\ boot \in [Attempts -> {"none", "probing", "built", "checked", "starting"}]
      /\ core \in [Attempts -> {"none", "opening", "idle", "up", "lost", "over", "late"}]
  BY PoolAssumption DEF TypeOK, None, Attempts
<1>p. "recovery" \in Processes /\ "request" \in Processes
  BY DEF Processes
<1>l. ASSUME NEW p \in Processes, NEW l \in PCs, Goes(p, l)
      PROVE  job'[p].pc = l /\ \A q \in Processes : q # p => job'[q] = job[q]
  BY <1>l, <1>j, GoesThere
<1>m. ASSUME NEW p \in Processes, NEW l \in Nexts, Removes(p, l)
      PROVE  job'[p].pc = "take" /\ \A q \in Processes : q # p => job'[q] = job[q]
  BY <1>m, <1>j, RemovesNext
<1>n. {"idle", "wait", "scan", "finish"} \subseteq PCs /\ Nexts \subseteq PCs
      /\ {"add", "handover", "wait"} \subseteq Nexts /\ "stopping" \notin Nexts
      /\ \A p \in Processes : AfterScan(p) \in Nexts /\ job[p].next \in Nexts
  BY <1>j DEF PCs, Nexts, AfterScan, Jobs
\* Nobody starts or ends stopping a worker.
<1>g. ASSUME NEW p \in Processes, job[p].pc # "stopping", job'[p].pc # "stopping",
             \A q \in Processes : q # p => job'[q] = job[q]
      PROVE  \A q \in Processes, a \in Attempts : Stops(q, a)' <=> Stops(q, a)
  BY <1>g DEF Stops, At
\* Steps that leave the stopping alone.
<1>k. ASSUME \A q \in Processes, a \in Attempts : Stops(q, a)' <=> Stops(q, a),
             workers' = workers,
             \A a \in Attempts :
               /\ boot'[a] = boot[a] \/ boot'[a] = "none"
                  \/ (boot[a] = "none" /\ boot'[a] = "probing" /\ ~ Held(a) /\ workers # a
                       /\ \A q \in Processes : ~ Stops(q, a))
                  \/ (boot[a] \in {"probing", "built"} /\ boot'[a] \in {"built", "checked"})
               /\ core'[a] = core[a] \/ (Held(a) /\ Held(a)' /\ boot'[a] = "none")
      PROVE  (Sequenced /\ CoreHasOwner)'
  <2>1. ASSUME NEW a \in Attempts
        PROVE  Held(a) => workers = a \/ \E q \in Processes : Stops(q, a)
    BY DEF CoreHasOwner, Held, Stops
  <2>2. ASSUME NEW a \in Attempts, Held(a)'
        PROVE  workers' = a \/ \E q \in Processes : Stops(q, a)'
    <3>1. Held(a)
      BY <1>k, <2>2 DEF Held
    <3> QED BY <3>1, <2>1, <1>k
  <2>3. CoreHasOwner'
    BY <2>2 DEF CoreHasOwner, Held, Stops
  <2>4. Sequenced'
    BY <1>k, <1>y DEF Sequenced, Held
  <2> QED BY <2>3, <2>4
\* A process moves elsewhere, or an attempt ends: nobody starts or ends stopping.
<1>s. ASSUME NEW p \in Processes, job[p].pc # "stopping",
             \/ \E l \in PCs \ {"stopping"} : Goes(p, l)
             \/ \E l \in Nexts : Removes(p, l)
      PROVE  \A q \in Processes, a \in Attempts : Stops(q, a)' <=> Stops(q, a)
  BY <1>s, <1>l, <1>m, <1>g
<1>e. ASSUME NEW a \in Attempts, Ends(a)
      PROVE  /\ \A q \in Processes, b \in Attempts : Stops(q, b)' <=> Stops(q, b)
             /\ boot' = [boot EXCEPT ![a] = "none"]
  <2>1. ASSUME NEW q \in Processes
        PROVE  job'[q] = job[q] \/ (job[q].pc = "adding" /\ job'[q].pc # "stopping")
    <3>1. job'[q] = job[q] \/ (job[q].pc = "adding" /\ job'[q].pc \in {"check", "idle"})
      BY <1>e, <1>j, EndsThere DEF At
    <3> QED BY <3>1
  <2> QED BY <2>1, <1>e DEF Stops, At, Ends
<1>b. ASSUME NEW a \in Attempts, AttemptBegins(a)
      PROVE  /\ boot[a] = "none" /\ boot' = [boot EXCEPT ![a] = "probing"] /\ ~ Held(a)
             /\ workers # a /\ \A q \in Processes : ~ Stops(q, a)
  BY <1>b, <1>y DEF AttemptBegins, Free, Begun, Held, Stops
<1>c. ASSUME NEW a \in Attempts, core[a] \in {"idle", "up", "lost", "over"} PROVE boot[a] = "none"
  BY <1>c, <1>y DEF Sequenced
<1>1. ASSUME NEW a \in Attempts, ProbeFails(a) PROVE (Sequenced /\ CoreHasOwner)'
  BY <1>1, <1>e, <1>k, <1>y DEF ProbeFails
<1>2. ASSUME NEW a \in Attempts, AssignGeneration(a) PROVE (Sequenced /\ CoreHasOwner)'
  BY <1>2, <1>k, <1>y DEF AssignGeneration, Continues, Stops, At
<1>3. ASSUME NEW a \in Attempts, CheckCurrent(a) PROVE (Sequenced /\ CoreHasOwner)'
  <2>1. CASE Ends(a)
    BY <2>1, <1>3, <1>e, <1>k, <1>y DEF CheckCurrent
  <2>2. CASE Continues(a, "checked")
    BY <2>2, <1>3, <1>k, <1>y DEF CheckCurrent, Continues, Stops, At
  <2> QED BY <1>3, <2>1, <2>2 DEF CheckCurrent
<1>4. ASSUME NEW a \in Attempts, Register(a) PROVE (Sequenced /\ CoreHasOwner)'
  <2>1. CASE workers # None
    BY <2>1, <1>4, <1>e, <1>k, <1>y DEF Register
  <2>2. CASE workers = None
    <3>1. /\ boot[a] = "checked" /\ workers' = a /\ core' = [core EXCEPT ![a] = "opening"]
          /\ boot' = [boot EXCEPT ![a] = "starting"]
          /\ \A q \in Processes, b \in Attempts : Stops(q, b)' <=> Stops(q, b)
      BY <2>2, <1>4 DEF Register, Continues, Stops, At
    <3>2. Sequenced'
      BY <3>1, <2>2, <1>y DEF Sequenced
    <3>3. CoreHasOwner'
      BY <3>1, <2>2, <1>y DEF CoreHasOwner, Stops
    <3> QED BY <3>2, <3>3
  <2> QED BY <2>1, <2>2
<1>5. ASSUME NEW a \in Attempts, StartReturns(a) PROVE (Sequenced /\ CoreHasOwner)'
  <2>1. CASE workers' = workers /\ (core' = core \/ (core[a] # "late" /\ core' \in {[core EXCEPT ![a] = "up"], [core EXCEPT ![a] = "idle"]}))
    <3>1. core[a] \in {"opening", "late"}
      BY <1>5 DEF StartReturns, Sequenced
    <3> QED BY <2>1, <3>1, <1>5, <1>e, <1>k, <1>y DEF StartReturns, Held
  <2>2. CASE workers' = (IF workers = a THEN None ELSE workers) /\ core' = [core EXCEPT ![a] = "none"]
    <3>1. /\ boot' = [boot EXCEPT ![a] = "none"]
          /\ \A q \in Processes, b \in Attempts : Stops(q, b)' <=> Stops(q, b)
      BY <1>5, <1>e DEF StartReturns
    <3>2. Sequenced'
      BY <3>1, <2>2, <1>y DEF Sequenced
    <3>3. CoreHasOwner'
      BY <3>1, <2>2, <1>y DEF CoreHasOwner, Stops
    <3> QED BY <3>2, <3>3
  <2> QED BY <1>5, <2>1, <2>2 DEF StartReturns
<1>6. ASSUME NEW a \in Attempts, Watchdog(a) PROVE (Sequenced /\ CoreHasOwner)'
  BY <1>6, <1>k DEF Watchdog, Stops, At
<1>7. ASSUME NEW a \in Attempts, Retry(a) \/ Dies(a) \/ Revives(a) \/ Exhausts(a)
      PROVE (Sequenced /\ CoreHasOwner)'
  <2>1. /\ workers' = workers /\ boot' = boot /\ job' = job
        /\ core[a] \in {"idle", "opening", "up", "lost"} /\ boot[a] = "none"
        /\ \E v \in {"opening", "idle", "up", "lost", "over"} : core' = [core EXCEPT ![a] = v]
    BY <1>7, <1>c DEF Retry, Dies, Revives, Exhausts, attemptVs
  <2> QED BY <2>1, <1>k, <1>y DEF Held, Stops, At
<1>8. ASSUME NEW p \in Processes, Add(p) PROVE (Sequenced /\ CoreHasOwner)'
  <2>1. CASE \E a \in Attempts :
               AttemptBegins(a) /\ job' = [job EXCEPT ![p] = [Idle EXCEPT !.pc = "adding", !.worker = a]]
    <3>1. job'[p].pc # "stopping" /\ \A q \in Processes : q # p => job'[q] = job[q]
      BY <2>1, <1>j DEF Idle
    <3>2. \A q \in Processes, a \in Attempts : Stops(q, a)' <=> Stops(q, a)
      BY <3>1, <1>8, <1>g DEF Add, At
    <3> QED BY <2>1, <3>2, <1>8, <1>b, <1>k, <1>y DEF Add
  <2>2. CASE Goes(p, AfterScan(p)) /\ UNCHANGED <<rebuilding, token, boot>>
    BY <2>2, <1>8, <1>s, <1>n, <1>k DEF Add, At
  <2> QED BY <1>8, <2>1, <2>2 DEF Add
<1>9. ASSUME NEW p \in Processes, Take(p) PROVE (Sequenced /\ CoreHasOwner)'
  <2>1. CASE workers = None
    BY <2>1, <1>9, <1>s, <1>n, <1>k DEF Take, At, attemptVs
  <2>2. CASE workers # None
    <3>1. /\ job[p].pc = "take" /\ job'[p].pc = "stopping" /\ job'[p].worker = workers
          /\ \A q \in Processes : q # p => job'[q] = job[q]
          /\ workers' = None /\ UNCHANGED <<boot, core>>
      BY <2>2, <1>9, <1>j DEF Take, At, attemptVs, Jobs
    <3>2. \A q \in Processes, a \in Attempts :
            Stops(q, a)' <=> (Stops(q, a) \/ (q = p /\ a = workers))
      BY <3>1 DEF Stops, At
    <3>3. Sequenced'
      BY <3>1, <3>2, <2>2, <1>y DEF Sequenced
    <3>4. CoreHasOwner'
      BY <3>1, <3>2, <1>y DEF CoreHasOwner, Stops
    <3> QED BY <3>3, <3>4
  <2> QED BY <2>1, <2>2
<1>10. ASSUME NEW p \in Processes, Stop(p) PROVE (Sequenced /\ CoreHasOwner)'
  <2> DEFINE b == job[p].worker
  <2>1. /\ job[p].pc = "stopping" /\ job'[p].pc # "stopping"
        /\ \A q \in Processes : q # p => job'[q] = job[q]
        /\ workers' = workers /\ UNCHANGED boot
        /\ core' = [core EXCEPT ![b] = IF @ = "opening" THEN "late" ELSE "none"]
    BY <1>10, <1>l, <1>n DEF Stop, At, attemptVs
  <2>2. \A q \in Processes, a \in Attempts : Stops(q, a)' <=> (q # p /\ Stops(q, a))
    BY <2>1 DEF Stops, At
  <2>3. Stops(p, b)
    BY <2>1 DEF Stops, At
  <2> HIDE DEF b
  <2>4. Sequenced'
    BY <2>1, <2>2, <2>3, <1>y DEF Sequenced
  <2>5. \A a \in Attempts : a # b => ~ Stops(p, a)
    BY <2>3 DEF Stops
  <2>6. CoreHasOwner'
    BY <2>1, <2>2, <2>5, <1>y DEF CoreHasOwner, Stops
  <2> QED BY <2>4, <2>6
<1>11. ASSUME NEW p \in Processes, Scan(p) PROVE (Sequenced /\ CoreHasOwner)'
  BY <1>11, <1>s, <1>n, <1>k DEF Scan, At, attemptVs
<1>12. CASE RescanAndReconnect \/ RebuildWorker \/ Handover
  BY <1>12, <1>p, <1>s, <1>n, <1>k DEF RescanAndReconnect, RebuildWorker, Handover, At, attemptVs
<1>13. ASSUME NEW k \in Kinds, Scheduled(k) PROVE (Sequenced /\ CoreHasOwner)'
  <2>1. CASE RecoveryBegins(k)
    BY <2>1, <1>p, <1>s, <1>n, <1>k DEF RecoveryBegins, Orderly, At, attemptVs
  <2>2. CASE RecoveryRefused(k)
    BY <2>2, <1>k DEF RecoveryRefused, Stops, At, attemptVs
  <2> QED BY <1>13, <2>1, <2>2 DEF Scheduled
<1>14. CASE Recovery
  <2>1. UNCHANGED <<workers, boot, core>> /\ job["recovery"].pc # "stopping"
    BY <1>14 DEF Recovery, RecoveryRound, RecoveryChecks, RecoveryEnds, At, attemptVs
  <2>2. \/ \E l \in PCs \ {"stopping"} : Goes("recovery", l)
        \/ \E l \in Nexts : Removes("recovery", l)
    BY <1>14, <1>n DEF Recovery, RecoveryRound, RecoveryChecks, RecoveryEnds
  <2> QED BY <2>1, <2>2, <1>p, <1>s, <1>k
<1>15. CASE TickStarts
  BY <1>15, <1>b, <1>k, <1>y DEF TickStarts, Stops, At
<1>16. CASE Unplug
  <2>1. \A a \in Attempts : core'[a] = core[a] \/ (core[a] = "up" /\ core'[a] = "lost" /\ boot[a] = "none")
    BY <1>16, <1>c DEF Unplug
  <2> QED BY <2>1, <1>16, <1>k DEF Unplug, Held, Stops, At, attemptVs
<1>17. CASE Finish \/ TickEvicts \/ Plug \/ ManualReboot \/ UNCHANGED vars
  BY <1>17, <1>k DEF Finish, TickEvicts, Plug, ManualReboot, vars, attemptVs, Stops, At
<1> QED
  BY <1>1, <1>2, <1>3, <1>4, <1>5, <1>6, <1>7, <1>8, <1>9, <1>10, <1>11, <1>12, <1>13, <1>14,
     <1>15, <1>16, <1>17 DEF Next, Attempt, Working

-----------------------------------------------------------------------------
(* What follows of every behaviour                                         *)

Inv == TypeOK /\ Orderly /\ Sequenced /\ FlagIsReleased /\ ActiveHasOwner /\ CoreHasOwner

LEMMA InitInv == Init => Inv
<1> SUFFICES ASSUME Init PROVE Inv
  OBVIOUS
<1>1. \A p \in Processes : job[p].pc = "idle" /\ job[p].next = "idle"
  BY DEF Init, Idle
<1>2. "recovery" \in Processes
  BY DEF Processes
<1>3. Orderly
  BY <1>1, <1>2 DEF Init, Orderly, At
<1>4. Sequenced /\ CoreHasOwner
  BY <1>1, PoolAssumption DEF Init, Sequenced, CoreHasOwner, Stops, At, Attempts, None
<1>5. FlagIsReleased /\ ActiveHasOwner
  BY DEF Init, FlagIsReleased, ActiveHasOwner
<1> QED BY <1>3, <1>4, <1>5, InitTyped DEF Inv

LEMMA InvHolds == Spec => []Inv
<1>1. Inv /\ [Next]_vars => Inv'
  BY StepTyped, StepOrderly, StepFlag, StepActive, StepCores DEF Inv
<1> QED BY <1>1, InitInv, PTL DEF Spec

(* The flag that keeps a device from being started always has an owner that *)
(* is still to take it back, whoever shared it or took it over.             *)
THEOREM FlagIsReleasedHolds == Spec => []FlagIsReleased
BY InvHolds, PTL DEF Inv

(* The controller never keeps an event that no recovery will finish.        *)
THEOREM ActiveHasOwnerHolds == Spec => []ActiveHasOwner
BY InvHolds, PTL DEF Inv

(* No open core is left that neither the pool nor a removal knows of.       *)
THEOREM CoreHasOwnerHolds == Spec => []CoreHasOwner
BY InvHolds, PTL DEF Inv

=============================================================================
