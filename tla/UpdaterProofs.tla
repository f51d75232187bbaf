--------------------------- MODULE UpdaterProofs ----------------------------
(***************************************************************************)
(* Types, the owner of the update lock, and the survival of a good version *)
(* for any number of releases, crashes and failures.                       *)
(***************************************************************************)
EXTENDS Updater, TLAPS

(* A terminal or later state set by EXCEPT leaves a status well formed and *)
(* keeps its other fields.                                                 *)
LEMMA WithState ==
  ASSUME NEW status \in Status, NEW state \in States
  PROVE  LET changed == [status EXCEPT !.state = state]
         IN  /\ changed \in Status /\ changed.state = state
             /\ changed.target = status.target /\ changed.backup = status.backup
BY DEF Status

LEMMA RecoveredStatus ==
  ASSUME NEW status \in Status
  PROVE  /\ Recovered(status) \in Status
         /\ Recovered(status).backup = status.backup
         /\ Recovered(status).state \notin Transitional
<1>1. CASE status.state \in Transitional
  <2> DEFINE end == IF 0 < status.target /\ status.target <= exe
                      THEN "success" ELSE "failed"
  <2>1. end \in States /\ end \notin Transitional
    BY DEF States, Transitional
  <2>2. Recovered(status) = [status EXCEPT !.state = end]
    BY <1>1 DEF Recovered
  <2> HIDE DEF end
  <2> QED BY <2>1, <2>2, WithState
<1>2. CASE status.state \notin Transitional
  BY <1>2 DEF Recovered
<1> QED BY <1>1, <1>2

LEMMA IdleStatus == Idle \in Status /\ Idle.state = "idle" /\ Idle.backup = 0
BY ReleaseAssumption DEF Idle, Status, States

LEMMA ConcludeStatus ==
  ASSUME TypeOK, NEW state \in States, Conclude(state)
  PROVE  /\ mem' \in Status /\ late' \subseteq Status
         /\ mem'.state = state /\ mem'.target = mem.target /\ mem'.backup = mem.backup
         /\ running' = FALSE /\ late' = late \cup {mem'}
BY WithState DEF Conclude, TypeOK

LEMMA SetStateStatus ==
  ASSUME TypeOK, NEW state \in States, NEW target \in 0 .. LastRelease,
         SetState(state, target)
  PROVE  /\ mem' \in Status /\ mem'.state = state /\ mem'.target = target
         /\ mem'.backup = mem.backup /\ owed' = {mem'} /\ late' = late
         /\ running' = running /\ signalDue' = signalDue
<1>1. [mem EXCEPT !.state = state, !.target = target] \in Status
  BY DEF TypeOK, Status
<1> QED BY <1>1 DEF SetState, TypeOK, Status

LEMMA FailsTypes ==
  ASSUME TypeOK, NEW certainly \in BOOLEAN, Fails(certainly)
  PROVE  troubles' \in 0 .. MaxTroubles /\ faulty' \in BOOLEAN
<1>1. CASE UNCHANGED bad
  BY <1>1 DEF bad, TypeOK
<1>2. CASE troubles < MaxTroubles /\ troubles' = troubles + 1 /\ faulty' = TRUE
  <2>1. troubles \in 0 .. MaxTroubles
    BY DEF TypeOK
  <2> QED BY <1>2, <2>1, TroubleAssumption
<1> QED BY <1>1, <1>2, Zenon DEF Fails

LEMMA WrittenStatus ==
  ASSUME TypeOK, NEW status \in Status, Written(status)
  PROVE  /\ disk' \in {disk, status} /\ disk' \in Status
         /\ troubles' \in 0 .. MaxTroubles /\ faulty' \in BOOLEAN
<1>1. CASE disk' = status /\ UNCHANGED bad
  BY <1>1 DEF bad, TypeOK
<1>2. CASE Fails(FALSE) /\ UNCHANGED disk
  BY <1>2, FailsTypes DEF TypeOK
<1> QED BY <1>1, <1>2 DEF Written

LEMMA DiesTypes ==
  ASSUME TypeOK, Dies, troubles' \in 0 .. MaxTroubles, faulty' \in BOOLEAN
  PROVE  TypeOK'
<1>1. version' = 0 /\ version' \in 0 .. LastRelease /\ rollTo' \in 0 .. LastRelease
  BY ReleaseAssumption DEF Dies
<1>2. mem' \in Status /\ late' \subseteq Status /\ owed' \subseteq Status
  BY IdleStatus DEF Dies, NoGoroutines
<1>3. moved' \in (IF run' \in {"swap", "undo", "installed", "leave"} THEN Versions ELSE {0})
  BY DEF Dies, NoGoroutines
<1> QED BY <1>1, <1>2, <1>3 DEF Dies, NoGoroutines, TypeOK, files

-----------------------------------------------------------------------------
(* Types: the updater's state is well formed at every step.                *)
LEMMA TypesStep == ASSUME TypeOK, [Next]_vars PROVE TypeOK'
<1> USE ReleaseAssumption, TroubleAssumption
<1>1. CASE StartUpdate
  <2>1. [Idle EXCEPT !.state = "checking"] \in Status
    BY IdleStatus, WithState DEF States, Transitional
  <2> QED BY <1>1, <2>1 DEF StartUpdate, TypeOK, files, process, health, outside, bad,
                            Transitional
<1>2. CASE FetchRelease
  <2>1. CASE Finish("failed")
    <3>1. "failed" \in States BY DEF States
    <3> QED BY <1>2, <2>1, <3>1, ConcludeStatus
            DEF FetchRelease, Finish, TypeOK, files, process, health, outside, bad, Versions
  <2>2. CASE SetState("available", latest) /\ run' = "available" /\ moved' = moved
    <3>1. "available" \in States /\ latest \in 0 .. LastRelease
      BY DEF States, Transitional, TypeOK, Versions
    <3> QED BY <1>2, <2>2, <3>1, SetStateStatus
            DEF FetchRelease, RunAt, TypeOK, files, process, health, outside, bad,
                Transitional
  <2> QED BY <1>2, <2>1, <2>2 DEF FetchRelease
<1>3. CASE Proceed
  <2>1. PICK pc \in DOMAIN After :
          RunAt(pc) /\ run' = After[pc] /\ SetState(After[pc], mem.target)
    BY <1>3 DEF Proceed
  <2>2. After[pc] \in Transitional /\ pc \in Transitional
    BY DEF After, Transitional
  <2>3. After[pc] \in States /\ mem.target \in 0 .. LastRelease
    BY <2>2 DEF States, TypeOK, Status
  <2>4. mem' \in Status /\ owed' = {mem'} /\ late' = late /\ running' = running
        /\ signalDue' = signalDue
    BY <2>1, <2>3, SetStateStatus
  <2>5. moved = 0 /\ moved' = 0
    BY <1>3, <2>1, <2>2 DEF Proceed, TypeOK, RunAt, Transitional
  <2> QED BY <1>3, <2>1, <2>2, <2>4, <2>5
          DEF Proceed, TypeOK, files, process, health, outside, bad, Transitional
<1>4. CASE FetchFails
  <2>1. "failed" \in States BY DEF States
  <2> QED BY <1>4, <2>1, ConcludeStatus
          DEF FetchFails, Finish, TypeOK, files, process, health, outside, bad, Versions
<1>5. CASE BackUp
  <2>1. CASE /\ exe # 0
             /\ backups' = backups \cup {exe} /\ exe' = 0
             /\ moved' = exe /\ run' = "swap"
             /\ UNCHANGED <<mem, running, owed, signalDue, late, bad>>
    BY <1>5, <2>1
       DEF BackUp, TypeOK, process, health, outside, bad, Versions
  <2>2. CASE /\ Fails(exe = 0) /\ Finish("rolled_back") /\ UNCHANGED <<exe, backups>>
    <3>1. "rolled_back" \in States BY DEF States
    <3> QED BY <1>5, <2>2, <3>1, ConcludeStatus, FailsTypes
            DEF BackUp, Finish, TypeOK, process, health, outside, Versions
  <2> QED BY <1>5, <2>1, <2>2 DEF BackUp
<1>6. CASE Swap
  <2>1. mem.target \in 0 .. LastRelease
    BY DEF TypeOK, Status
  <2>2. CASE exe' = mem.target /\ run' = "installed" /\ UNCHANGED bad
    BY <1>6, <2>1, <2>2
       DEF Swap, RunAt, TypeOK, process, health, outside, bad, Versions
  <2>3. CASE Fails(FALSE) /\ exe' = exe /\ run' = "undo"
    BY <1>6, <2>3, FailsTypes DEF Swap, RunAt, TypeOK, process, health, outside, Versions
  <2> QED BY <1>6, <2>2, <2>3 DEF Swap
<1>7. CASE UndoBackUp
  <2>1. "rolled_back" \in States /\ "failed" \in States BY DEF States
  <2>2. CASE /\ moved \in backups
             /\ exe' = moved /\ backups' = backups \ {moved}
             /\ Finish("rolled_back")
             /\ UNCHANGED bad
    <3>1. exe' \in 0 .. LastRelease /\ backups' \subseteq Versions
      BY <2>2 DEF TypeOK, Versions
    <3>2. mem' \in Status /\ late' \subseteq Status /\ running' = FALSE
      BY <2>1, <2>2, ConcludeStatus DEF Finish
    <3>3. run' = "idle" /\ moved' = 0 /\ owed' = {} /\ signalDue' = signalDue
      BY <2>2 DEF Finish
    <3> QED BY <1>7, <2>2, <3>1, <3>2, <3>3
            DEF UndoBackUp, TypeOK, process, health, outside, bad
  <2>3. CASE Fails(moved \notin backups) /\ Finish("failed") /\ UNCHANGED <<exe, backups>>
    BY <1>7, <2>1, <2>3, ConcludeStatus, FailsTypes
       DEF UndoBackUp, Finish, TypeOK, process, health, outside, Versions
  <2> QED BY <1>7, <2>2, <2>3 DEF UndoBackUp
<1>8. CASE Installed
  <2>1. moved \in Versions
    BY <1>8 DEF Installed, RunAt, TypeOK
  <2>2. [mem EXCEPT !.state = "restarting", !.backup = moved] \in Status
    <3>1. mem \in Status /\ moved \in 0 .. LastRelease /\ "restarting" \in States
      BY <2>1 DEF TypeOK, States, Versions
    <3> QED BY <3>1 DEF Status
  <2> QED BY <1>8, <2>1, <2>2
          DEF Installed, TypeOK, files, process, health, outside, bad, Versions
<1>9. CASE Leave
  BY <1>9 DEF Leave, TypeOK, files, process, health, outside, bad, Versions, Transitional
<1>10. CASE Signal
  <2>1. "failed" \in States BY DEF States
  <2>2. CASE stopping' = TRUE /\ UNCHANGED <<mem, running, late, bad>>
    BY <1>10, <2>2 DEF Signal, TypeOK, files, health, outside, bad, Versions
  <2>3. CASE run = "idle" /\ Fails(FALSE) /\ Conclude("failed") /\ UNCHANGED stopping
    BY <1>10, <2>1, <2>3, ConcludeStatus, FailsTypes
       DEF Signal, TypeOK, files, health, outside, Versions
  <2> QED BY <1>10, <2>2, <2>3 DEF Signal
<1>11. CASE Persist
  <2>1. PICK status \in owed : Written(status)
    BY <1>11 DEF Persist
  <2> QED BY <1>11, <2>1, WrittenStatus
          DEF Persist, TypeOK, files, process, health, outside, Versions
<1>12. CASE PersistLate
  <2>1. PICK status \in late : Written(status) /\ late' = late \ {status}
    BY <1>12 DEF PersistLate
  <2> QED BY <1>12, <2>1, WrittenStatus
          DEF PersistLate, TypeOK, files, process, runner, health, outside, Versions
<1>13. CASE Start
  <2>1. Recovered(disk) \in Status
    BY RecoveredStatus DEF TypeOK
  <2> QED BY <1>13, <2>1
          DEF Start, TypeOK, files, runner, outside, bad, Versions
<1>14. CASE MarkStartupHealthy
  <2>1. "success" \in States BY DEF States
  <2>2. CASE mem.state = "restarting"
    <3>1. mem' \in Status /\ late' \subseteq Status /\ running' = FALSE
      BY <1>14, <2>1, <2>2, ConcludeStatus DEF MarkStartupHealthy
    <3>2. good' \subseteq Versions /\ marked' = TRUE
      BY <1>14 DEF MarkStartupHealthy, TypeOK, Versions
    <3> QED BY <1>14, <3>1, <3>2
            DEF MarkStartupHealthy, TypeOK, files, runner, health, bad, Versions
  <2>3. CASE mem.state # "restarting"
    BY <1>14, <2>3
       DEF MarkStartupHealthy, TypeOK, files, runner, health, bad, Versions
  <2> QED BY <2>2, <2>3
<1>15. CASE WindowEnds
  BY <1>15
     DEF WindowEnds, TypeOK, Status, files, process, runner, outside, bad, Versions
<1>16. CASE MoveFailed
  <2>1. exe' \in 0 .. LastRelease /\ failedFile' \in 0 .. LastRelease
        /\ window' \in {"restore", "off"}
    BY <1>16 DEF MoveFailed, TypeOK
  <2>2. troubles' \in 0 .. MaxTroubles /\ faulty' \in BOOLEAN
    BY <1>16, FailsTypes DEF MoveFailed, TypeOK, bad
  <2> QED BY <1>16, <2>1, <2>2 DEF MoveFailed, TypeOK, process, runner, outside
<1>17. CASE RestoreOld
  BY <1>17, FailsTypes
     DEF RestoreOld, TypeOK, process, runner, outside, bad, Versions
<1>18. CASE PutBack
  <2>1. exe' \in 0 .. LastRelease /\ failedFile' \in 0 .. LastRelease
    BY <1>18 DEF PutBack, TypeOK
  <2>2. troubles' \in 0 .. MaxTroubles /\ faulty' \in BOOLEAN
    BY <1>18, FailsTypes DEF PutBack, TypeOK, bad
  <2> QED BY <1>18, <2>1, <2>2 DEF PutBack, TypeOK, process, runner, outside
<1>19. CASE RolledBack
  <2>1. "rolled_back" \in States BY DEF States
  <2>2. mem' \in Status /\ late' \subseteq Status /\ running' = FALSE
    BY <1>19, <2>1, ConcludeStatus DEF RolledBack
  <2>3. failedFile' \in 0 .. LastRelease /\ window' = "off"
    BY <1>19 DEF RolledBack
  <2> QED BY <1>19, <2>2, <2>3 DEF RolledBack, TypeOK, process, runner, outside, bad
<1>20. CASE Exit
  BY <1>20, DiesTypes DEF Exit, TypeOK, bad
<1>21. CASE Crash
  BY <1>21, DiesTypes DEF Crash, TypeOK
<1>22. CASE Publish
  BY <1>22
     DEF Publish, TypeOK, files, process, runner, health, bad, Versions
<1>23. CASE UNCHANGED vars
  BY <1>23
     DEF vars, TypeOK, files, process, runner, health, bad, outside, Versions
<1> QED BY <1>1, <1>2, <1>3, <1>4, <1>5, <1>6, <1>7, <1>8, <1>9, <1>10, <1>11, <1>12,
           <1>13, <1>14, <1>15, <1>16, <1>17, <1>18, <1>19, <1>20, <1>21, <1>22, <1>23
        DEF Next, Runner, HealthWindow

LEMMA TypesInit == Init => TypeOK
<1> SUFFICES ASSUME Init PROVE TypeOK
  OBVIOUS
<1>1. 0 \in 0 .. LastRelease /\ 1 \in 0 .. LastRelease /\ 1 \in Versions /\ 0 \in 0 .. MaxTroubles
  BY ReleaseAssumption, TroubleAssumption DEF Versions
<1>2. moved \in (IF run \in {"swap", "undo", "installed", "leave"} THEN Versions ELSE {0})
  BY DEF Init
<1>3. disk \in Status /\ mem \in Status /\ owed \subseteq Status /\ late \subseteq Status
  BY IdleStatus DEF Init
<1> QED BY <1>1, <1>2, <1>3 DEF Init, TypeOK

(* Type correctness of the updater.                                        *)
THEOREM UpdaterTypes == Spec => []TypeOK
BY TypesInit, TypesStep, PTL DEF Spec

-----------------------------------------------------------------------------
(* The backups that any status names: of the file, of the memory, and of   *)
(* what is still to be written.                                            *)
named == {status.backup : status \in {disk, mem} \cup owed \cup late}

(* Where runUpdate is before it has installed the new version.             *)
Working == Transitional \cup {"swap", "undo", "installed"}

(* The update and the rollback keep out of each other's way.               *)
OwnerInv ==
  /\ LockHasOwner
  /\ run \in Working => mem.state \in Transitional /\ window \in {"off", "armed"}
  /\ run = "leave" => mem.state \notin Transitional
  /\ version = 0 =>
       run = "idle" /\ owed = {} /\ late = {} /\ window = "off" /\ ~ signalDue
  /\ window \in {"move", "restore"} => rollTo = mem.backup
  /\ window = "restored" => exe # 0

LEMMA SomeStates ==
  /\ {"idle", "checking", "available", "restarting", "success", "failed", "rolled_back"}
       \subseteq States
  /\ Transitional \subseteq States
  /\ {"idle", "restarting", "success", "failed", "rolled_back"} \cap Transitional = {}
  /\ Working \cap {"idle", "leave"} = {}
BY DEF States, Transitional, Working

LEMMA ConcludeOwner ==
  ASSUME TypeOK, OwnerInv, NEW state \in {"success", "failed", "rolled_back"},
         Conclude(state), run \notin Working, UNCHANGED <<run, window, rollTo, owed>>,
         UNCHANGED <<exe, version>>, version # 0
  PROVE  OwnerInv'
<1>1. mem'.state \notin Transitional /\ mem'.backup = mem.backup
  BY ConcludeStatus, SomeStates
<1> QED BY <1>1 DEF OwnerInv, LockHasOwner

LEMMA FinishOwner ==
  ASSUME TypeOK, OwnerInv, NEW state \in {"success", "failed", "rolled_back"},
         Finish(state), run \in Working, UNCHANGED <<window, rollTo, version>>
  PROVE  OwnerInv'
<1>1. mem'.state \notin Transitional
  BY ConcludeStatus, SomeStates DEF Finish
<1>2. version # 0
  BY SomeStates DEF OwnerInv
<1> QED BY <1>1, <1>2, SomeStates DEF OwnerInv, LockHasOwner, Finish

LEMMA OwnerStep == ASSUME TypeOK, OwnerInv, [Next]_vars PROVE OwnerInv'
<1>1. CASE StartUpdate
  <2>1. mem'.state = "checking"
    BY <1>1, IdleStatus, WithState, SomeStates DEF StartUpdate
  <2>2. mem'.state \in Transitional /\ "checking" \notin {"idle", "leave"}
    BY <2>1 DEF Transitional
  <2> QED BY <1>1, <2>2 DEF StartUpdate, OwnerInv, LockHasOwner, health, process, files
<1>2. CASE FetchRelease
  <2>1. run \in Working
    BY <1>2 DEF FetchRelease, RunAt, Working, Transitional
  <2>2. CASE Finish("failed")
    BY <1>2, <2>1, <2>2, FinishOwner DEF FetchRelease, process, health
  <2>3. CASE SetState("available", latest) /\ run' = "available" /\ moved' = moved
    <3>1. mem'.state = "available" /\ running' = running /\ late' = late
      BY <2>3, SetStateStatus, SomeStates DEF TypeOK, Versions
    <3> QED BY <1>2, <2>1, <2>3, <3>1, SomeStates
            DEF FetchRelease, OwnerInv, LockHasOwner, Working, Transitional,
                process, health, files
  <2> QED BY <1>2, <2>2, <2>3 DEF FetchRelease
<1>3. CASE Proceed
  <2>1. PICK pc \in DOMAIN After :
          RunAt(pc) /\ run' = After[pc] /\ SetState(After[pc], mem.target)
    BY <1>3 DEF Proceed
  <2>2. After[pc] \in Transitional /\ pc \in Transitional
    BY DEF After, Transitional
  <2>3. mem'.state = After[pc] /\ running' = running /\ late' = late
    BY <2>1, <2>2, SetStateStatus, SomeStates DEF TypeOK, Status
  <2>4. run \in Working /\ run' \in Working /\ mem'.state \in Transitional
    BY <2>1, <2>2, <2>3 DEF RunAt, Working
  <2> QED BY <1>3, <2>3, <2>4, SomeStates
          DEF Proceed, OwnerInv, LockHasOwner, process, health, files
<1>4. CASE FetchFails
  <2>1. run \in Working
    BY <1>4 DEF FetchFails, RunAt, Working, Transitional
  <2> QED BY <1>4, <2>1, FinishOwner DEF FetchFails, process, health
<1>5. CASE BackUp
  <2>1. run \in Working
    BY <1>5 DEF BackUp, RunAt, Working, Transitional
  <2>2. CASE run' = "swap" /\ UNCHANGED <<mem, running, owed, late>>
    BY <1>5, <2>1, <2>2, SomeStates
       DEF BackUp, OwnerInv, LockHasOwner, Working, process, health
  <2>3. CASE Finish("rolled_back")
    BY <1>5, <2>1, <2>3, FinishOwner DEF BackUp, process, health
  <2> QED BY <1>5, <2>2, <2>3 DEF BackUp
<1>6. CASE Swap
  <2>1. run \in Working /\ run' \in Working
    BY <1>6 DEF Swap, RunAt, Working
  <2> QED BY <1>6, <2>1, SomeStates
          DEF Swap, OwnerInv, LockHasOwner, process, health
<1>7. CASE UndoBackUp
  <2>1. run \in Working
    BY <1>7 DEF UndoBackUp, RunAt, Working
  <2>2. CASE Finish("rolled_back")
    BY <1>7, <2>1, <2>2, FinishOwner DEF UndoBackUp, process, health
  <2>3. CASE Finish("failed")
    BY <1>7, <2>1, <2>3, FinishOwner DEF UndoBackUp, process, health
  <2> QED BY <1>7, <2>2, <2>3 DEF UndoBackUp
<1>8. CASE Installed
  <2>1. run \in Working /\ run' = "leave"
    BY <1>8 DEF Installed, RunAt, Working
  <2>2. mem'.state = "restarting"
    BY <1>8 DEF Installed, TypeOK, Status
  <2> QED BY <1>8, <2>1, <2>2, SomeStates
          DEF Installed, OwnerInv, LockHasOwner, process, health, files
<1>9. CASE Leave
  BY <1>9, SomeStates DEF Leave, RunAt, OwnerInv, LockHasOwner, process, health, files
<1>10. CASE Signal
  <2>1. CASE UNCHANGED <<mem, running, late>>
    BY <1>10, <2>1 DEF Signal, OwnerInv, LockHasOwner, health, files
  <2>2. CASE run = "idle" /\ Conclude("failed")
    <3>1. version # 0
      BY <1>10 DEF Signal, OwnerInv
    <3> QED BY <1>10, <2>2, <3>1, ConcludeOwner, SomeStates DEF Signal, health, files
  <2> QED BY <1>10, <2>1, <2>2 DEF Signal
<1>11. CASE Persist
  BY <1>11 DEF Persist, OwnerInv, LockHasOwner, health, files, process
<1>12. CASE PersistLate
  BY <1>12 DEF PersistLate, OwnerInv, LockHasOwner, health, files, process, runner
<1>13. CASE Start
  <2>1. mem'.state \notin Transitional
    BY <1>13, RecoveredStatus DEF Start, TypeOK
  <2>2. run' = "idle" /\ version' # 0 /\ window' \in {"off", "armed"}
    BY <1>13 DEF Start, OwnerInv, runner
  <2> QED BY <2>1, <2>2, SomeStates DEF OwnerInv, LockHasOwner
<1>14. CASE MarkStartupHealthy
  <2>1. CASE mem.state = "restarting"
    <3>1. run \notin Working
      BY <2>1, SomeStates DEF OwnerInv
    <3> QED BY <1>14, <2>1, <3>1, ConcludeOwner
            DEF MarkStartupHealthy, files, runner, health
  <2>2. CASE mem.state # "restarting"
    BY <1>14, <2>2
       DEF MarkStartupHealthy, OwnerInv, LockHasOwner, files, runner, health
  <2> QED BY <2>1, <2>2
<1>15. CASE WindowEnds
  <2>1. mem.state = "restarting" => run \notin Working
    BY SomeStates DEF OwnerInv
  <2> QED BY <1>15, <2>1
          DEF WindowEnds, OwnerInv, LockHasOwner, files, runner, process
<1>16. CASE MoveFailed
  BY <1>16 DEF MoveFailed, OwnerInv, LockHasOwner, runner, process
<1>17. CASE RestoreOld
  <2>1. window' = "restored" => exe' # 0
    BY <1>17 DEF RestoreOld, TypeOK, Versions
  <2> QED BY <1>17, <2>1 DEF RestoreOld, OwnerInv, LockHasOwner, runner, process
<1>18. CASE PutBack
  BY <1>18 DEF PutBack, OwnerInv, LockHasOwner, runner, process
<1>19. CASE RolledBack
  <2>1. run \notin Working
    BY <1>19 DEF RolledBack, OwnerInv
  <2>2. mem'.state \notin Transitional
    BY <1>19, ConcludeStatus, SomeStates DEF RolledBack
  <2>3. version # 0
    BY <1>19 DEF RolledBack, OwnerInv
  <2> QED BY <1>19, <2>1, <2>2, <2>3
          DEF RolledBack, OwnerInv, LockHasOwner, runner, process
<1>20. CASE Dies
  BY <1>20, IdleStatus, SomeStates DEF Dies, NoGoroutines, OwnerInv, LockHasOwner
<1>21. CASE Publish
  BY <1>21 DEF Publish, OwnerInv, LockHasOwner, files, process, runner, health
<1>22. CASE UNCHANGED vars
  BY <1>22 DEF vars, OwnerInv, LockHasOwner, files, process, runner, health
<1> QED BY <1>1, <1>2, <1>3, <1>4, <1>5, <1>6, <1>7, <1>8, <1>9, <1>10, <1>11, <1>12,
           <1>13, <1>14, <1>15, <1>16, <1>17, <1>18, <1>19, <1>20, <1>21, <1>22
        DEF Next, Runner, HealthWindow, Exit, Crash

LEMMA OwnerInit == Init => OwnerInv
BY IdleStatus, SomeStates DEF Init, OwnerInv, LockHasOwner

(* The update lock always has an owner: while the status is transitional,  *)
(* runUpdate is alive and will end it.                                     *)
THEOREM UpdateLockHasOwner == Spec => []LockHasOwner
<1>1. OwnerInv => LockHasOwner
  BY DEF OwnerInv
<1> QED BY <1>1, TypesInit, TypesStep, OwnerInit, OwnerStep, PTL DEF Spec

-----------------------------------------------------------------------------
(* No step names a backup that no status named before, but the one an      *)
(* update has just made.                                                   *)
LEMMA StatusesNamed ==
  ASSUME {mem'.backup, disk'.backup} \subseteq named \cup {0},
         \A status \in owed' \cup late' : status.backup \in named \cup {0}
  PROVE  named' \subseteq named \cup {0}
BY DEF named

LEMMA InHandNamed ==
  /\ mem.backup \in named /\ disk.backup \in named
  /\ \A status \in owed \cup late : status.backup \in named
BY DEF named

LEMMA ConcludeNames ==
  ASSUME TypeOK, NEW state \in {"success", "failed", "rolled_back"}, Conclude(state),
         disk' = disk, owed' \subseteq owed
  PROVE  named' \subseteq named \cup {0} /\ mem'.backup = mem.backup
<1>1. mem'.backup = mem.backup /\ late' = late \cup {mem'}
  BY ConcludeStatus, SomeStates
<1> QED BY <1>1, InHandNamed, StatusesNamed

LEMMA FinishNames ==
  ASSUME TypeOK, NEW state \in {"success", "failed", "rolled_back"}, Finish(state),
         disk' = disk
  PROVE  named' \subseteq named \cup {0} /\ mem'.backup = mem.backup
BY ConcludeNames DEF Finish

LEMMA SetStateNames ==
  ASSUME TypeOK, NEW state \in States, NEW target \in 0 .. LastRelease,
         SetState(state, target), disk' = disk
  PROVE  named' \subseteq named \cup {0} /\ mem'.backup = mem.backup
BY SetStateStatus, InHandNamed, StatusesNamed

LEMMA SameNames ==
  ASSUME UNCHANGED <<disk, mem>>, owed' \subseteq owed, late' \subseteq late
  PROVE  named' \subseteq named \cup {0} /\ mem'.backup = mem.backup
BY InHandNamed, StatusesNamed

LEMMA NamesStep ==
  ASSUME TypeOK, OwnerInv, [Next]_vars, ~ Installed
  PROVE  /\ named' \subseteq named \cup {0}
         /\ \/ mem'.backup \in {mem.backup, 0}
            \/ version = 0 /\ named' = {mem'.backup}
<1>1. CASE StartUpdate
  <2>1. mem'.backup = 0 /\ owed' = {mem'}
    BY <1>1, IdleStatus, WithState, SomeStates DEF StartUpdate
  <2> QED BY <1>1, <2>1, InHandNamed, StatusesNamed DEF StartUpdate
<1>2. CASE FetchRelease
  <2>1. latest \in 0 .. LastRelease
    BY DEF TypeOK, Versions
  <2> QED BY <1>2, <2>1, FinishNames, SetStateNames, SomeStates DEF FetchRelease
<1>3. CASE Proceed
  <2>1. PICK pc \in DOMAIN After : SetState(After[pc], mem.target)
    BY <1>3 DEF Proceed
  <2>2. After[pc] \in States /\ mem.target \in 0 .. LastRelease
    BY SomeStates DEF After, Transitional, TypeOK, Status
  <2> QED BY <1>3, <2>1, <2>2, SetStateNames DEF Proceed
<1>4. CASE FetchFails
  BY <1>4, FinishNames DEF FetchFails
<1>5. CASE BackUp
  BY <1>5, FinishNames, SameNames DEF BackUp
<1>6. CASE Swap \/ Leave \/ WindowEnds \/ MoveFailed \/ RestoreOld \/ PutBack \/ Publish
  BY <1>6, SameNames
     DEF Swap, Leave, WindowEnds, MoveFailed, RestoreOld, PutBack, Publish, runner
<1>7. CASE UndoBackUp
  BY <1>7, FinishNames DEF UndoBackUp
<1>8. CASE Signal
  BY <1>8, ConcludeNames, SameNames DEF Signal
<1>9. CASE Persist
  <2>1. PICK status \in owed : Written(status)
    BY <1>9 DEF Persist
  <2>2. disk' \in {disk, status}
    BY <2>1, WrittenStatus DEF TypeOK
  <2> QED BY <1>9, <2>2, InHandNamed, StatusesNamed DEF Persist
<1>10. CASE PersistLate
  <2>1. PICK status \in late : Written(status) /\ late' = late \ {status}
    BY <1>10 DEF PersistLate
  <2>2. disk' \in {disk, status}
    BY <2>1, WrittenStatus DEF TypeOK
  <2> QED BY <1>10, <2>1, <2>2, InHandNamed, StatusesNamed DEF PersistLate, runner
<1>11. CASE Start
  <2>1. mem'.backup = disk.backup /\ disk' = disk /\ late' \subseteq {mem'}
    BY <1>11, RecoveredStatus DEF Start, TypeOK, files
  <2>2. owed' = {} /\ version = 0
    BY <1>11 DEF Start, OwnerInv, runner
  <2>3. named' = {mem'.backup}
    BY <2>1, <2>2 DEF named
  <2> QED BY <2>1, <2>2, <2>3, InHandNamed
<1>12. CASE MarkStartupHealthy
  BY <1>12, ConcludeNames, SameNames DEF MarkStartupHealthy, runner
<1>13. CASE RolledBack
  BY <1>13, ConcludeNames DEF RolledBack, runner
<1>14. CASE Dies
  <2>1. mem'.backup = 0 /\ disk' = disk /\ owed' = {} /\ late' = {}
    BY <1>14, IdleStatus DEF Dies, NoGoroutines
  <2> QED BY <2>1, InHandNamed, StatusesNamed
<1>15. CASE UNCHANGED vars
  BY <1>15, SameNames DEF vars, runner
<1> QED BY <1>1, <1>2, <1>3, <1>4, <1>5, <1>6, <1>7, <1>8, <1>9, <1>10, <1>11, <1>12,
           <1>13, <1>14, <1>15
        DEF Next, Runner, HealthWindow, Exit, Crash

LEMMA InstalledNames ==
  ASSUME TypeOK, Installed
  PROVE  /\ named' \subseteq named \cup {moved}
         /\ mem'.backup = moved /\ mem'.target = mem.target
<1>1. mem'.backup = moved /\ mem'.target = mem.target /\ owed' = {mem'}
  BY DEF Installed, TypeOK, Status
<1> QED BY <1>1 DEF Installed, named

-----------------------------------------------------------------------------
(* Nothing on disk is newer than the newest release, and nothing but what  *)
(* an update is about to install is newer than its target.                 *)
OrderInv ==
  /\ \A v \in named \cup {exe, failedFile, moved} : v <= latest
  /\ run \in Working \ {"checking"} =>
       /\ mem.target \in 1 .. latest
       /\ \A v \in named \cup {exe, moved} : v <= mem.target
  /\ run = "installed" => exe = mem.target

LEMMA NamesNumbers ==
  ASSUME TypeOK
  PROVE  /\ named \subseteq 0 .. LastRelease /\ latest \in Nat
         /\ exe \in Nat /\ failedFile \in Nat /\ moved \in Nat /\ mem.target \in Nat
<1>1. \A status \in Status : status.backup \in 0 .. LastRelease
  BY DEF Status
<1>2. named \subseteq 0 .. LastRelease
  BY <1>1 DEF named, TypeOK
<1>3. mem.target \in Nat
  BY DEF TypeOK, Status
<1>4. latest \in Nat /\ exe \in Nat /\ failedFile \in Nat
  BY ReleaseAssumption DEF TypeOK, Versions
<1>5. moved \in Nat
  BY DEF TypeOK, Versions
<1> QED BY <1>2, <1>3, <1>4, <1>5

LEMMA OrderStep ==
  ASSUME TypeOK, TypeOK', OwnerInv, OrderInv, [Next]_vars
  PROVE  OrderInv'
<1> USE NamesNumbers
<1>0. ~ Installed => named' \subseteq named \cup {0}
  BY NamesStep
<1>1. CASE StartUpdate
  <2>1. ~ Installed /\ run' = "checking"
    BY <1>1, SomeStates DEF StartUpdate, Installed, RunAt
  <2> QED BY <1>0, <1>1, <2>1 DEF StartUpdate, OrderInv, files, outside
<1>2. CASE FetchRelease
  <2>1. ~ Installed /\ moved = 0
    BY <1>2 DEF FetchRelease, Installed, RunAt, TypeOK
  <2>2. CASE Finish("failed")
    BY <1>0, <1>2, <2>1, <2>2, SomeStates
       DEF FetchRelease, Finish, OrderInv, files, outside
  <2>3. CASE SetState("available", latest) /\ run' = "available" /\ moved' = moved
    <3>1. latest \in 0 .. LastRelease /\ latest \in 1 .. latest
      BY DEF TypeOK, Versions
    <3>2. mem'.target = latest
      BY <2>3, <3>1, SetStateStatus, SomeStates
    <3> QED BY <1>0, <1>2, <2>1, <2>3, <3>1, <3>2
            DEF FetchRelease, OrderInv, files, outside
  <2> QED BY <1>2, <2>2, <2>3 DEF FetchRelease
<1>3. CASE Proceed
  <2>1. PICK pc \in DOMAIN After :
          RunAt(pc) /\ run' = After[pc] /\ SetState(After[pc], mem.target)
    BY <1>3 DEF Proceed
  <2>2. After[pc] \in States /\ pc \in Working \ {"checking"} /\ pc # "installed"
        /\ After[pc] # "installed"
    BY SomeStates DEF After, Transitional, Working
  <2>3. mem'.target = mem.target
    BY <2>1, <2>2, SetStateStatus DEF TypeOK, Status
  <2>4. ~ Installed
    BY <2>1, <2>2 DEF Installed, RunAt
  <2> QED BY <1>0, <1>3, <2>1, <2>2, <2>3, <2>4
          DEF Proceed, RunAt, OrderInv, files, outside
<1>4. CASE FetchFails
  <2>1. ~ Installed
    BY <1>4 DEF FetchFails, Installed, RunAt
  <2> QED BY <1>0, <1>4, <2>1, SomeStates
          DEF FetchFails, Finish, OrderInv, files, outside
<1>5. CASE BackUp
  <2>1. ~ Installed /\ run \in Working \ {"checking"}
    BY <1>5 DEF BackUp, Installed, RunAt, Working, Transitional
  <2>2. CASE moved' = exe /\ exe' = 0 /\ mem' = mem /\ run' = "swap"
    BY <1>0, <1>5, <2>1, <2>2 DEF BackUp, OrderInv, outside
  <2>3. CASE Finish("rolled_back") /\ exe' = exe
    BY <1>0, <1>5, <2>1, <2>3, SomeStates DEF BackUp, Finish, OrderInv, outside
  <2> QED BY <1>5, <2>2, <2>3 DEF BackUp
<1>6. CASE Swap
  <2>1. ~ Installed /\ run \in Working \ {"checking"}
    BY <1>6 DEF Swap, Installed, RunAt, Working, Transitional
  <2>2. exe' \in {exe, mem.target} /\ (run' = "installed" => exe' = mem'.target)
    BY <1>6 DEF Swap
  <2> QED BY <1>0, <1>6, <2>1, <2>2 DEF Swap, OrderInv, outside
<1>7. CASE UndoBackUp
  <2>1. ~ Installed /\ run' = "idle" /\ moved' = 0 /\ exe' \in {exe, moved}
    BY <1>7 DEF UndoBackUp, Installed, RunAt, Finish
  <2> QED BY <1>0, <1>7, <2>1, SomeStates DEF UndoBackUp, OrderInv, outside
<1>8. CASE Installed
  <2>1. named' \subseteq named \cup {moved} /\ run' = "leave"
    BY <1>8, InstalledNames DEF Installed
  <2> QED BY <1>8, <2>1, SomeStates DEF Installed, OrderInv, files, outside
<1>9. CASE Leave
  <2>1. ~ Installed
    BY <1>9 DEF Leave, Installed, RunAt
  <2> QED BY <1>0, <1>9, <2>1, SomeStates DEF Leave, OrderInv, files, outside
<1>10. ASSUME ~ Installed, mem'.target = mem.target \/ run' \notin Working,
              UNCHANGED <<files, run, moved, latest>>
       PROVE  OrderInv'
  BY <1>0, <1>10 DEF OrderInv, files, Working
<1>11. CASE Signal
  <2>1. CASE UNCHANGED mem
    <3>1. ~ Installed
      BY <1>11, <2>1 DEF Signal, Installed, TypeOK, Status
    <3> QED BY <1>10, <1>11, <2>1, <3>1 DEF Signal, outside
  <2>2. CASE run = "idle"
    <3>1. ~ Installed
      BY <2>2 DEF Installed, RunAt
    <3> QED BY <1>10, <1>11, <2>2, <3>1, SomeStates DEF Signal, outside
  <2> QED BY <1>11, <2>1, <2>2 DEF Signal
<1>12. CASE Persist
  <2>1. ~ Installed
    BY <1>12 DEF Persist, Installed, RunAt
  <2> QED BY <1>10, <1>12, <2>1 DEF Persist, outside
<1>13. CASE PersistLate
  <2>1. ~ Installed
    BY <1>13 DEF PersistLate, Installed, runner
  <2> QED BY <1>10, <1>13, <2>1 DEF PersistLate, runner, outside
<1>14. CASE Start
  <2>1. ~ Installed /\ run = "idle" /\ run' = "idle"
    BY <1>14 DEF Start, Installed, OwnerInv, RunAt, runner
  <2> QED BY <1>10, <1>14, <2>1, SomeStates DEF Start, runner, outside
<1>15. CASE MarkStartupHealthy
  <2>1. ~ Installed
    BY <1>15 DEF MarkStartupHealthy, Installed, runner, RunAt
  <2>2. mem'.target = mem.target
    <3>1. CASE mem.state = "restarting"
      BY <1>15, <3>1, ConcludeStatus, SomeStates DEF MarkStartupHealthy
    <3>2. CASE mem.state # "restarting"
      BY <1>15, <3>2 DEF MarkStartupHealthy
    <3> QED BY <3>1, <3>2
  <2> QED BY <1>10, <1>15, <2>1, <2>2 DEF MarkStartupHealthy, runner
<1>16. CASE WindowEnds
  <2>1. ~ Installed
    BY <1>16 DEF WindowEnds, Installed, runner, RunAt
  <2> QED BY <1>10, <1>16, <2>1 DEF WindowEnds, runner, outside
<1>17. CASE MoveFailed \/ PutBack
  <2>1. ~ Installed
    BY <1>17 DEF MoveFailed, PutBack, Installed, runner, RunAt
  <2>2. exe' \in {exe, failedFile, 0} /\ failedFile' \in {exe, failedFile, 0}
        /\ UNCHANGED <<mem, run, moved, latest>>
    BY <1>17 DEF MoveFailed, PutBack, runner, outside
  <2>3. run \notin Working
    BY <1>17 DEF MoveFailed, PutBack, OwnerInv
  <2> QED BY <1>0, <2>1, <2>2, <2>3 DEF OrderInv, Working
<1>18. CASE RestoreOld
  <2>1. ~ Installed
    BY <1>18 DEF RestoreOld, Installed, runner, RunAt
  <2>2. exe' \in {exe, mem.backup} /\ UNCHANGED <<failedFile, mem, run, moved, latest>>
    BY <1>18 DEF RestoreOld, OwnerInv, runner, outside
  <2>3. run \notin Working
    BY <1>18 DEF RestoreOld, OwnerInv
  <2> QED BY <1>0, <2>1, <2>2, <2>3, InHandNamed DEF OrderInv, Working
<1>19. CASE RolledBack
  <2>1. ~ Installed /\ run \notin Working
    BY <1>19 DEF RolledBack, Installed, runner, OwnerInv, RunAt
  <2> QED BY <1>0, <1>19, <2>1 DEF RolledBack, OrderInv, Working, runner, outside
<1>20. CASE Dies
  <2>1. ~ Installed /\ run' = "idle" /\ moved' = 0
    BY <1>20 DEF Dies, NoGoroutines, Installed
  <2> QED BY <1>0, <1>20, <2>1, SomeStates DEF Dies, OrderInv, files
<1>21. CASE Publish
  <2>1. ~ Installed
    BY <1>21 DEF Publish, Installed, runner, RunAt
  <2> QED BY <1>0, <1>21, <2>1 DEF Publish, OrderInv, files, runner
<1>22. CASE UNCHANGED vars
  <2>1. ~ Installed
    BY <1>22 DEF vars, Installed, runner, RunAt
  <2> QED BY <1>10, <1>22, <2>1 DEF vars, runner, outside
<1> QED BY <1>1, <1>2, <1>3, <1>4, <1>5, <1>6, <1>7, <1>8, <1>9, <1>11, <1>12,
           <1>13, <1>14, <1>15, <1>16, <1>17, <1>18, <1>19, <1>20, <1>21, <1>22
        DEF Next, Runner, HealthWindow, Exit, Crash

-----------------------------------------------------------------------------
(* Whatever is not known to be good, a version that may be started or put  *)
(* back, is covered by an older good version among the backups, and by one *)
(* that none of the renames under way will move.                           *)
Covered(v, others) ==
  v \notin good \cup {0} => \E g \in (good \cap backups) \ others : g < v

inHand ==
  {exe, moved, mem.backup} \cup
  (IF window \in {"restore", "putback"} THEN {failedFile} ELSE {})

ReserveInv ==
  /\ Covered(exe, {})
  /\ run \in {"swap", "undo", "installed"} => Covered(moved, {})
  /\ run = "swap" => moved \in backups
  /\ window \in {"restore", "putback"} => Covered(failedFile, {})
  /\ \A v \in named : Covered(v, inHand)
  /\ exe = 0 => good \cap (backups \cup {failedFile}) # {}

(* Steps that move no file, and at most forget what they had in hand.      *)
LEMMA ReserveStays ==
  ASSUME TypeOK, OwnerInv, ReserveInv, [Next]_vars, ~ Installed,
         UNCHANGED files, good \subseteq good',
         moved' \in {moved, 0}, moved' = moved \/ run' = "idle",
         run' \in {"swap", "undo", "installed"} => run \in {"swap", "undo", "installed"},
         run' = "swap" => run = "swap",
         window' \in {"restore", "putback"} => window \in {"restore", "putback"}
  PROVE  ReserveInv'
<1>1. 0 \notin good /\ good \subseteq Nat /\ named \subseteq Nat
  BY NamesNumbers DEF TypeOK, Versions
<1>2. named' \subseteq named \cup {0}
  BY NamesStep
<1>3. ASSUME NEW v \in named' PROVE Covered(v, inHand)'
  <2>1. CASE mem'.backup \in {mem.backup, 0}
    <3>1. inHand' \subseteq inHand \cup {0}
      BY <2>1 DEF files, inHand
    <3>2. Covered(v, inHand) \/ v = 0
      BY <1>2, <1>3 DEF ReserveInv
    <3> QED BY <1>1, <3>1, <3>2 DEF files, Covered
  <2>2. CASE version = 0 /\ named' = {mem'.backup}
    <3>1. v = mem'.backup /\ window' \notin {"restore", "putback"}
      BY <1>3, <2>2 DEF OwnerInv
    <3>2. moved = 0 /\ moved' = 0
      BY <2>2 DEF OwnerInv, TypeOK
    <3>3. inHand' = {exe, 0, v}
      BY <3>1, <3>2 DEF inHand, files
    <3>4. Covered(v, inHand) \/ v = 0
      BY <1>2, <1>3 DEF ReserveInv
    <3>5. exe \in inHand
      BY DEF inHand
    <3> QED BY <1>1, <1>2, <3>3, <3>4, <3>5, NamesNumbers DEF files, Covered
  <2> QED BY <2>1, <2>2, NamesStep
<1>4. Covered(exe, {})' /\ (run' \in {"swap", "undo", "installed"} => Covered(moved, {})')
      /\ (run' = "swap" => moved' \in backups')
      /\ (window' \in {"restore", "putback"} => Covered(failedFile, {})')
  BY DEF ReserveInv, Covered, files
<1>5. exe' = 0 => good' \cap (backups' \cup {failedFile'}) # {}
  BY DEF ReserveInv, files
<1> QED BY <1>3, <1>4, <1>5 DEF ReserveInv

LEMMA ReserveStep ==
  ASSUME TypeOK, TypeOK', OwnerInv, OwnerInv', OrderInv, OrderInv', ReserveInv, [Next]_vars
  PROVE  ReserveInv'
<1>0. 0 \notin good /\ good \subseteq Nat /\ named \subseteq Nat
      /\ exe \in Nat /\ moved \in Nat /\ failedFile \in Nat /\ mem.target \in Nat
  BY NamesNumbers DEF TypeOK, Versions
<1>1. CASE StartUpdate
  <2>1. ~ Installed /\ run' = "checking"
    BY <1>1 DEF StartUpdate, Installed, RunAt
  <2> QED BY <1>1, <2>1, ReserveStays DEF StartUpdate, outside, health
<1>2. CASE FetchRelease \/ Proceed \/ FetchFails
  <2>1. moved = 0 /\ moved' = 0
    BY <1>2 DEF FetchRelease, Proceed, FetchFails, Finish, RunAt, TypeOK, After
  <2>2. ~ Installed /\ run' \notin {"swap", "undo", "installed"}
    BY <1>2 DEF FetchRelease, Proceed, FetchFails, Finish, RunAt, After, Installed
  <2> QED BY <1>2, <2>1, <2>2, ReserveStays
          DEF FetchRelease, Proceed, FetchFails, outside, health
<1>3. CASE BackUp
  <2>1. ~ Installed
    BY <1>3 DEF BackUp, Installed, RunAt
  <2>2. CASE /\ exe # 0
             /\ backups' = backups \cup {exe} /\ exe' = 0
             /\ moved' = exe /\ run' = "swap" /\ mem' = mem
    <3>1. named' \subseteq named \cup {0}
      BY <2>1, NamesStep
    <3>2. window' \notin {"restore", "putback"} /\ window = window' /\ good' = good
      BY <1>3 DEF BackUp, OwnerInv, RunAt, Working, Transitional, health, outside
    <3>3. inHand' \subseteq inHand \cup {0} /\ exe \in inHand
      BY <2>2, <3>2 DEF inHand
    <3>4. \A v \in named' : Covered(v, inHand)'
      BY <1>0, <2>2, <3>1, <3>2, <3>3 DEF ReserveInv, Covered
    <3>5. Covered(exe, {})' /\ Covered(moved, {})' /\ moved' \in backups'
      BY <2>2, <3>2 DEF ReserveInv, Covered
    <3>6. good' \cap (backups' \cup {failedFile'}) # {}
      BY <2>2, <3>2 DEF ReserveInv, Covered
    <3> QED BY <3>2, <3>4, <3>5, <3>6 DEF ReserveInv
  <2>3. CASE Finish("rolled_back") /\ UNCHANGED <<exe, backups>>
    BY <1>3, <2>1, <2>3, ReserveStays DEF BackUp, Finish, files, health, outside
  <2> QED BY <1>3, <2>2, <2>3 DEF BackUp
<1>4. CASE Swap
  <2>1. ~ Installed /\ good' = good /\ window' = window /\ mem' = mem /\ backups' = backups
        /\ moved' = moved /\ failedFile' = failedFile
    BY <1>4 DEF Swap, Installed, RunAt, health, outside
  <2>2. CASE exe' = mem.target /\ run' = "installed"
    <3>1. named' \subseteq named \cup {0}
      BY <2>1, NamesStep
    <3>2. run \in Working \ {"checking"} /\ run = "swap"
      BY <1>4 DEF Swap, RunAt, Working
    <3>3. \A v \in named \cup {moved} : v <= mem.target
      BY <3>2 DEF OrderInv
    <3>4. inHand' \subseteq inHand \cup {mem.target}
      BY <2>1, <2>2 DEF inHand
    <3>5. \A v \in named' : Covered(v, inHand)'
      BY <1>0, <2>1, <3>1, <3>3, <3>4 DEF ReserveInv, Covered
    <3>6. Covered(moved, {})
      BY <3>2 DEF ReserveInv
    <3>7. moved \in Versions /\ moved \in backups
      BY <3>2 DEF ReserveInv, TypeOK
    <3>8. Covered(mem.target, {})
      BY <1>0, <3>3, <3>6, <3>7 DEF Covered, Versions
    <3>9. mem.target # 0
      BY <3>2 DEF OrderInv
    <3>10. Covered(exe, {})' /\ Covered(moved, {})'
      BY <2>1, <2>2, <3>6, <3>8 DEF Covered
    <3>11. window' \notin {"restore", "putback"}
      BY <2>1, <3>2 DEF OwnerInv
    <3> QED BY <2>1, <2>2, <3>5, <3>9, <3>10, <3>11 DEF ReserveInv
  <2>3. CASE exe' = exe /\ run' = "undo"
    BY <1>4, <2>1, <2>3, ReserveStays DEF Swap, RunAt, files
  <2> QED BY <1>4, <2>2, <2>3 DEF Swap
<1>5. CASE UndoBackUp
  <2>1. ~ Installed /\ good' = good /\ window' = window /\ run' = "idle" /\ moved' = 0
    BY <1>5 DEF UndoBackUp, Finish, Installed, health, outside
  <2>2. CASE moved \in backups /\ exe' = moved /\ backups' = backups \ {moved}
    <3>1. named' \subseteq named \cup {0} /\ mem'.backup = mem.backup
      BY <1>5, FinishNames DEF UndoBackUp
    <3>2. run = "undo" /\ window' \notin {"restore", "putback"}
      BY <1>5, <2>1 DEF UndoBackUp, RunAt, OwnerInv, Working
    <3>3. inHand' \subseteq inHand \cup {0} /\ moved \in inHand
      BY <2>1, <2>2, <3>1, <3>2 DEF inHand
    <3>4. \A v \in named' : Covered(v, inHand)'
      BY <1>0, <2>1, <2>2, <3>1, <3>3 DEF ReserveInv, Covered
    <3>5. Covered(moved, {}) /\ moved # 0
      BY <3>2 DEF ReserveInv, TypeOK, Versions
    <3>6. Covered(exe, {})'
      BY <1>0, <2>1, <2>2, <3>5 DEF Covered
    <3> QED BY <2>1, <2>2, <3>2, <3>4, <3>5, <3>6 DEF ReserveInv
  <2>3. CASE UNCHANGED <<exe, backups>>
    BY <1>5, <2>1, <2>3, ReserveStays DEF UndoBackUp, files
  <2> QED BY <1>5, <2>2, <2>3 DEF UndoBackUp
<1>6. CASE Installed
  <2>1. named' \subseteq named \cup {moved} /\ mem'.backup = moved
    BY <1>6, InstalledNames
  <2>2. run = "installed" /\ run' = "leave" /\ moved' = moved /\ good' = good
        /\ UNCHANGED files /\ window' = window
    BY <1>6 DEF Installed, RunAt, outside, health
  <2>3. window \notin {"restore", "putback"}
    BY <2>2 DEF OwnerInv, Working
  <2>4. inHand' = {exe, moved} /\ inHand' \subseteq inHand
    BY <2>1, <2>2, <2>3 DEF inHand, files
  <2>5. moved <= exe
    BY <2>2 DEF OrderInv, Working
  <2>6. Covered(moved, {})
    BY <2>2 DEF ReserveInv
  <2>7. Covered(moved, {exe, moved})
    BY <1>0, <2>5, <2>6 DEF Covered
  <2>8. \A v \in named : Covered(v, {exe, moved})
    BY <2>4 DEF ReserveInv, Covered
  <2>9. \A v \in named' : Covered(v, inHand)'
    BY <2>1, <2>2, <2>4, <2>7, <2>8 DEF Covered, files
  <2> QED BY <2>2, <2>3, <2>9 DEF ReserveInv, Covered, files
<1>7. CASE Leave
  <2>1. ~ Installed
    BY <1>7 DEF Leave, Installed
  <2> QED BY <1>7, <2>1, ReserveStays DEF Leave, health, outside
<1>8. CASE Signal \/ Persist \/ PersistLate \/ Start \/ MarkStartupHealthy
           \/ WindowEnds \/ Publish \/ UNCHANGED vars
  <2>1. run' = run /\ moved' = moved /\ UNCHANGED files /\ good \subseteq good'
    BY <1>8 DEF Signal, Persist, PersistLate, Start, MarkStartupHealthy, WindowEnds,
                Publish, vars, runner, outside
  <2>2. ~ Installed
    BY <2>1 DEF Installed, RunAt
  <2>3. window' = window \/ window' \in {"off", "armed", "move"}
    BY <1>8 DEF Signal, Persist, PersistLate, Start, MarkStartupHealthy, WindowEnds,
                Publish, vars, health
  <2> QED BY <2>1, <2>2, <2>3, ReserveStays
<1>9. CASE MoveFailed
  <2>1. run' = run /\ moved' = moved /\ mem' = mem /\ good' = good /\ backups' = backups
    BY <1>9 DEF MoveFailed, runner, outside
  <2>2. ~ Installed
    BY <2>1 DEF Installed, RunAt
  <2>3. CASE exe # 0 /\ failedFile' = exe /\ exe' = 0 /\ window' = "restore"
    <3>1. named' \subseteq named \cup {0}
      BY <2>2, NamesStep
    <3>2. inHand' \subseteq inHand \cup {0}
      BY <2>1, <2>3 DEF inHand
    <3>3. \A v \in named' : Covered(v, inHand)'
      BY <1>0, <2>1, <3>1, <3>2 DEF ReserveInv, Covered
    <3> QED BY <2>1, <2>3, <3>3 DEF ReserveInv, Covered
  <2>4. CASE window' = "off" /\ UNCHANGED <<exe, failedFile>>
    BY <2>1, <2>2, <2>4, ReserveStays DEF files
  <2> QED BY <1>9, <2>3, <2>4 DEF MoveFailed
<1>10. CASE RestoreOld
  <2>1. run' = run /\ moved' = moved /\ mem' = mem /\ good' = good
        /\ failedFile' = failedFile
    BY <1>10 DEF RestoreOld, runner, outside
  <2>2. ~ Installed
    BY <2>1 DEF Installed, RunAt
  <2>3. window = "restore" /\ rollTo = mem.backup /\ run \notin Working
    BY <1>10 DEF RestoreOld, OwnerInv
  <2>4. CASE /\ rollTo \in backups
             /\ exe' = rollTo /\ backups' = backups \ {rollTo} /\ window' = "restored"
    <3>1. named' \subseteq named \cup {0} /\ rollTo \in named /\ rollTo # 0
      BY <2>2, <2>3, <2>4, NamesStep, InHandNamed DEF TypeOK, Versions
    <3>2. inHand' \subseteq inHand /\ rollTo \in inHand
      BY <2>1, <2>3, <2>4 DEF inHand
    <3>3. \A v \in named' : Covered(v, inHand)'
      BY <1>0, <2>1, <2>4, <3>1, <3>2 DEF ReserveInv, Covered
    <3>4. Covered(exe, {})'
      BY <1>0, <2>1, <2>4, <3>1, <3>2 DEF ReserveInv, Covered
    <3>5. run' \notin {"swap", "undo", "installed"}
      BY <2>1, <2>3 DEF Working
    <3> QED BY <2>4, <3>1, <3>3, <3>4, <3>5 DEF ReserveInv
  <2>5. CASE window' = "putback" /\ UNCHANGED <<exe, backups>>
    BY <2>1, <2>2, <2>3, <2>5, ReserveStays DEF files
  <2> QED BY <1>10, <2>4, <2>5 DEF RestoreOld
<1>11. CASE PutBack
  <2>1. run' = run /\ moved' = moved /\ mem' = mem /\ good' = good /\ backups' = backups
        /\ window = "putback" /\ window' = "off"
    BY <1>11 DEF PutBack, runner, outside
  <2>2. ~ Installed
    BY <2>1 DEF Installed, RunAt
  <2>3. CASE failedFile # 0 /\ exe' = failedFile /\ failedFile' = 0
    <3>1. named' \subseteq named \cup {0}
      BY <2>2, NamesStep
    <3>2. inHand' \subseteq inHand
      BY <2>1, <2>3 DEF inHand
    <3>3. \A v \in named' : Covered(v, inHand)'
      BY <1>0, <2>1, <3>1, <3>2 DEF ReserveInv, Covered
    <3> QED BY <2>1, <2>3, <3>3 DEF ReserveInv, Covered
  <2>4. CASE UNCHANGED <<exe, failedFile>>
    BY <2>1, <2>2, <2>4, ReserveStays DEF files
  <2> QED BY <1>11, <2>3, <2>4 DEF PutBack
<1>12. CASE RolledBack
  <2>1. run' = run /\ moved' = moved /\ good' = good /\ UNCHANGED <<exe, backups>>
        /\ window = "restored" /\ window' = "off"
    BY <1>12 DEF RolledBack, runner, outside
  <2>2. named' \subseteq named \cup {0} /\ mem'.backup = mem.backup
    BY <1>12, ConcludeNames DEF RolledBack, runner
  <2>3. exe # 0
    BY <2>1 DEF OwnerInv
  <2>4. inHand' \subseteq inHand
    BY <2>1, <2>2 DEF inHand
  <2>5. \A v \in named' : Covered(v, inHand)'
    BY <1>0, <2>1, <2>2, <2>4 DEF ReserveInv, Covered
  <2> QED BY <2>1, <2>3, <2>5 DEF ReserveInv, Covered
<1>13. CASE Dies
  <2>1. moved' = 0 /\ run' = "idle" /\ UNCHANGED <<files, good>> /\ window' = "off"
    BY <1>13 DEF Dies, NoGoroutines
  <2>2. ~ Installed
    BY <2>1 DEF Installed
  <2> QED BY <2>1, <2>2, ReserveStays
<1> QED BY <1>1, <1>2, <1>3, <1>4, <1>5, <1>6, <1>7, <1>8, <1>9, <1>10, <1>11, <1>12, <1>13
        DEF Next, Runner, HealthWindow, Exit, Crash

LEMMA OrderReserveInit == Init => OrderInv /\ ReserveInv
<1> SUFFICES ASSUME Init PROVE OrderInv /\ ReserveInv
  OBVIOUS
<1>1. named = {0}
  BY IdleStatus DEF Init, named
<1>2. exe = 1 /\ failedFile = 0 /\ moved = 0 /\ latest = 1 /\ run = "idle" /\ good = {1}
      /\ window = "off"
  BY DEF Init
<1> QED BY <1>1, <1>2, SomeStates DEF OrderInv, ReserveInv, Covered

(* A device can always be repaired by hand: whatever crashes and whatever  *)
(* rename or write fails, a version that has once started well is still on *)
(* disk.                                                                   *)
THEOREM GoodVersionAlwaysSurvives == Spec => []GoodVersionSurvives
<1>1. ReserveInv => GoodVersionSurvives
  BY DEF ReserveInv, Covered, GoodVersionSurvives
<1> QED BY <1>1, TypesInit, TypesStep, OwnerInit, OwnerStep, OrderReserveInit, OrderStep,
           ReserveStep, PTL DEF Spec

-----------------------------------------------------------------------------
(* A status that says a restart is due is in nobody's hand but that of the *)
(* goroutine about to ask for it, while the backup it names is on disk.    *)
HandsInv ==
  /\ window \in {"restore", "putback"} => exe = 0
  /\ run \in {"swap", "undo", "installed"} => moved \in backups
  /\ \A status \in late : status.state # "restarting"
  /\ \A status \in owed : status.state = "restarting" => run = "leave"

LEMMA ConcludeHands ==
  ASSUME TypeOK, HandsInv, NEW state \in {"success", "failed", "rolled_back"},
         Conclude(state)
  PROVE  \A status \in late' : status.state # "restarting"
<1>1. mem'.state = state /\ late' = late \cup {mem'}
  BY ConcludeStatus, SomeStates
<1> QED BY <1>1 DEF HandsInv

LEMMA SetStateHands ==
  ASSUME TypeOK, HandsInv, NEW state \in Transitional, NEW target \in 0 .. LastRelease,
         SetState(state, target), run' \in Transitional, UNCHANGED <<window, exe>>
  PROVE  HandsInv'
<1>1. mem'.state = state /\ owed' = {mem'} /\ late' = late
  BY SetStateStatus, SomeStates
<1> QED BY <1>1, SomeStates DEF HandsInv, Transitional

LEMMA FinishHands ==
  ASSUME TypeOK, HandsInv, NEW state \in {"success", "failed", "rolled_back"},
         Finish(state), window' = window,
         window \in {"restore", "putback"} => exe' = 0
  PROVE  HandsInv'
BY ConcludeHands DEF Finish, HandsInv

LEMMA HandsStep ==
  ASSUME TypeOK, OwnerInv, HandsInv, [Next]_vars
  PROVE  HandsInv'
<1>0. run \in Working => window \notin {"restore", "putback", "restored"}
  BY DEF OwnerInv
<1>1. CASE StartUpdate
  <2>1. mem'.state = "checking"
    BY <1>1, IdleStatus, WithState, SomeStates DEF StartUpdate
  <2> QED BY <1>1, <2>1 DEF StartUpdate, HandsInv, health, files
<1>2. CASE FetchRelease
  <2>1. latest \in 0 .. LastRelease
    BY DEF TypeOK, Versions
  <2>2. CASE Finish("failed")
    BY <1>2, <2>2, FinishHands DEF FetchRelease, HandsInv, health, files
  <2>3. CASE SetState("available", latest) /\ run' = "available"
    BY <1>2, <2>1, <2>3, SetStateHands DEF FetchRelease, Transitional, health, files
  <2> QED BY <1>2, <2>2, <2>3 DEF FetchRelease
<1>3. CASE Proceed
  <2>1. PICK pc \in DOMAIN After :
          RunAt(pc) /\ run' = After[pc] /\ SetState(After[pc], mem.target)
    BY <1>3 DEF Proceed
  <2>2. After[pc] \in Transitional /\ mem.target \in 0 .. LastRelease
    BY DEF After, Transitional, TypeOK, Status
  <2> QED BY <1>3, <2>1, <2>2, SetStateHands DEF Proceed, health, files
<1>4. CASE FetchFails
  BY <1>4, FinishHands DEF FetchFails, HandsInv, health, files
<1>5. CASE BackUp
  <2>1. run \in Working /\ owed = {}
    BY <1>5 DEF BackUp, RunAt, Working, Transitional
  <2>2. CASE backups' = backups \cup {exe} /\ moved' = exe /\ run' = "swap"
             /\ UNCHANGED <<owed, late>>
    BY <1>0, <1>5, <2>1, <2>2 DEF BackUp, HandsInv, health
  <2>3. CASE Finish("rolled_back") /\ exe' = exe
    BY <1>5, <2>3, FinishHands DEF BackUp, HandsInv, health
  <2> QED BY <1>5, <2>2, <2>3 DEF BackUp
<1>6. CASE Swap
  <2>1. run \in Working /\ owed = {} /\ run = "swap"
    BY <1>6 DEF Swap, RunAt, Working
  <2> QED BY <1>0, <1>6, <2>1 DEF Swap, HandsInv, health
<1>7. CASE UndoBackUp
  <2>1. run \in Working
    BY <1>7 DEF UndoBackUp, RunAt, Working
  <2> QED BY <1>0, <1>7, <2>1, FinishHands DEF UndoBackUp, HandsInv, health
<1>8. CASE Installed
  <2>1. run' = "leave"
    BY <1>8 DEF Installed
  <2> QED BY <1>8, <2>1 DEF Installed, HandsInv, health, files
<1>9. CASE Leave
  BY <1>9 DEF Leave, RunAt, HandsInv, health, files
<1>10. CASE Signal
  BY <1>10, ConcludeHands DEF Signal, HandsInv, health, files
<1>11. CASE Persist
  BY <1>11 DEF Persist, HandsInv, health, files
<1>12. CASE PersistLate
  BY <1>12 DEF PersistLate, HandsInv, health, files, runner
<1>13. CASE Start
  <2>1. run = "idle" /\ owed = {} /\ window' \in {"armed", "off"}
    BY <1>13 DEF Start, OwnerInv
  <2>2. mem' # disk => mem'.state # "restarting"
    BY <1>13 DEF Start, Recovered, TypeOK, Status
  <2> QED BY <1>13, <2>1, <2>2 DEF Start, HandsInv, files, runner
<1>14. CASE MarkStartupHealthy
  <2>1. \A status \in late' : status.state # "restarting"
    BY <1>14, ConcludeHands DEF MarkStartupHealthy, HandsInv
  <2> QED BY <1>14, <2>1 DEF MarkStartupHealthy, HandsInv, health, files, runner
<1>15. CASE WindowEnds
  BY <1>15 DEF WindowEnds, HandsInv, files, runner
<1>16. CASE MoveFailed
  BY <1>16 DEF MoveFailed, HandsInv, runner
<1>17. CASE RestoreOld
  <2>1. run \notin Working
    BY <1>0, <1>17 DEF RestoreOld
  <2>2. run \notin {"swap", "undo", "installed"}
    BY <2>1 DEF Working
  <2>3. window' \in {"restore", "putback"} => exe' = 0
    BY <1>17 DEF RestoreOld, HandsInv
  <2> QED BY <1>17, <2>2, <2>3 DEF RestoreOld, HandsInv, runner
<1>18. CASE PutBack
  BY <1>18 DEF PutBack, HandsInv, runner
<1>19. CASE RolledBack
  <2>1. \A status \in late' : status.state # "restarting"
    BY <1>19, ConcludeHands DEF RolledBack
  <2> QED BY <1>19, <2>1 DEF RolledBack, HandsInv, runner
<1>20. CASE Dies
  BY <1>20 DEF Dies, NoGoroutines, HandsInv
<1>21. CASE Publish
  BY <1>21 DEF Publish, HandsInv, files, health, runner
<1>22. CASE UNCHANGED vars
  BY <1>22 DEF vars, HandsInv, files, health, runner
<1> QED BY <1>1, <1>2, <1>3, <1>4, <1>5, <1>6, <1>7, <1>8, <1>9, <1>10, <1>11, <1>12,
           <1>13, <1>14, <1>15, <1>16, <1>17, <1>18, <1>19, <1>20, <1>21, <1>22
        DEF Next, Runner, HealthWindow, Exit, Crash

-----------------------------------------------------------------------------
(* The version to fall back to is a backup or the executable; only while   *)
(* there is no executable may it be executable.failed alone, for the next  *)
(* renames would overwrite it there.                                       *)
Kept(v) == v # 0 /\ (v \in backups \cup {exe} \/ (exe = 0 /\ v = failedFile))

(* That version is the one this process would restore, unless the first    *)
(* status of the next update is about to replace status.json.              *)
Safe(status) ==
  status.state = "restarting" =>
    /\ Kept(status.backup)
    /\ version # 0 /\ run # "checking" => status.backup = mem.backup
    /\ run \in Working => run = "checking" /\ owed # {}

FallbackInv == ~ faulty => \A status \in {disk} \cup owed : Safe(status)

LEMMA FailsFaulty ==
  ASSUME NEW certainly \in BOOLEAN, Fails(certainly), ~ faulty'
  PROVE  certainly /\ ~ faulty
BY DEF Fails, bad

LEMMA WrittenWell ==
  ASSUME NEW status, Written(status), ~ faulty'
  PROVE  disk' = status /\ ~ faulty
BY DEF Written, Fails, bad

LEMMA NoRecovery ==
  ASSUME [Next]_vars, ~ faulty'
  PROVE  ~ faulty
<1>1. \A certainly \in BOOLEAN : Fails(certainly) => ~ faulty
  BY FailsFaulty
<1>2. \A status : Written(status) => ~ faulty
  BY WrittenWell
<1>3. CASE \/ StartUpdate \/ FetchRelease \/ Proceed \/ FetchFails \/ Installed \/ Leave
           \/ Start \/ MarkStartupHealthy \/ WindowEnds \/ RolledBack \/ Exit \/ Publish
           \/ UNCHANGED vars
  BY <1>3 DEF StartUpdate, FetchRelease, Proceed, FetchFails, Installed, Leave, Start,
              MarkStartupHealthy, WindowEnds, RolledBack, Exit, Publish, vars, bad
<1>4. CASE BackUp \/ Swap \/ UndoBackUp \/ Signal \/ MoveFailed \/ RestoreOld \/ PutBack
  BY <1>1, <1>4 DEF BackUp, Swap, UndoBackUp, Signal, MoveFailed, RestoreOld, PutBack, bad
<1>5. CASE Persist \/ PersistLate \/ Crash
  BY <1>2, <1>5 DEF Persist, PersistLate, Crash, bad
<1> QED BY <1>3, <1>4, <1>5 DEF Next, Runner, HealthWindow

(* The files stay, and no status is in hand but old ones and such that say *)
(* nothing of a restart.                                                   *)
LEMMA SafeStays ==
  ASSUME FallbackInv, ~ faulty, UNCHANGED files,
         \A status \in {disk'} \cup owed' :
           status.state = "restarting" => status \in {disk} \cup owed,
         version' # 0 /\ run' # "checking" =>
           version # 0 /\ run # "checking" /\ mem'.backup = mem.backup,
         run' \in Working =>
           \/ run' = "checking" /\ owed' # {}
           \/ run' = run /\ (owed' = {} => owed = {})
  PROVE  FallbackInv'
<1>1. SUFFICES ASSUME NEW status \in {disk'} \cup owed', status.state = "restarting"
               PROVE  Safe(status)'
  BY DEF FallbackInv, Safe
<1>2. Safe(status)
  BY <1>1 DEF FallbackInv
<1>3. Kept(status.backup)'
  BY <1>1, <1>2 DEF Safe, Kept, files
<1>4. (version # 0 /\ run # "checking" => status.backup = mem.backup)'
  BY <1>1, <1>2 DEF Safe
<1>5. (run \in Working => run = "checking" /\ owed # {})'
  BY <1>1, <1>2 DEF Safe, Working
<1> QED BY <1>3, <1>4, <1>5 DEF Safe

(* While runUpdate works on, status.json does not ask for a restart.       *)
LEMMA WorkingSafe ==
  ASSUME FallbackInv, ~ faulty, run \in Working, owed = {}
  PROVE  disk.state # "restarting"
BY DEF FallbackInv, Safe

LEMMA RunnerSafe ==
  ASSUME FallbackInv, ~ faulty, run \in Working, owed = {}, HandsInv',
         run' # "leave", disk' = disk
  PROVE  FallbackInv'
<1>1. \A status \in {disk'} \cup owed' : status.state # "restarting"
  BY WorkingSafe DEF HandsInv
<1> QED BY <1>1 DEF FallbackInv, Safe

(* The rollback keeps what status.json falls back to where it can be found.*)
LEMMA RollbackSafe ==
  ASSUME FallbackInv, ~ faulty, version # 0, run \notin Working,
         UNCHANGED <<disk, owed, run, version>>, mem'.backup = mem.backup,
         Kept(mem.backup) => Kept(mem.backup)'
  PROVE  FallbackInv'
<1>1. SUFFICES ASSUME NEW status \in {disk} \cup owed, status.state = "restarting"
               PROVE  Safe(status)'
  BY DEF FallbackInv, Safe
<1>2. Safe(status) /\ run # "checking"
  BY <1>1, SomeStates DEF FallbackInv, Working, Transitional
<1>3. status.backup = mem.backup /\ Kept(mem.backup)
  BY <1>1, <1>2 DEF Safe
<1> QED BY <1>3 DEF Safe

LEMMA FallbackStep ==
  ASSUME TypeOK, OwnerInv, HandsInv, HandsInv', FallbackInv, [Next]_vars
  PROVE  FallbackInv'
<1> SUFFICES ASSUME ~ faulty' PROVE FallbackInv'
  BY DEF FallbackInv
<1>0. ~ faulty
  BY NoRecovery
<1>1. CASE StartUpdate
  <2>1. mem'.state = "checking" /\ owed' = {mem'}
    BY <1>1, IdleStatus, WithState, SomeStates DEF StartUpdate
  <2> QED BY <1>0, <1>1, <2>1, SafeStays DEF StartUpdate, process
<1>2. CASE FetchRelease \/ Proceed \/ FetchFails \/ BackUp \/ Swap \/ UndoBackUp
  <2>1. run \in Working /\ owed = {} /\ disk' = disk
    BY <1>2 DEF FetchRelease, Proceed, FetchFails, BackUp, Swap, UndoBackUp, RunAt, After,
                Working, Transitional
  <2>2. run' # "leave"
    <3>1. CASE FetchRelease \/ FetchFails \/ BackUp
      BY <3>1 DEF FetchRelease, FetchFails, BackUp, Finish
    <3>2. CASE Proceed
      BY <3>2 DEF Proceed, After
    <3>3. CASE Swap \/ UndoBackUp
      BY <3>3 DEF Swap, UndoBackUp, Finish
    <3> QED BY <1>2, <3>1, <3>2, <3>3
  <2> QED BY <1>0, <2>1, <2>2, RunnerSafe
<1>3. CASE Installed
  <2>1. disk.state # "restarting" /\ moved \in backups /\ moved # 0 /\ version # 0
    <3>1. run \in Working /\ owed = {} /\ run = "installed"
      BY <1>3 DEF Installed, RunAt, Working
    <3>2. moved # 0
      BY <3>1 DEF TypeOK, Versions
    <3> QED BY <1>0, <3>1, <3>2, WorkingSafe DEF HandsInv, OwnerInv
  <2>2. mem'.backup = moved /\ owed' = {mem'} /\ run' = "leave" /\ disk' = disk
        /\ UNCHANGED files
    BY <1>3 DEF Installed, TypeOK, Status
  <2>3. Kept(mem.backup)'
    BY <1>3, <2>1, <2>2 DEF Kept, Installed, files
  <2>4. \A status \in {disk'} \cup owed' : status.state = "restarting" => status = mem'
    BY <2>1, <2>2
  <2>5. Safe(mem)'
    BY <2>2, <2>3, SomeStates DEF Safe, Working
  <2> QED BY <2>2, <2>4, <2>5 DEF FallbackInv, Safe
<1>4. CASE Leave
  <2>1. run' = "idle" /\ run = "leave"
    BY <1>4 DEF Leave, RunAt
  <2> QED BY <1>0, <1>4, <2>1, SomeStates, SafeStays DEF Leave, process
<1>5. CASE Signal
  <2>1. UNCHANGED <<mem, run>>
    BY <1>0, <1>5, FailsFaulty DEF Signal
  <2> QED BY <1>0, <1>5, <2>1, SafeStays DEF Signal
<1>6. CASE Persist
  <2>1. PICK status \in owed : Written(status)
    BY <1>6 DEF Persist
  <2>2. disk' = status /\ owed' = {} /\ UNCHANGED <<files, version, run, mem>>
    BY <1>6, <2>1, WrittenWell DEF Persist, process
  <2>3. run \in Working => status.state # "restarting"
    BY <2>1, SomeStates DEF HandsInv
  <2>4. CASE status.state = "restarting"
    BY <1>0, <2>1, <2>2, <2>3, <2>4, SafeStays
  <2>5. CASE status.state # "restarting"
    BY <2>2, <2>5 DEF FallbackInv, Safe
  <2> QED BY <2>4, <2>5
<1>7. CASE PersistLate
  <2>1. PICK status \in late : Written(status)
    BY <1>7 DEF PersistLate
  <2>2. disk' = status /\ status.state # "restarting"
    BY <2>1, WrittenWell DEF HandsInv
  <2> QED BY <1>0, <1>7, <2>2, SafeStays DEF PersistLate, process, runner
<1>8. CASE Start
  <2>1. run = "idle" /\ owed = {} /\ UNCHANGED <<run, owed, disk>> /\ UNCHANGED files
    BY <1>8 DEF Start, OwnerInv, runner
  <2>2. mem'.backup = disk.backup
    BY <1>8, RecoveredStatus DEF Start, TypeOK
  <2>3. Kept(disk.backup) => Kept(disk.backup)'
    BY <2>1 DEF Kept, files
  <2> QED BY <1>0, <2>1, <2>2, <2>3, SomeStates DEF FallbackInv, Safe
<1>9. CASE MarkStartupHealthy
  <2>1. mem'.backup = mem.backup
    BY <1>9, ConcludeStatus, SomeStates DEF MarkStartupHealthy
  <2> QED BY <1>0, <1>9, <2>1, SafeStays DEF MarkStartupHealthy, runner
<1>10. CASE WindowEnds
  BY <1>0, <1>10, SafeStays DEF WindowEnds, process, runner
<1>11. CASE MoveFailed \/ RestoreOld \/ PutBack \/ RolledBack
  <2>1. version # 0 /\ run \notin Working
    BY <1>11 DEF OwnerInv, MoveFailed, RestoreOld, PutBack, RolledBack
  <2>2. UNCHANGED <<disk, owed, run, version>>
    BY <1>11 DEF MoveFailed, RestoreOld, PutBack, RolledBack, process, runner
  <2>3. mem'.backup = mem.backup
    <3>1. CASE MoveFailed \/ RestoreOld \/ PutBack
      BY <3>1 DEF MoveFailed, RestoreOld, PutBack
    <3>2. CASE RolledBack
      BY <3>2, ConcludeStatus, SomeStates DEF RolledBack
    <3> QED BY <1>11, <3>1, <3>2
  <2>4. Kept(mem.backup) => Kept(mem.backup)'
    <3>1. CASE MoveFailed
      BY <2>3, <3>1 DEF MoveFailed, Kept
    <3>2. CASE RestoreOld
      BY <2>3, <3>2 DEF RestoreOld, Kept, OwnerInv, HandsInv
    <3>3. CASE PutBack
      BY <2>3, <3>3 DEF PutBack, Kept, HandsInv
    <3>4. CASE RolledBack
      BY <2>3, <3>4 DEF RolledBack, Kept, OwnerInv
    <3> QED BY <1>11, <3>1, <3>2, <3>3, <3>4
  <2> QED BY <1>0, <2>1, <2>2, <2>3, <2>4, RollbackSafe
<1>12. CASE Dies
  BY <1>0, <1>12, SomeStates, SafeStays DEF Dies, NoGoroutines
<1>13. CASE Publish
  BY <1>0, <1>13, SafeStays DEF Publish, process, runner
<1>14. CASE UNCHANGED vars
  BY <1>0, <1>14, SafeStays DEF vars, process, runner
<1> QED BY <1>1, <1>2, <1>3, <1>4, <1>5, <1>6, <1>7, <1>8, <1>9, <1>10, <1>11, <1>12,
           <1>13, <1>14
        DEF Next, Runner, HealthWindow, Exit, Crash

LEMMA FallbackInit == Init => HandsInv /\ FallbackInv
BY IdleStatus DEF Init, HandsInv, FallbackInv, Safe

(* While disk and signals work, the version to fall back to is not lost as *)
(* long as status.json says that a restart is due, however often processes *)
(* die and rollbacks are cut short.                                        *)
THEOREM FallbackAlwaysKept == Spec => []FallbackIsKept
<1>1. FallbackInv => FallbackIsKept
  BY DEF FallbackInv, Safe, Kept, FallbackIsKept
<1> QED BY <1>1, TypesInit, TypesStep, OwnerInit, OwnerStep, HandsStep, FallbackInit,
           FallbackStep, PTL DEF Spec
=============================================================================
