------------------------------ MODULE Updater -------------------------------
(***************************************************************************)
(* The online updater (updater/updater.go): one process at a time runs the *)
(* executable, an update replaces it by renaming files and asks the        *)
(* supervisor (systemd, Restart=always) for a restart, and the next        *)
(* process confirms its own health or restores the backup.  The status is  *)
(* changed in memory under m.mu and written to update/status.json after    *)
(* the unlock; the process may die between any two of these steps.         *)
(*                                                                         *)
(* A file is represented by the version it holds, 0 if there is none; a    *)
(* backup, which the code names by the time, by the version in it.         *)
(***************************************************************************)
EXTENDS Naturals

CONSTANTS
  LastRelease,       \* bound: versions published, 1 is installed at first
  MaxTroubles        \* bound on crashes and on failures of the disk or a signal

ASSUME ReleaseAssumption == LastRelease \in Nat \ {0}
ASSUME TroubleAssumption == MaxTroubles \in Nat

Versions == 1 .. LastRelease

Transitional ==
  {"checking", "available", "downloading", "verifying", "backing_up", "applying"}
UpdateInProgress(state) == state \in Transitional \cup {"restarting"}

States == Transitional \cup {"idle", "restarting", "success", "failed", "rolled_back"}
Status == [state : States, target : 0 .. LastRelease, backup : 0 .. LastRelease]

VARIABLES
  exe, backups, failedFile,  \* the executable, the backups, executable.failed
  disk,                      \* status.json
  version,                   \* version of the running process, 0 if none runs
  mem, running,              \* m.state, m.running
  run,                       \* where runUpdate is
  signalDue,                 \* the goroutine that sends SIGTERM is sleeping
  moved,                     \* its local variable backupPath
  owed,                      \* it (or StartUpdate) is writing the status: a set
  late,                      \* statuses that goroutines with no more to do write
  window, rollTo,            \* the startup health window and its backupPath
  marked,                    \* MarkStartupHealthy has run in this process
  stopping,                  \* SIGTERM was sent
  latest,                    \* newest release on GitHub
  troubles,                  \* history: crashes and failures so far
  faulty,                    \* history: the disk or a signal has failed
  good                       \* history: versions that were marked healthy

files == <<exe, backups, failedFile>>
process == <<version, marked, stopping>>
runner == <<run, moved, owed, signalDue>>
health == <<window, rollTo>>
bad == <<troubles, faulty>>
outside == <<latest, good>>
vars == <<files, disk, process, mem, running, runner, late, health, outside, bad>>

Idle == [state |-> "idle", target |-> 0, backup |-> 0]

(* The goroutines of a new process; those of a dead one are gone.          *)
NoGoroutines ==
  /\ run' = "idle" /\ moved' = 0 /\ owed' = {} /\ signalDue' = FALSE
  /\ marked' = FALSE /\ stopping' = FALSE

Init ==
  /\ exe = 1 /\ backups = {} /\ failedFile = 0
  /\ disk = Idle /\ mem = Idle /\ running = FALSE
  /\ version = 1 /\ marked = TRUE /\ stopping = FALSE
  /\ run = "idle" /\ moved = 0 /\ owed = {} /\ signalDue = FALSE /\ late = {}
  /\ window = "off" /\ rollTo = 0
  /\ latest = 1 /\ good = {1}
  /\ troubles = 0 /\ faulty = FALSE

-----------------------------------------------------------------------------
(* A rename, a write or the signal fails: certainly where its file does    *)
(* not exist, else as one of the troubles that may happen.                 *)
Fails(certainly) ==
  IF certainly THEN UNCHANGED bad
  ELSE /\ troubles < MaxTroubles
       /\ troubles' = troubles + 1 /\ faulty' = TRUE

(* persistStatus: the status in hand replaces status.json, or an error is  *)
(* logged and dropped.                                                     *)
Written(status) ==
  \/ disk' = status /\ UNCHANGED bad
  \/ Fails(FALSE) /\ UNCHANGED disk

Persist ==
  /\ \E status \in owed : Written(status)
  /\ owed' = {}
  /\ UNCHANGED <<files, process, mem, running, run, moved, signalDue, late, health,
                 outside>>

PersistLate ==
  /\ \E status \in late : Written(status) /\ late' = late \ {status}
  /\ UNCHANGED <<files, process, mem, running, runner, health, outside>>

(* A goroutine sets a terminal state, and writes it before it ends.        *)
Conclude(state) ==
  /\ mem' = [mem EXCEPT !.state = state]
  /\ running' = FALSE
  /\ late' = late \cup {mem'}

(* fail and rollbackState: the end of runUpdate.                           *)
Finish(state) ==
  /\ Conclude(state)
  /\ run' = "idle" /\ moved' = 0 /\ owed' = {} /\ signalDue' = signalDue

(* setState from runUpdate.                                                *)
SetState(state, target) ==
  /\ mem' = [mem EXCEPT !.state = state, !.target = target]
  /\ owed' = {mem'}
  /\ UNCHANGED <<running, signalDue, late>>

-----------------------------------------------------------------------------
(* A request comes after MarkStartupHealthy, which follows the start of    *)
(* the API at once, and never within the few file operations of a rollback *)
(* or of the end of a runUpdate that a rollback overtook.                  *)
StartUpdate ==
  /\ version # 0 /\ marked /\ window \in {"off", "armed"} /\ run = "idle"
  /\ ~ running /\ ~ UpdateInProgress(mem.state)
  /\ running' = TRUE
  /\ mem' = [Idle EXCEPT !.state = "checking"]
  /\ owed' = {mem'}
  /\ run' = "checking"
  /\ UNCHANGED <<files, disk, process, moved, signalDue, late, health, outside, bad>>

(* runUpdate goes on once its last status is written.                      *)
RunAt(pc) == run = pc /\ owed = {}

(* The release was fetched: nothing newer, or an update to it begins.      *)
FetchRelease ==
  /\ RunAt("checking")
  /\ \/ latest <= version /\ Finish("failed")
     \/ /\ latest > version
        /\ SetState("available", latest)
        /\ run' = "available" /\ moved' = moved
  /\ UNCHANGED <<files, disk, process, health, outside, bad>>

After ==
  [available |-> "downloading", downloading |-> "verifying",
   verifying |-> "backing_up", backing_up |-> "applying"]

Proceed ==
  /\ \E pc \in DOMAIN After :
       /\ RunAt(pc)
       /\ run' = After[pc]
       /\ SetState(After[pc], mem.target)
  /\ UNCHANGED <<files, disk, process, moved, health, outside, bad>>

(* The network, an asset or a checksum fails.                              *)
FetchFails ==
  /\ \E pc \in {"checking", "available", "downloading", "verifying"} : RunAt(pc)
  /\ Finish("failed")
  /\ UNCHANGED <<files, disk, process, health, outside, bad>>

\* Wrong variant for the mutation runs: the old executable is removed.
BackUpRemoves ==
  /\ RunAt("applying")
  /\ exe # 0 /\ exe' = 0 /\ moved' = exe /\ run' = "swap"
  /\ UNCHANGED <<backups, mem, running, owed, signalDue, late, bad>>
  /\ UNCHANGED <<failedFile, disk, process, health, outside>>

(* replaceBinary: executable to backup, download to executable, and backup *)
(* back to executable when that fails.                                     *)
BackUp ==
  /\ RunAt("applying")
  /\ \/ /\ exe # 0
        /\ backups' = backups \cup {exe} /\ exe' = 0
        /\ moved' = exe /\ run' = "swap"
        /\ UNCHANGED <<mem, running, owed, signalDue, late, bad>>
     \/ /\ Fails(exe = 0)
        /\ Finish("rolled_back")
        /\ UNCHANGED <<exe, backups>>
  /\ UNCHANGED <<failedFile, disk, process, health, outside>>

Swap ==
  /\ RunAt("swap")
  /\ \/ exe' = mem.target /\ run' = "installed" /\ UNCHANGED bad
     \/ Fails(FALSE) /\ exe' = exe /\ run' = "undo"
  /\ UNCHANGED <<backups, failedFile, disk, process, mem, running, moved, owed, signalDue,
                 late, health, outside>>

UndoBackUp ==
  /\ RunAt("undo")
  /\ \/ /\ moved \in backups
        /\ exe' = moved /\ backups' = backups \ {moved}
        /\ Finish("rolled_back")
        /\ UNCHANGED bad
     \/ /\ Fails(moved \notin backups)
        /\ Finish("failed")
        /\ UNCHANGED <<exe, backups>>
  /\ UNCHANGED <<failedFile, disk, process, health, outside>>

(* Wrong variant: BackupPath is set after setState.                        *)
InstalledUnnamed ==
  /\ RunAt("installed")
  /\ owed' = {[mem EXCEPT !.state = "restarting"]}
  /\ mem' = [mem EXCEPT !.state = "restarting", !.backup = moved]
  /\ run' = "leave"
  /\ UNCHANGED <<files, disk, process, running, moved, signalDue, late, health, outside, bad>>

(* BackupPath and Restarting are set in two critical sections; nobody      *)
(* reads the first without the second.                                     *)
Installed ==
  /\ RunAt("installed")
  /\ mem' = [mem EXCEPT !.state = "restarting", !.backup = moved]
  /\ owed' = {mem'}
  /\ run' = "leave"
  /\ UNCHANGED <<files, disk, process, running, moved, signalDue, late, health, outside, bad>>

Leave ==
  /\ RunAt("leave")
  /\ run' = "idle" /\ moved' = 0 /\ signalDue' = TRUE
  /\ UNCHANGED <<files, disk, process, mem, running, owed, late, health, outside, bad>>

(* A process can always signal itself; the error path is kept for the case *)
(* that nothing else goes on.                                              *)
Signal ==
  /\ signalDue
  /\ signalDue' = FALSE
  /\ \/ stopping' = TRUE /\ UNCHANGED <<mem, running, late, bad>>
     \/ /\ run = "idle" /\ Fails(FALSE)
        /\ Conclude("failed") /\ UNCHANGED stopping
  /\ UNCHANGED <<files, disk, version, marked, run, moved, owed, health, outside>>

-----------------------------------------------------------------------------
(* Wrong variant: a state is missing from the list of interrupted ones.    *)
RecoveredInPart(status) ==
  IF status.state \in Transitional \ {"downloading"}
    THEN [status EXCEPT !.state = IF 0 < status.target /\ status.target <= exe
                                    THEN "success" ELSE "failed"]
    ELSE status

(* NewManager when the supervisor starts what it finds at the executable's *)
(* path: an interrupted update becomes a terminal state, a restart arms    *)
(* the health window.                                                      *)
Recovered(status) ==
  IF status.state \in Transitional
    THEN [status EXCEPT !.state = IF 0 < status.target /\ status.target <= exe
                                    THEN "success" ELSE "failed"]
    ELSE status

Start ==
  /\ version = 0 /\ exe # 0
  /\ version' = exe
  /\ mem' = Recovered(disk)
  /\ late' = {mem'} \ {disk}
  /\ window' = IF disk.state = "restarting" THEN "armed" ELSE "off"
  /\ UNCHANGED <<files, disk, marked, stopping, running, runner, rollTo, outside, bad>>

MarkStartupHealthy ==
  /\ version # 0 /\ ~ marked
  /\ marked' = TRUE
  /\ good' = good \cup {version}
  /\ IF mem.state = "restarting"
       THEN Conclude("success")
       ELSE UNCHANGED <<mem, running, late>>
  /\ UNCHANGED <<files, disk, version, stopping, runner, health, latest, bad>>

(* armStartupHealthWindow after 45 s, and RollbackLastUpdate.              *)
WindowEnds ==
  /\ window = "armed"
  /\ IF mem.state = "restarting" /\ mem.backup # 0
       THEN window' = "move" /\ rollTo' = mem.backup
       ELSE window' = "off" /\ rollTo' = 0
  /\ UNCHANGED <<files, disk, process, mem, running, runner, late, outside, bad>>

MoveFailed ==
  /\ window = "move"
  /\ \/ exe # 0 /\ failedFile' = exe /\ exe' = 0 /\ window' = "restore"
        /\ UNCHANGED bad
     \/ Fails(exe = 0) /\ window' = "off" /\ UNCHANGED <<exe, failedFile>>
  /\ UNCHANGED <<backups, disk, process, mem, running, runner, late, rollTo, outside>>

RestoreOld ==
  /\ window = "restore"
  /\ \/ /\ rollTo \in backups
        /\ exe' = rollTo /\ backups' = backups \ {rollTo} /\ window' = "restored"
        /\ UNCHANGED bad
     \/ /\ Fails(rollTo \notin backups)
        /\ window' = "putback" /\ UNCHANGED <<exe, backups>>
  /\ UNCHANGED <<failedFile, disk, process, mem, running, runner, late, rollTo, outside>>

PutBack ==
  /\ window = "putback"
  /\ window' = "off"
  /\ \/ failedFile # 0 /\ exe' = failedFile /\ failedFile' = 0 /\ UNCHANGED bad
     \/ Fails(failedFile = 0) /\ UNCHANGED <<exe, failedFile>>
  /\ UNCHANGED <<backups, disk, process, mem, running, runner, late, rollTo, outside>>

RolledBack ==
  /\ window = "restored"
  /\ window' = "off"
  /\ failedFile' = 0
  /\ Conclude("rolled_back")
  /\ UNCHANGED <<exe, backups, disk, process, runner, rollTo, outside, bad>>

-----------------------------------------------------------------------------
(* The process ends: everything in memory is gone.                         *)
Dies ==
  /\ version' = 0 /\ mem' = Idle /\ running' = FALSE /\ late' = {}
  /\ window' = "off" /\ rollTo' = 0
  /\ NoGoroutines
  /\ UNCHANGED <<files, disk, latest, good>>

Exit == version # 0 /\ stopping /\ Dies /\ UNCHANGED bad

Crash ==
  /\ version # 0 /\ troubles < MaxTroubles
  /\ troubles' = troubles + 1 /\ UNCHANGED faulty
  /\ Dies

Publish ==
  /\ latest < LastRelease
  /\ latest' = latest + 1
  /\ UNCHANGED <<files, disk, process, mem, running, runner, late, health, good, bad>>

Runner ==
  \/ FetchRelease \/ Proceed \/ FetchFails
  \/ BackUp \/ Swap \/ UndoBackUp \/ Installed \/ Leave

HealthWindow == WindowEnds \/ MoveFailed \/ RestoreOld \/ PutBack \/ RolledBack

Next ==
  \/ StartUpdate \/ Runner \/ Signal \/ Persist \/ PersistLate
  \/ Start \/ MarkStartupHealthy \/ HealthWindow
  \/ Exit \/ Crash \/ Publish

Spec == Init /\ [][Next]_vars

(* Goroutines run, a started process reaches MarkStartupHealthy or dies,   *)
(* and the supervisor restarts what it can.                                *)
FairSpec ==
  /\ Spec
  /\ WF_vars(Runner) /\ WF_vars(Signal) /\ WF_vars(Persist) /\ WF_vars(PersistLate)
  /\ WF_vars(HealthWindow) /\ WF_vars(MarkStartupHealthy)
  /\ WF_vars(Exit) /\ WF_vars(Start)

-----------------------------------------------------------------------------
(* Types; from the backup to its end, runUpdate knows which version it     *)
(* moved away.                                                             *)
TypeOK ==
  /\ exe \in 0 .. LastRelease /\ backups \subseteq Versions
  /\ failedFile \in 0 .. LastRelease
  /\ disk \in Status /\ mem \in Status /\ owed \subseteq Status /\ late \subseteq Status
  /\ version \in 0 .. LastRelease
  /\ running \in BOOLEAN /\ marked \in BOOLEAN /\ stopping \in BOOLEAN
  /\ signalDue \in BOOLEAN
  /\ run \in {"idle", "swap", "undo", "installed", "leave"} \cup Transitional
  /\ moved \in (IF run \in {"swap", "undo", "installed", "leave"} THEN Versions ELSE {0})
  /\ rollTo \in 0 .. LastRelease
  /\ window \in {"off", "armed", "move", "restore", "restored", "putback"}
  /\ latest \in Versions /\ troubles \in 0 .. MaxTroubles /\ faulty \in BOOLEAN /\ good \subseteq Versions

(* An update lock always has an owner: while the status is transitional,   *)
(* runUpdate is alive and will end it.  Recovery of stale states in Status *)
(* and StartUpdate is therefore never needed within a process.             *)
LockHasOwner ==
  mem.state \in Transitional => running /\ run # "idle"

(* A device can always be repaired by hand: whatever crashes and failed    *)
(* renames happen, a version that has once started well is still on disk.  *)
GoodVersionSurvives ==
  good \cap ({exe, failedFile} \cup backups) # {}

(* While disk and signals work: as long as status.json says that a restart *)
(* is due, the version to fall back to is not lost, also when the fallback *)
(* itself was cut short and the restored version in turn missed its health *)
(* window.                                                                 *)
FallbackIsKept ==
  disk.state = "restarting" /\ ~ faulty =>
    disk.backup # 0 /\ disk.backup \in backups \cup {exe, failedFile}

(* An update ends.  In the end the process, or the one restarted after it, *)
(* accepts updates again, unless no executable is left to start.           *)
UpdateEnds ==
  version # 0 /\ UpdateInProgress(mem.state) ~>
    \/ version # 0 /\ ~ UpdateInProgress(mem.state)
    \/ version = 0 /\ exe = 0

=============================================================================
