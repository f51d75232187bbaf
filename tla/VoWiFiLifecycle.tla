-------------------------- MODULE VoWiFiLifecycle ---------------------------
(***************************************************************************)
(* The VoWiFi runtime of one device (vowifihost/): commands submitted by   *)
(* users, the reconciler and the eSIM switch go through the lifecycle      *)
(* controller, which runs most of them one at a time and lets SwitchBegin  *)
(* and Restart preempt; module reconnects tear down beside it.  What keeps *)
(* concurrent starts and teardowns apart is the epoch of the runtime slot. *)
(*                                                                         *)
(* A command starts at most one runtime instance, so the instance carries  *)
(* the number of its command.  A slot absent from the store behaves as the *)
(* zero slot, which is how it is modelled.                                 *)
(***************************************************************************)
EXTENDS Naturals, FiniteSets

CONSTANTS
  MaxCommands,       \* bound on commands submitted
  MaxSwitches,       \* bound on SwitchBegin among them
  MaxRestarts,       \* bound on Restart among them
  Kinds              \* the kinds of command that are submitted

Commands == 1 .. MaxCommands
None == 0

ASSUME CommandsAssumption ==
  MaxCommands \in Nat /\ MaxSwitches \in Nat /\ MaxRestarts \in Nat
ASSUME KindsAssumption ==
  Kinds \subseteq {"enable", "disable", "restart", "recover",
                   "switchBegin", "switchEnd", "reconnect"}

VARIABLES
  generation,        \* deviceLifecycle.generation
  lock,              \* the command that holds deviceLifecycle.runMu
  runCancel,         \* the command whose context runCancel cancels
  slot,              \* runtimeSlot
  tunnel,            \* the tunnel of each command's instance
  switching,         \* Pool.switchingDevices
  smsMode,           \* Worker.smsMode
  busy,              \* generations for which an APDU-busy retry is scheduled
  cmd,               \* the goroutine of each command
  escaped            \* history: runs that outlasted a switch that had taken
                     \* their runCancel without calling it

control == <<generation, lock, runCancel>>
radio == <<switching, smsMode, busy>>
vars == <<control, slot, tunnel, radio, cmd, escaped>>

Preempting == {"switchBegin", "restart"}

ZeroSlot ==
  [inst |-> None, starting |-> FALSE, epoch |-> 0, hasState |-> FALSE, failed |-> FALSE]

NotSubmitted ==
  [pc |-> "unused", kind |-> "enable", gen |-> 0, epoch |-> 0, victim |-> None,
   cancelled |-> FALSE, superseded |-> FALSE]

Init ==
  /\ generation = 0 /\ lock = None /\ runCancel = None
  /\ slot = ZeroSlot
  /\ tunnel = [c \in Commands |-> "none"]
  /\ switching = FALSE /\ smsMode = "modem" /\ busy = {}
  /\ cmd = [c \in Commands |-> NotSubmitted] /\ escaped = {}

At(c, pc) == cmd[c].pc = pc
Goto(c, pc) == cmd' = [cmd EXCEPT ![c].pc = pc]

(* What the later course of the program can depend on after the return.    *)
Returned(c) ==
  [NotSubmitted EXCEPT
     !.pc = "done", !.superseded = cmd[c].superseded,
     !.kind = IF cmd[c].kind \in Preempting \cup {"switchEnd", "reconnect"}
                THEN cmd[c].kind ELSE @]

(* Mutant: runCancel goes on naming a run that has returned.               *)
FinishBound(c) ==
  /\ cmd' = [cmd EXCEPT ![c] = Returned(c)]
  /\ lock' = IF lock = c THEN None ELSE lock
  /\ UNCHANGED <<generation, runCancel>>

(* The deferred clearRun and runMu.Unlock; clearRun leaves a cancel that a *)
(* later command has bound.                                                *)
Finish(c) ==
  /\ cmd' = [cmd EXCEPT ![c] = Returned(c)]
  /\ lock' = IF lock = c THEN None ELSE lock
  /\ runCancel' = IF runCancel = c THEN None ELSE runCancel
  /\ UNCHANGED generation

-----------------------------------------------------------------------------
(* Submission (lifecycle_api.go and its callers in device/).               *)

EntryPoint(kind) ==
  CASE kind \in {"disable", "restart"} -> "expire"
    [] kind = "reconnect" -> "invalidate"
    [] kind = "switchBegin" -> "number"
    [] OTHER -> "lock"

CommandsOf(kind) == Cardinality({c \in Commands : cmd[c].kind = kind})

(* SwitchEnd has been submitted for the latest switch.                     *)
Restoring ==
  \E e \in Commands :
    /\ cmd[e].kind = "switchEnd"
    /\ \A b \in Commands : b > e => cmd[b].kind # "switchBegin"

SwitchBegun ==
  /\ switching
  /\ \E c \in Commands : cmd[c].kind = "switchBegin"
  /\ \A c \in Commands : cmd[c].kind \in {"switchBegin", "switchEnd"}
                           => cmd[c].pc \in {"unused", "done"}

(* gen is preset by an APDU-busy retry of an earlier start, else 0.        *)
Submit(c, kind, gen) ==
  /\ At(c, "unused") /\ \A d \in 1 .. c - 1 : ~ At(d, "unused")
  /\ kind \in {"enable", "disable"} => ~ switching
  /\ kind = "restart" => CommandsOf(kind) < MaxRestarts
  /\ kind = "switchBegin" => CommandsOf(kind) < MaxSwitches /\ ~ switching
  /\ kind = "switchEnd" => SwitchBegun
  /\ gen # 0 => kind = "recover" /\ slot.inst = None
  /\ switching' = (switching \/ kind = "switchBegin")
  /\ cmd' = [cmd EXCEPT ![c].pc = EntryPoint(kind), ![c].kind = kind, ![c].gen = gen]
  /\ UNCHANGED <<control, slot, tunnel, smsMode, busy, escaped>>

(* A run that is not cancelled and that runCancel does not name: nobody    *)
(* can cancel it any more.                                                 *)
Uncancellable(c) ==
  /\ lock = c /\ ~ At(c, "admit") /\ ~ At(c, "bind")
  /\ runCancel # c /\ ~ cmd[c].cancelled

(* clearESIMSwitchIfToken, when the switch has been finalised.             *)
EndSwitch ==
  /\ SwitchBegun
  /\ switching' = FALSE
  /\ escaped' = escaped \cup {c \in Commands : Uncancellable(c)}
  /\ UNCHANGED <<control, slot, tunnel, smsMode, busy, cmd>>

-----------------------------------------------------------------------------
(* The controller (controller.go).                                         *)

AcquireLock(c) ==
  /\ At(c, "lock") /\ lock = None
  /\ lock' = c
  /\ Goto(c, "admit")
  /\ UNCHANGED <<generation, runCancel, slot, tunnel, radio>>

Stale(c) == cmd[c].gen # 0 /\ generation # 0 /\ cmd[c].gen # generation

Admit(c) ==
  /\ At(c, "admit")
  /\ \/ /\ Stale(c) \/ (cmd[c].kind = "enable" /\ slot.inst # None)
        /\ Finish(c)
     \/ /\ ~ Stale(c) /\ cmd[c].gen # 0
        /\ Goto(c, "bind")
        /\ UNCHANGED control
     \/ /\ ~ Stale(c) /\ cmd[c].gen = 0
        /\ cmd[c].kind = "enable" => slot.inst = None
        /\ generation' = generation + 1
        /\ cmd' = [cmd EXCEPT ![c].pc = "bind", ![c].gen = generation + 1]
        /\ UNCHANGED <<lock, runCancel>>
  /\ UNCHANGED <<slot, tunnel, radio>>

(* submitPreempting takes a number and cancels the bound run, unlocked.    *)
Number(c) ==
  /\ At(c, "number")
  /\ generation' = generation + 1
  /\ cmd' = [cmd EXCEPT ![c].pc = "cancel", ![c].gen = generation + 1]
  /\ UNCHANGED <<lock, runCancel, slot, tunnel, radio>>

(* Mutant: SwitchBegin and Restart do not cancel the run in progress.      *)
CancelNobody(c) ==
  /\ At(c, "cancel") /\ Goto(c, "bind")
  /\ UNCHANGED <<control, slot, tunnel, radio>>

CancelActiveRun(c) ==
  /\ At(c, "cancel")
  /\ cmd' = [d \in Commands |->
               IF d = c THEN [cmd[c] EXCEPT !.pc = "bind"]
               ELSE [cmd[d] EXCEPT !.cancelled = @ \/ d = runCancel]]
  /\ UNCHANGED <<control, slot, tunnel, radio>>

FirstStep(kind) ==
  CASE kind \in {"enable", "switchEnd"} -> "check"
    [] kind = "disable" -> "teardown"
    [] kind = "recover" -> "inactive"
    [] OTHER -> "invalidate"

BindRunContext(c) ==
  /\ At(c, "bind")
  /\ runCancel' = c
  /\ Goto(c, FirstStep(cmd[c].kind))
  /\ UNCHANGED <<generation, lock, slot, tunnel, radio>>

-----------------------------------------------------------------------------
(* Teardown (teardown.go).                                                 *)

InFlight(c) == cmd[c].pc \in {"prepare", "start", "connect", "tunnel", "claim"}

InvalidateSlot ==
  /\ slot' = [ZeroSlot EXCEPT !.inst = slot.inst, !.epoch = slot.epoch + 1]
  /\ UNCHANGED tunnel

Superseding == [d \in Commands |-> [cmd[d] EXCEPT !.superseded = @ \/ InFlight(d)]]

(* Manager.Disable and Restart invalidate before they submit.              *)
Expire(c) ==
  /\ At(c, "expire")
  /\ InvalidateSlot
  /\ cmd' = [Superseding EXCEPT ![c].pc = IF cmd[c].kind = "disable" THEN "lock" ELSE "number"]
  /\ UNCHANGED <<control, radio>>

Invalidate(c) ==
  /\ At(c, "invalidate")
  /\ InvalidateSlot
  /\ cmd' = [Superseding EXCEPT ![c].pc = "teardown"]
  /\ UNCHANGED <<control, radio>>

(* After its teardown a restart or recover waits for the modem, the other  *)
(* commands are done.                                                      *)
AfterTeardown(c) ==
  IF cmd[c].kind \in {"restart", "recover"}
    THEN Goto(c, "ready") /\ UNCHANGED control
    ELSE Finish(c)

ReadInstance(c) ==
  /\ At(c, "teardown")
  /\ \/ /\ slot.inst # None
        /\ cmd' = [cmd EXCEPT ![c].pc = "stop", ![c].victim = slot.inst]
        /\ UNCHANGED control
     \/ /\ slot.inst = None /\ cmd[c].kind \in {"disable", "restart"}
        /\ Goto(c, "sms")
        /\ UNCHANGED control
     \/ /\ slot.inst = None /\ cmd[c].kind \notin {"disable", "restart"}
        /\ AfterTeardown(c)
  /\ UNCHANGED <<slot, tunnel, radio>>

(* Instance.Stop returns at once when another goroutine is stopping it.    *)
BeginStop(c) ==
  /\ At(c, "stop")
  /\ \/ /\ tunnel[cmd[c].victim] = "up"
        /\ tunnel' = [tunnel EXCEPT ![cmd[c].victim] = "closing"]
        /\ Goto(c, "down")
     \/ /\ tunnel[cmd[c].victim] # "up"
        /\ Goto(c, "delete")
        /\ UNCHANGED tunnel
  /\ UNCHANGED <<control, slot, radio>>

(* The observer of an instance that is not current records its last state  *)
(* as startup state.                                                       *)
Observed == [slot EXCEPT !.hasState = @ \/ slot.inst = None]

EndStop(c) ==
  /\ At(c, "down")
  /\ tunnel' = [tunnel EXCEPT ![cmd[c].victim] = "down"]
  /\ slot' = Observed
  /\ Goto(c, "delete")
  /\ UNCHANGED <<control, radio>>

(* Mutant: whatever instance is current is deleted.                        *)
DeleteAnyInstance(c) ==
  /\ At(c, "delete")
  /\ slot' = [ZeroSlot EXCEPT !.epoch = slot.epoch]
  /\ Goto(c, "sms")
  /\ UNCHANGED <<control, tunnel, radio>>

DeleteInstance(c) ==
  /\ At(c, "delete")
  /\ slot' = IF slot.inst = cmd[c].victim
               THEN [ZeroSlot EXCEPT !.epoch = slot.epoch] ELSE slot
  /\ Goto(c, "sms")
  /\ UNCHANGED <<control, tunnel, radio>>

(* Mutant: the poller is not resumed after a teardown.                     *)
LeaveSMSMode(c) ==
  /\ At(c, "sms") /\ AfterTeardown(c)
  /\ UNCHANGED <<slot, tunnel, radio>>

RestoreSMSMode(c) ==
  /\ At(c, "sms")
  /\ smsMode' = "modem"
  /\ AfterTeardown(c)
  /\ UNCHANGED <<slot, tunnel, switching, busy>>

-----------------------------------------------------------------------------
(* Starting (lifecycle_run.go, runtime_start.go, runtimehost.Start).       *)

WaitReady(c) ==
  /\ At(c, "ready")
  /\ \/ Goto(c, "check") /\ UNCHANGED control
     \/ Finish(c)
  /\ UNCHANGED <<slot, tunnel, radio>>

SkipActive(c) ==
  /\ At(c, "inactive")
  /\ \/ (slot.inst # None \/ slot.starting) /\ Finish(c)
     \/ /\ slot.inst = None /\ ~ slot.starting
        /\ Goto(c, "invalidate")
        /\ UNCHANGED control
  /\ UNCHANGED <<slot, tunnel, radio>>

(* SwitchEnd restores VoWiFi while the device still counts as switching.   *)
CheckSwitching(c) ==
  /\ At(c, "check")
  /\ IF switching /\ cmd[c].kind # "switchEnd"
       THEN Finish(c)
       ELSE Goto(c, "begin") /\ UNCHANGED control
  /\ UNCHANGED <<slot, tunnel, radio>>

BeginStart(c) ==
  /\ At(c, "begin")
  /\ \/ /\ slot.inst # None \/ slot.starting
        /\ Finish(c)
        /\ UNCHANGED slot
     \/ /\ slot.inst = None /\ ~ slot.starting
        /\ slot' = [slot EXCEPT !.starting = TRUE, !.failed = FALSE]
        /\ cmd' = [cmd EXCEPT ![c].pc = "prepare", ![c].epoch = slot.epoch]
        /\ UNCHANGED control
  /\ UNCHANGED <<tunnel, radio>>

RecordStartupState == slot' = [slot EXCEPT !.hasState = @ \/ slot.inst = None]

(* PrepareStart fails or records that the SIM is ready.                    *)
Prepare(c) ==
  /\ At(c, "prepare")
  /\ \/ Goto(c, "fail") /\ UNCHANGED slot
     \/ Goto(c, "start") /\ RecordStartupState
  /\ UNCHANGED <<control, tunnel, radio>>

ShouldRun(c) == slot.epoch = cmd[c].epoch /\ ~ cmd[c].cancelled

(* runtimehost.Start up to BeforeStart, whose proxy probe may fail.        *)
StartInstance(c) ==
  /\ At(c, "start")
  /\ \/ ~ ShouldRun(c) /\ Goto(c, "error") /\ UNCHANGED slot
     \/ ShouldRun(c) /\ RecordStartupState /\ (Goto(c, "connect") \/ Goto(c, "error"))
  /\ UNCHANGED <<control, tunnel, radio>>

ConnectInstance(c) ==
  /\ At(c, "connect")
  /\ Goto(c, IF ShouldRun(c) THEN "tunnel" ELSE "error")
  /\ UNCHANGED <<control, slot, tunnel, radio>>

(* StartAndWaitEPDG: a cancelled context may lose the race against the     *)
(* poll that finds the tunnel established.                                 *)
Establish(c) ==
  /\ At(c, "tunnel")
  /\ \/ /\ tunnel' = [tunnel EXCEPT ![c] = "up"]
        /\ Goto(c, "claim")
     \/ Goto(c, "error") /\ UNCHANGED tunnel
  /\ UNCHANGED <<control, slot, radio>>

(* Mutant: the epoch is not compared when a started instance is claimed.   *)
ClaimableAtAnyEpoch(c) == slot.inst = None

Claimable(c) == slot.epoch = cmd[c].epoch /\ slot.inst = None

ClaimStarted(c) ==
  /\ At(c, "claim")
  /\ \/ /\ Claimable(c)
        /\ slot' = [ZeroSlot EXCEPT !.inst = c, !.epoch = slot.epoch]
        /\ Goto(c, "claimed")
     \/ /\ ~ Claimable(c)
        /\ Goto(c, "discard")
        /\ UNCHANGED slot
  /\ UNCHANGED <<control, tunnel, radio>>

(* A stale instance is stopped by the goroutine that started it.           *)
Discard(c) ==
  /\ At(c, "discard")
  /\ tunnel' = [tunnel EXCEPT ![c] = "down"]
  /\ slot' = Observed
  /\ Goto(c, "forget")
  /\ UNCHANGED <<control, radio>>

(* ClearStartupState drops a slot that holds nothing else, epoch included. *)
Cleared ==
  IF ~ slot.hasState THEN slot
  ELSE IF slot.inst = None /\ ~ slot.starting /\ ~ slot.failed THEN ZeroSlot
  ELSE [slot EXCEPT !.hasState = FALSE]

Forget(c) ==
  /\ At(c, "forget")
  /\ slot' = Cleared
  /\ Finish(c)
  /\ UNCHANGED <<tunnel, radio>>

ClearStartupState(c) ==
  /\ At(c, "claimed")
  /\ slot' = Cleared
  /\ Goto(c, "mark")
  /\ UNCHANGED <<control, tunnel, radio>>

MarkRuntimeStarted(c) ==
  /\ At(c, "mark")
  /\ smsMode' = "vowifi"
  /\ Finish(c)
  /\ UNCHANGED <<slot, tunnel, switching, busy>>

(* HandleStartupError: a busy card schedules retries for this generation.  *)
HandleStartupError(c) ==
  /\ At(c, "error")
  /\ slot' = Cleared
  /\ busy' \in {busy, busy \cup {cmd[c].gen}}
  /\ Goto(c, "fail")
  /\ UNCHANGED <<control, tunnel, switching, smsMode>>

(* Mutant: the command ends without unlocking runMu.                       *)
FailAndKeepLock(c) ==
  /\ At(c, "fail")
  /\ cmd' = [cmd EXCEPT ![c] = Returned(c)]
  /\ runCancel' = IF runCancel = c THEN None ELSE runCancel
  /\ slot' = [slot EXCEPT !.starting = FALSE, !.hasState = TRUE, !.failed = TRUE]
  /\ UNCHANGED <<generation, lock, tunnel, radio>>

FailStart(c) ==
  /\ At(c, "fail")
  /\ slot' = IF slot.epoch = cmd[c].epoch
               THEN [slot EXCEPT !.starting = FALSE, !.hasState = TRUE, !.failed = TRUE]
               ELSE slot
  /\ Finish(c)
  /\ UNCHANGED <<tunnel, radio>>

-----------------------------------------------------------------------------
Run(c) ==
  \/ Admit(c) \/ Number(c) \/ CancelActiveRun(c) \/ BindRunContext(c)
  \/ Expire(c) \/ Invalidate(c) \/ ReadInstance(c) \/ BeginStop(c) \/ EndStop(c)
  \/ DeleteInstance(c) \/ RestoreSMSMode(c)
  \/ WaitReady(c) \/ SkipActive(c) \/ CheckSwitching(c) \/ BeginStart(c)
  \/ Prepare(c) \/ StartInstance(c) \/ ConnectInstance(c) \/ Establish(c)
  \/ ClaimStarted(c) \/ Discard(c) \/ Forget(c) \/ ClearStartupState(c)
  \/ MarkRuntimeStarted(c) \/ HandleStartupError(c) \/ FailStart(c)

Next ==
  \/ \E c \in Commands :
       \/ \E kind \in Kinds, gen \in busy \cup {0} : Submit(c, kind, gen)
       \/ AcquireLock(c) /\ UNCHANGED escaped
       \/ Run(c) /\ UNCHANGED escaped
  \/ EndSwitch

Spec == Init /\ [][Next]_vars

(* Goroutines run, waits and tunnel set-up are bounded by timeouts, and a  *)
(* Go mutex does not starve its waiters.                                   *)
FairSpec == Spec /\ \A c \in Commands : WF_vars(Run(c)) /\ SF_vars(AcquireLock(c))

-----------------------------------------------------------------------------
Running(c) == cmd[c].pc \notin {"unused", "done"}

(* Types; the mutex and runCancel belong to commands that have not         *)
(* returned.                                                               *)
TypeOK ==
  /\ generation \in 0 .. MaxCommands
  /\ lock \in {None} \cup {c \in Commands : Running(c)}
  /\ runCancel \in {None} \cup {c \in Commands : Running(c)}
  /\ slot \in [inst : Commands \cup {None}, starting : BOOLEAN,
               epoch : 0 .. 2 * MaxCommands, hasState : BOOLEAN, failed : BOOLEAN]
  /\ tunnel \in [Commands -> {"none", "up", "closing", "down"}]
  /\ smsMode \in {"modem", "vowifi"} /\ switching \in BOOLEAN

(* No tunnel is left behind: one that is up is the current instance's, or  *)
(* the command that started it, or one that stops it, still has it in      *)
(* hand.                                                                   *)
NoOrphanTunnel ==
  \A i \in Commands :
    tunnel[i] \in {"up", "closing"} =>
      \/ slot.inst = i
      \/ cmd[i].pc \in {"claim", "discard"}
      \/ \E c \in Commands : cmd[c].victim = i /\ cmd[c].pc \in {"stop", "down"}

(* A start that an invalidation has overtaken never becomes the current    *)
(* instance (TestManagerStartRuntimeStopsStaleStartedInstance).            *)
NoStaleClaim == slot.inst # None => ~ cmd[slot.inst].superseded

(* The same as long as nobody restarts VoWiFi: commands that the mutex      *)
(* serialises, teardowns beside it and a card switch do not let an          *)
(* overtaken start in (vowifi_epoch shows how a restart does).             *)
NoRestart == \A c \in Commands : cmd[c].kind # "restart"

ClaimIsCurrent == NoRestart => NoStaleClaim

(* Between the return of SwitchBegin and the restore no instance is         *)
(* current: every start either was seen and cancelled by SwitchBegin or    *)
(* itself sees that the device is switching.  The exception are runs that   *)
(* an earlier switch, when it bound its own context, took the cancel from. *)
SwitchQuiet ==
  SwitchBegun /\ NoRestart /\ ~ Restoring => slot.inst \in {None} \cup escaped

(* When no command is running, the SMS mode says where messages arrive:    *)
(* by IMS while VoWiFi is active, by the modem's poller when it is not.    *)
(* Commands that take no mutex are exempt: one can stop an instance and     *)
(* restore the mode between its ClaimStarted and MarkRuntimeStarted.       *)
Unserialised == Preempting \cup {"reconnect"}

SMSModeFollowsRuntime ==
  (\A c \in Commands : ~ Running(c) /\ cmd[c].kind \notin Unserialised)
    => (smsMode = "vowifi" <=> slot.inst # None)

(* Every command returns: preempting commands and teardowns beside the     *)
(* controller never leave a command waiting for the mutex.                 *)
CommandsReturn == \A c \in Commands : Running(c) ~> ~ Running(c)
=============================================================================
