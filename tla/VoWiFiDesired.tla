---------------------------- MODULE VoWiFiDesired ----------------------------
(***************************************************************************)
(* What keeps VoWiFi as its card's policy wants it, above the lifecycle of *)
(* one device: the API handlers that change the policy and then command    *)
(* the lifecycle, the reconciler that looks every 30 s (and after events   *)
(* of the device) whether a wanted instance is missing, and the record of  *)
(* its recoveries that keeps them single and apart (vowifihost/            *)
(* reconcile.go, recover_state.go, device/pool_vowifi_reconcile.go).       *)
(*                                                                         *)
(* A command is followed up by the goroutine that submitted it.  How long  *)
(* a recovery is put off is time, so its number of attempts is left out.   *)
(***************************************************************************)
EXTENDS VoWiFiLifecycle

ASSUME DesiredAssumption == {"enable", "disable", "recover"} \subseteq Kinds

VARIABLES
  wanted,    \* VoWiFiEnabled of the card's policy and of worker.Config
  asked,     \* the command that an API handler is about to submit
  decided,   \* decisions on the record whose turn has not come
  inFlight, waiting,  \* desiredRecoverState: inFlight, nextAt in the future
  followUp,  \* what the submitter of each command does when it has returned
  failed,    \* commands that have returned an error to their submitter
  off        \* history: what the last disabling handler has got to

recordVars == <<inFlight, waiting>>
desiredVars == <<wanted, asked, decided, recordVars, followUp, failed, off>>
allVars == <<vars, desiredVars>>

DesiredInit ==
  /\ Init
  /\ wanted \in BOOLEAN /\ asked = "none" /\ decided = {}
  /\ inFlight = FALSE /\ waiting = FALSE
  /\ followUp = [c \in Commands |-> "nothing"] /\ failed = {} /\ off = "no"

-----------------------------------------------------------------------------
(* The API handlers (api/route_adapters.go).                               *)

\* The policy is written first, the command comes after it.
SetWanted(on) ==
  /\ asked = "none" /\ \E c \in Commands : At(c, "unused")
  /\ wanted' = on /\ asked' = IF on THEN "enable" ELSE "disable"
  /\ off' = "no"
  /\ UNCHANGED <<vars, decided, recordVars, followUp, failed>>

\* While the device is switching both commands are refused.
SubmitAsked(c) ==
  /\ Submit(c, asked, 0)
  /\ followUp' = [followUp EXCEPT ![c] = IF asked = "disable" THEN "policy" ELSE "nothing"]
  /\ off' = IF asked = "disable" THEN "begun" ELSE off
  /\ asked' = "none"
  /\ UNCHANGED <<wanted, decided, recordVars, failed>>

RefuseAsked ==
  /\ asked # "none" /\ switching
  /\ asked' = "none"
  /\ UNCHANGED <<vars, wanted, decided, recordVars, followUp, failed, off>>

\* applyCardPolicyAfterVoWiFiDisable: the policy as it is by now, if the card
\* is known and its policy is found.
ApplyPolicy(c) ==
  /\ At(c, "done") /\ followUp[c] = "policy"
  /\ decided' \in {decided, decided \cup {IF wanted THEN "schedule" ELSE "clear"}}
  /\ followUp' = [followUp EXCEPT ![c] = "nothing"]
  /\ UNCHANGED <<vars, wanted, asked, recordVars, failed, off>>

-----------------------------------------------------------------------------
(* The reconciler and the record of recoveries.                            *)

DesiredRecoverable == slot.inst = None /\ ~ slot.starting

NoRecord == inFlight' = FALSE /\ waiting' = FALSE

\* Mutant: the reconciler does not ask for the policy.
ConsiderUnwanted ==
  /\ "schedule" \notin decided /\ ~ switching /\ DesiredRecoverable
  /\ decided' = decided \cup {"schedule"}
  /\ UNCHANGED <<vars, wanted, asked, recordVars, followUp, failed, off>>

\* shouldReconcileVoWiFi
Consider ==
  /\ "schedule" \notin decided /\ ~ switching /\ DesiredRecoverable
  /\ IF wanted THEN decided' = decided \cup {"schedule"} /\ UNCHANGED recordVars
               ELSE NoRecord /\ UNCHANGED decided
  /\ UNCHANGED <<vars, wanted, asked, followUp, failed, off>>

MayBegin == DesiredRecoverable /\ ~ inFlight /\ ~ waiting

\* ScheduleDesiredRecover, with BeginDesiredRecover; the goroutine it starts
\* submits the recovery.
Schedule ==
  /\ "schedule" \in decided
  /\ decided' = decided \ {"schedule"}
  /\ \/ ~ MayBegin /\ UNCHANGED <<vars, inFlight, followUp>>
     \/ /\ MayBegin
        /\ inFlight' = TRUE
        /\ \E c \in Commands :
             /\ Submit(c, "recover", 0)
             /\ followUp' = [followUp EXCEPT ![c] = "record"]
  /\ UNCHANGED <<wanted, asked, waiting, failed, off>>

\* Mutant: a recovery that failed is not taken out of flight.
KeepInFlight(c) ==
  /\ At(c, "done") /\ followUp[c] = "record"
  /\ IF c \in failed THEN waiting' = TRUE /\ UNCHANGED inFlight ELSE NoRecord
  /\ followUp' = [followUp EXCEPT ![c] = "nothing"]
  /\ failed' = failed \ {c}
  /\ UNCHANGED <<vars, wanted, asked, decided, off>>

\* markDesiredVoWiFiRecoverResult; an error that comes from the operator's
\* policy puts nothing off.
MarkResult(c) ==
  /\ At(c, "done") /\ followUp[c] = "record"
  /\ NoRecord \/ (c \in failed /\ inFlight' = FALSE /\ waiting' = TRUE)
  /\ followUp' = [followUp EXCEPT ![c] = "nothing"]
  /\ failed' = failed \ {c}
  /\ UNCHANGED <<vars, wanted, asked, decided, off>>

\* The time of the next attempt has come.
NextAttemptDue ==
  /\ waiting /\ waiting' = FALSE
  /\ UNCHANGED <<vars, wanted, asked, decided, inFlight, followUp, failed, off>>

ClearRecord ==
  /\ "clear" \in decided
  /\ decided' = decided \ {"clear"} /\ NoRecord
  /\ UNCHANGED <<vars, wanted, asked, followUp, failed, off>>

\* The policy cannot be resolved, the transport is given up: the record goes.
ForgetRecord ==
  /\ (inFlight \/ waiting) /\ NoRecord
  /\ UNCHANGED <<vars, wanted, asked, decided, followUp, failed, off>>

-----------------------------------------------------------------------------
(* Commands from elsewhere.                                                *)

\* A restart by the user, reconnects, the switch; its end restores VoWiFi if
\* the new card wants it.
SubmitOther(c, kind) ==
  /\ kind \in {"restart", "switchEnd"} => wanted
  /\ Submit(c, kind, 0)
  /\ IF kind = "switchEnd" THEN NoRecord ELSE UNCHANGED recordVars
  /\ UNCHANGED <<wanted, asked, decided, followUp, failed, off>>

\* confirmSIMRemovedAndStopVoWiFi
SIMRemoved(c) ==
  /\ slot.inst # None
  /\ Submit(c, "disable", 0) /\ NoRecord
  /\ UNCHANGED <<wanted, asked, decided, followUp, failed, off>>

\* scheduleVoWiFiAPDUBusyRecover
Retry(c, gen) ==
  /\ Submit(c, "recover", gen)
  /\ UNCHANGED desiredVars

-----------------------------------------------------------------------------
(* The lifecycle's own steps: how a command returns, and what is recorded  *)
(* of a disable.                                                           *)

Starts == {"enable", "recover", "switchEnd"}

\* Starts that the disable, which now has the mutex, does not see: those that
\* wait for it, a recovery about to be submitted, and restarts.
Unseen(c) ==
  \/ "schedule" \in decided
  \/ \E d \in Commands \ {c} :
       \/ At(d, "lock") /\ cmd[d].kind \in Starts
       \/ Running(d) /\ cmd[d].kind = "restart"

LastDisable(c) ==
  off = "begun" /\ followUp[c] = "policy" /\ \A d \in Commands : d > c => followUp[d] # "policy"

Locks(c) ==
  /\ AcquireLock(c) /\ UNCHANGED escaped
  /\ off' = IF LastDisable(c) /\ Unseen(c)
              THEN "no" ELSE off
  /\ UNCHANGED <<wanted, asked, decided, recordVars, followUp, failed>>

\* Waiting for the modem, the card switch, another start or the start itself
\* ends in an error; whatever was overtaken returns nil.
Error(c) ==
  \/ cmd[c].pc \in {"ready", "check", "fail"}
  \/ cmd[c].pc = "begin" /\ slot.inst = None

Runs(c) ==
  /\ Run(c) /\ UNCHANGED escaped
  /\ failed' = IF cmd'[c].pc = "done" /\ followUp[c] = "record" /\ Error(c)
                 THEN failed \cup {c} ELSE failed
  /\ off' = IF cmd'[c].pc = "done" /\ LastDisable(c)
              THEN "done" ELSE off
  /\ UNCHANGED <<wanted, asked, decided, recordVars, followUp>>

Others == Kinds \cap {"restart", "reconnect", "switchBegin", "switchEnd"}

DesiredNext ==
  \/ \E on \in BOOLEAN : SetWanted(on)
  \/ RefuseAsked \/ Consider \/ Schedule \/ NextAttemptDue \/ ClearRecord \/ ForgetRecord
  \/ \E c \in Commands :
       \/ asked # "none" /\ SubmitAsked(c)
       \/ ApplyPolicy(c) \/ MarkResult(c)
       \/ \E kind \in Others : SubmitOther(c, kind)
       \/ SIMRemoved(c) \/ \E gen \in busy : Retry(c, gen)
       \/ Locks(c) \/ Runs(c)
  \/ EndSwitch /\ UNCHANGED desiredVars

DesiredSpec == DesiredInit /\ [][DesiredNext]_allVars

\* As in the lifecycle; the ticker ticks, time passes, submitters go on.
FairDesiredSpec ==
  /\ DesiredSpec
  /\ \A c \in Commands :
       /\ WF_allVars(Runs(c)) /\ SF_allVars(Locks(c))
       /\ WF_allVars(MarkResult(c))
  /\ WF_allVars(Consider) /\ WF_allVars(Schedule) /\ WF_allVars(NextAttemptDue)

-----------------------------------------------------------------------------
DesiredTypeOK ==
  /\ TypeOK
  /\ wanted \in BOOLEAN /\ asked \in {"none", "enable", "disable"}
  /\ decided \subseteq {"schedule", "clear"}
  /\ inFlight \in BOOLEAN /\ waiting \in BOOLEAN
  /\ followUp \in [Commands -> {"nothing", "record", "policy"}]
  /\ failed \subseteq Commands /\ off \in {"no", "begun", "done"}

\* A wanted VoWiFi that is down is started again: no failed, cancelled or
\* overtaken start and no lost record leaves the starting flag, the mutex or
\* the record in a state that keeps the reconciler from it.  The number of
\* commands is bounded, and a switch restores VoWiFi at its end.
Exhausted == \A c \in Commands : ~ At(c, "unused")

DesiredPursued ==
  (wanted /\ slot.inst = None) ~>
    (slot.inst # None \/ ~ wanted \/ switching \/ Exhausted)

\* When the command of a disabling user has returned, VoWiFi is down and stays
\* down until the user enables it again, whatever recoveries, retries and
\* switches come, unless it had not seen one that was waiting.
DisabledStaysOff == off = "done" => slot.inst = None
=============================================================================
