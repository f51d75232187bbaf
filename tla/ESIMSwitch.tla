----------------------------- MODULE ESIMSwitch -----------------------------
(***************************************************************************)
(* Switching the active eSIM profile of one device.  The eSIM manager      *)
(* (esim/manager.go) calls hooks of the device pool around the command to  *)
(* the card (device/pool_esim_switch.go): before it the pool remembers how *)
(* the device was, declares the SIM's identity unknown and takes the radio *)
(* down; after it, in a goroutine of its own, the pool waits for the new   *)
(* card, reads its identity, passes the gate of SIMAuthReady and brings    *)
(* radio and VoWiFi back.  The next switch may begin while an earlier one  *)
(* is still being followed up.  A switch is named by its token.            *)
(***************************************************************************)
EXTENDS SIMAuthReady, Integers

CONSTANTS
  Profiles,    \* profiles of the card
  First,       \* the profile that is active at first
  Policies,    \* card policies of the profiles: what the radio is used for
  RadioCycle,  \* worker.Config.ESIMSwitch.RadioCycle
  Qmi,         \* whether the worker has a QMICore
  Retrying     \* bound: the switches whose later refreshes are followed

Switches == Callers
Timer(s) == -s       \* the later refreshes scheduled by switch s
Background == 0      \* RefreshIdentityLive of health checks and the API
Actors == Switches \cup {Timer(s) : s \in Retrying} \cup {Background}
Of(a) == IF a < 0 THEN -a ELSE a

ASSUME SwitchAssumption ==
  /\ Switches \subseteq Nat \ {0} /\ Retrying \subseteq Switches
  /\ First \in Profiles
  /\ Policies \subseteq [Profiles -> {"online", "airplane", "vowifi"}]
  /\ RadioCycle \in BOOLEAN /\ Qmi \in BOOLEAN
  /\ "none" \notin Profiles

None == "none"

VARIABLES
  policy,    \* of each profile; the user does not change it
  card,      \* the profile the card has active
  radio,     \* operating mode: "online", "low" power, RF "off"
  current,   \* token in switchTokens, switchContexts and switchingDevices; or 0
  identity,  \* worker.state.Identity but for its generation
  sameGen,   \* switches that hold the identity's present generation
  config,    \* the card policy projected into worker.Config
  at,        \* where each actor is
  snap,      \* each switch's esimSwitchContext
  seen,      \* what each actor's reading of the ICCID returned
  gateErr,   \* restoreGateErr of each switch's follow-up
  expired,   \* history: switches whose two-minute guard has fired
  crossed    \* history: a reading of the identity was under way, or past its
             \* last check, when a switch began or took effect

deviceVars == <<policy, card, radio, config>>
identityVars == <<identity, sameGen>>
localVars == <<snap, seen, gateErr>>
historyVars == <<expired, crossed>>
poolVars == <<deviceVars, identityVars, localVars, current, at, historyVars>>
vars == <<gateVars, poolVars>>

Goto(a, p) == at' = [at EXCEPT ![a] = p]

-----------------------------------------------------------------------------
(* The cached identity (device/pool_state.go).  Every transition has a     *)
(* generation of its own, and only whether a switch holds the present one  *)
(* is ever asked.                                                          *)

\* beginSIMIdentityTransitionLocked
BeginTransition(target, holders) ==
  /\ identity' = [iccid |-> None, phase |-> "transitioning", target |-> target]
  /\ sameGen' = holders

\* EnsureSIMIdentityTransition
EnsureTransition(target, holders) ==
  IF identity.phase # "ready" /\ identity.target = target
  THEN UNCHANGED identity /\ sameGen' = sameGen \cup holders
  ELSE BeginTransition(target, holders)

ReadyWith(p) == [iccid |-> p, phase |-> "ready", target |-> None]

CurrentICCID == IF identity.target # None THEN identity.target ELSE identity.iccid

\* Mutant: any transition still under way matches.
AnyTransition(s) == identity.phase # "ready"

\* SIMIdentityConvergenceMatches
ConvergenceMatches(s) ==
  s \in sameGen /\ identity.phase # "ready" /\ identity.target = snap[s].target

-----------------------------------------------------------------------------
ModeFor(use) == IF use = "online" THEN "online" ELSE "off"

Init ==
  /\ GateInit
  /\ policy \in Policies
  /\ card = First /\ config = policy[card] /\ radio = ModeFor(config)
  /\ identity = ReadyWith(card) /\ sameGen = {}
  /\ current = 0
  /\ at = [a \in Actors |-> "idle"]
  /\ snap = [s \in Switches |-> [target |-> None, flight |-> FALSE]]
  /\ seen = [a \in Actors |-> None]
  /\ gateErr = [s \in Switches |-> "unset"]
  /\ expired = {} /\ crossed = FALSE

\* SwitchProfileWithResult holds opMu while the switch is here.
Writing == {"token", "release", "apdu"}

\* Readings whose result nobody checks against a newer switch, and where a
\* follow-up goes on to one without another check.
Reading == {"ensure", "reading", "write"}
Unchecked ==
  Reading \cup IF RadioCycle THEN {} ELSE {"converge", "policy", "radio_online"}

-----------------------------------------------------------------------------
(* Before the command: handleESIMSwitchBefore under opMu.                  *)

\* captureESIMSwitchContext
Begin(s, target) ==
  /\ at[s] = "idle"
  /\ \A d \in Switches : at[d] \notin Writing /\ (d < s => at[d] # "idle")
  /\ snap' = [snap EXCEPT ![s] = [target |-> target, flight |-> radio # "online"]]
  /\ Goto(s, "token")
  /\ UNCHANGED <<gateVars, deviceVars, identityVars, seen, gateErr, current,
                 historyVars>>

\* beginESIMSwitch and BeginSIMIdentityTransition.  Without a QMICore the gate
\* is invalidated here.  Then SwitchBegin takes VoWiFi down, which leaves the
\* radio as it is.
TakeToken(s) ==
  /\ at[s] = "token"
  /\ current' = s
  /\ BeginTransition(snap[s].target, {s})
  /\ IF Qmi THEN UNCHANGED gateVars ELSE Invalidate
  /\ crossed' = (crossed \/ \E a \in Actors : at[a] \in Unchecked)
  /\ Goto(s, "release")
  /\ UNCHANGED <<deviceVars, localVars, expired>>

\* releaseRadioBeforeSwitch, ReleaseAPDULeasesForSwitchTeardown
Release(s) ==
  /\ at[s] = "release"
  /\ radio' = IF RadioCycle THEN "low" ELSE radio
  /\ IF Qmi THEN Invalidate ELSE UNCHANGED gateVars
  /\ Goto(s, "apdu")
  /\ UNCHANGED <<policy, card, config, identityVars, localVars, current,
                 historyVars>>

-----------------------------------------------------------------------------
(* EnableProfile: accepted, with effect or without, or refused, perhaps    *)
(* after it has taken effect.  The card refuses the profile it has active. *)
Apdu(s) ==
  /\ at[s] = "apdu"
  /\ card' \in {card, snap[s].target}
  /\ \/ card # snap[s].target /\ Goto(s, "delay")
     \/ Goto(s, "failing")
  /\ crossed' = (crossed \/ (card' # card /\ at[Background] = "write"))
  /\ UNCHANGED <<gateVars, policy, radio, config, identityVars, localVars,
                 current, expired>>

\* Mutant: a failed switch too leaves the radio to bringRadioOnlineAfterSwitch.
RestoreFlightOnly(s, cycled) == radio' = IF snap[s].flight THEN "off" ELSE radio

\* restoreRadioDataForSwitchSnapshot
RestoreRadioData(s, cycled) ==
  \/ snap[s].flight /\ radio' = "off"
  \/ ~ snap[s].flight /\ ~ cycled /\ radio' = "online"
  \/ ~ snap[s].flight /\ cycled /\ UNCHANGED radio

\* finishESIMSwitchForFailure: an overtaken switch leaves everything alone.
FailedHook(s) ==
  /\ at[s] = "failing"
  /\ IF current = s
     THEN current' = 0 /\ Goto(s, "restoreFailed")
     ELSE Goto(s, "done") /\ UNCHANGED current
  /\ UNCHANGED <<gateVars, deviceVars, identityVars, localVars, historyVars>>

\* The rest of handleESIMSwitchFailed.
RestoreFailed(s) ==
  /\ at[s] = "restoreFailed"
  /\ RestoreRadioData(s, FALSE)
  /\ Goto(s, "done")
  /\ UNCHANGED <<gateVars, policy, card, config, identityVars, localVars,
                 current, historyVars>>

-----------------------------------------------------------------------------
(* After the command: handleESIMSwitchAfter, in a goroutine of its own.    *)

\* switchTokenStillCurrent
StillCurrent(s) == current = s

\* resolvePostSwitchSnapshotIfToken, or a later check that ends the follow-up
\* of a switch that was overtaken.
Overtaken(s) ==
  /\ at[s] \in {"delay", "core_ready", "identity_refresh", "vowifi_restore"}
                \cup IF RadioCycle THEN {"radio_online"} ELSE {}
  /\ ~ StillCurrent(s)
  /\ Goto(s, "done")
  /\ UNCHANGED <<gateVars, deviceVars, identityVars, localVars, current,
                 historyVars>>

\* Mutant: the follow-up waits until no switch is registered, its own included.
ResolveWhenIdle(s) ==
  /\ at[s] = "delay" /\ StillCurrent(s) /\ current = 0
  /\ Goto(s, "ensure")
  /\ UNCHANGED <<gateVars, deviceVars, identityVars, localVars, current,
                 historyVars>>

ResolveSnapshot(s) ==
  /\ at[s] = "delay" /\ StillCurrent(s)
  /\ Goto(s, "ensure")
  /\ UNCHANGED <<gateVars, deviceVars, identityVars, localVars, current,
                 historyVars>>

Ensure(s) ==
  /\ at[s] = "ensure"
  /\ EnsureTransition(snap[s].target, {s})
  /\ Goto(s, "core_ready")
  /\ UNCHANGED <<gateVars, deviceVars, localVars, current, historyVars>>

\* schedulePostSwitchIdentityRefreshes, and go on at p.
Schedule(s, p) ==
  at' = [a \in Actors |-> IF a = s THEN p ELSE IF a = Timer(s) THEN "timer" ELSE at[a]]

CoreReady(s) ==
  /\ at[s] = "core_ready" /\ StillCurrent(s)
  /\ Goto(s, "converge")
  /\ UNCHANGED <<gateVars, deviceVars, identityVars, localVars, current,
                 historyVars>>

\* runPostSwitchConvergence: the modem reports the target profile, whether or
\* not the switch has been overtaken meanwhile ...
Converges(s) ==
  /\ at[s] = "converge" /\ card = snap[s].target
  /\ Goto(s, "policy")
  /\ UNCHANGED <<gateVars, deviceVars, identityVars, localVars, current,
                 historyVars>>

\* ... or not within the attempts allowed.
ConvergenceFails(s) ==
  /\ at[s] = "converge"
  /\ Schedule(s, "restoreRadio")
  /\ gateErr' = [gateErr EXCEPT ![s] = "convergence"]
  /\ UNCHANGED <<gateVars, deviceVars, identityVars, snap, seen, current,
                 historyVars>>

\* resolveAndApplyPolicy
ApplyPolicy(s) ==
  /\ at[s] = "policy"
  /\ config' = policy[CurrentICCID]
  /\ radio' = CASE config' = "online" -> "online"
                [] config' = "airplane" /\ radio = "online" -> "off"
                [] OTHER -> radio
  /\ Goto(s, IF RadioCycle THEN "online" ELSE "radio_online")
  /\ UNCHANGED <<gateVars, policy, card, identityVars, localVars, current,
                 historyVars>>

\* bringRadioOnlineAfterSwitch
BringRadioOnline(s) ==
  /\ at[s] = "online"
  /\ radio' = "online"
  /\ Goto(s, "radio_online")
  /\ UNCHANGED <<gateVars, policy, card, config, identityVars, localVars,
                 current, historyVars>>

-----------------------------------------------------------------------------
(* refreshPostSwitchIdentityWithPolling, called by the follow-up and by    *)
(* the later refreshes it schedules.                                       *)

RefreshIdentity(s) ==
  /\ at[s] = "radio_online" /\ (RadioCycle => StillCurrent(s))
  /\ EnsureTransition(snap[s].target, {})
  /\ Goto(s, "reading")
  /\ UNCHANGED <<gateVars, deviceVars, localVars, current, historyVars>>

TimerFires(s) ==
  /\ at[Timer(s)] = "timer"
  /\ \/ /\ ConvergenceMatches(s)
        /\ EnsureTransition(snap[s].target, {}) /\ Goto(Timer(s), "reading")
     \/ /\ ~ ConvergenceMatches(s)
        /\ Goto(Timer(s), "done") /\ UNCHANGED identityVars
  /\ UNCHANGED <<gateVars, deviceVars, localVars, current, historyVars>>

\* The reading that ends the polling; it may fail.
Read(a) ==
  /\ at[a] = "reading"
  /\ \E found \in {card, None} : seen' = [seen EXCEPT ![a] = found]
  /\ Goto(a, "write")
  /\ UNCHANGED <<gateVars, deviceVars, identityVars, snap, gateErr, current,
                 historyVars>>

Write(a) ==
  /\ at[a] = "write" /\ a # Background
  /\ LET ok == seen[a] = snap[Of(a)].target IN
       /\ identity' = IF ok THEN ReadyWith(seen[a])
                      ELSE [identity EXCEPT !.phase = "degraded"]
       /\ gateErr' = [s \in Switches |-> IF s # a THEN gateErr[s]
                                         ELSE IF ok THEN "none" ELSE "identity"]
  /\ seen' = [seen EXCEPT ![a] = None]
  /\ Goto(a, IF a \in Switches THEN "identity_refresh" ELSE "done")
  /\ UNCHANGED <<gateVars, deviceVars, sameGen, snap, current, historyVars>>

\* refreshIdentityLive reads the card ...
ReadInBackground ==
  /\ at[Background] = "idle"
  /\ seen' = [seen EXCEPT ![Background] = card]
  /\ Goto(Background, "write")
  /\ UNCHANGED <<gateVars, deviceVars, identityVars, snap, gateErr, current,
                 historyVars>>

\* ... and refuses what is not the target of the transition under way.
Refused(p) == identity.phase # "ready" /\ identity.target # p

WriteInBackground ==
  /\ at[Background] = "write"
  /\ identity' = IF Refused(seen[Background]) THEN identity ELSE ReadyWith(seen[Background])
  /\ seen' = [seen EXCEPT ![Background] = None]
  /\ Goto(Background, "idle")
  /\ UNCHANGED <<gateVars, deviceVars, sameGen, snap, gateErr, current,
                 historyVars>>

-----------------------------------------------------------------------------
(* After the refresh: the gate, VoWiFi and the radio.                      *)

VoWiFiWanted(s) == gateErr[s] = "none" /\ config = "vowifi"

\* waitPostSwitchSIMAuthReady calls the gate ...
CallGate(s) ==
  /\ at[s] = "identity_refresh" /\ StillCurrent(s) /\ VoWiFiWanted(s)
  /\ Call(s)
  /\ Schedule(s, "gate")
  /\ UNCHANGED <<deviceVars, identityVars, localVars, current, historyVars>>

SkipGate(s) ==
  /\ at[s] = "identity_refresh" /\ StillCurrent(s) /\ ~ VoWiFiWanted(s)
  /\ Schedule(s, IF gateErr[s] = "none" THEN "vowifi_restore" ELSE "restoreRadio")
  /\ UNCHANGED <<gateVars, deviceVars, identityVars, localVars, current,
                 historyVars>>

\* ... and gets its answer.
GateReturns(s) ==
  /\ at[s] = "gate" /\ pc[s] = "idle"
  /\ gateErr' = [gateErr EXCEPT ![s] = IF passed[s].result = "nil" THEN "none" ELSE "simauth"]
  /\ Goto(s, "vowifi_restore")
  /\ UNCHANGED <<gateVars, deviceVars, identityVars, snap, seen, current,
                 historyVars>>

\* restorePostSwitchConnectivity
RestoreConnectivity(s) ==
  /\ at[s] = "vowifi_restore" /\ StillCurrent(s)
  /\ Goto(s, IF VoWiFiWanted(s) THEN "switchEnd" ELSE "restoreRadio")
  /\ UNCHANGED <<gateVars, deviceVars, identityVars, localVars, current,
                 historyVars>>

\* Mutant: the end of any switch clears the flag.
ClearAny(s) == current' = 0

\* The deferred clearESIMSwitchIfToken, when handleESIMSwitchAfter returns.
ClearIfToken(s) == current' = IF StillCurrent(s) THEN 0 ELSE current

\* SwitchEnd starts VoWiFi, which needs the radio off, or fails to.
SwitchEnd(s) ==
  /\ at[s] = "switchEnd"
  /\ \/ radio' = "off" /\ Goto(s, "done") /\ ClearIfToken(s)
     \/ radio' \in {radio, "off"} /\ Goto(s, "restoreRadio") /\ UNCHANGED current
  /\ UNCHANGED <<gateVars, policy, card, config, identityVars, localVars,
                 historyVars>>

RestoreRadio(s) ==
  /\ at[s] = "restoreRadio"
  /\ RestoreRadioData(s, RadioCycle)
  /\ ClearIfToken(s)
  /\ Goto(s, "done")
  /\ UNCHANGED <<gateVars, policy, card, config, identityVars, localVars,
                 historyVars>>

\* The guard started by beginESIMSwitch: two minutes have passed.
GuardFires(s) ==
  /\ current = s
  /\ current' = 0 /\ expired' = expired \cup {s}
  /\ UNCHANGED <<gateVars, deviceVars, identityVars, localVars, at, crossed>>

-----------------------------------------------------------------------------
\* What the gate does on behalf of its callers.
GateWorks(s) ==
  /\ \/ GiveUp(s) \/ PassReady(s) \/ Park(s) \/ StartProbe(s)
     \/ \E ok \in BOOLEAN : ProbeReturns(s, ok)
  /\ UNCHANGED poolVars

Hook(s) ==
  \/ TakeToken(s) \/ Release(s) \/ Apdu(s) \/ FailedHook(s) \/ RestoreFailed(s)
  \/ ResolveSnapshot(s) \/ Overtaken(s) \/ Ensure(s) \/ CoreReady(s) \/ Converges(s)
  \/ ConvergenceFails(s) \/ ApplyPolicy(s) \/ BringRadioOnline(s)
  \/ RefreshIdentity(s) \/ Read(s) \/ Write(s) \/ CallGate(s) \/ SkipGate(s)
  \/ GateReturns(s) \/ RestoreConnectivity(s) \/ SwitchEnd(s) \/ RestoreRadio(s)

Next ==
  \/ \E s \in Switches :
       \/ \E p \in Profiles : Begin(s, p)
       \/ Hook(s) \/ GuardFires(s) \/ GateWorks(s)
  \/ \E s \in Retrying : TimerFires(s) \/ Read(Timer(s)) \/ Write(Timer(s))
  \/ ReadInBackground \/ WriteInBackground

Spec == Init /\ [][Next]_vars

\* The gate without its timeout.
GateAnswers(s) ==
  /\ PassReady(s) \/ Park(s) \/ StartProbe(s) \/ \E ok \in BOOLEAN : ProbeReturns(s, ok)
  /\ UNCHANGED poolVars

\* Every step of a switch that has begun is a call that returns or a timer
\* that fires; at any time it waits for one thing.  Nothing is assumed of
\* GiveUp: the wait for the gate ends without its timeout.
FairSpec == Spec /\ \A s \in Switches : WF_vars(Hook(s) \/ GateAnswers(s))

-----------------------------------------------------------------------------
Places == Writing \cup Reading \cup
  {"idle", "failing", "restoreFailed", "delay", "core_ready", "converge", "policy",
   "online", "radio_online", "identity_refresh", "gate", "vowifi_restore", "switchEnd",
   "restoreRadio", "done", "timer"}

PoolTypeOK ==
  /\ policy \in Policies /\ card \in Profiles
  /\ radio \in {"online", "low", "off"}
  /\ config \in {"online", "airplane", "vowifi"}
  /\ identity \in [iccid : Profiles \cup {None}, target : Profiles \cup {None},
                   phase : {"ready", "transitioning", "degraded"}]
  /\ sameGen \subseteq Switches /\ expired \subseteq Switches
  /\ current \in Switches \cup {0} /\ crossed \in BOOLEAN
  /\ at \in [Actors -> Places]
  /\ snap \in [Switches -> [target : Profiles \cup {None}, flight : BOOLEAN]]
  /\ seen \in [Actors -> Profiles \cup {None}]
  /\ gateErr \in [Switches -> {"unset", "none", "convergence", "identity", "simauth"}]

TypeOK == GateTypeOK /\ PoolTypeOK

Underway(s) == at[s] \notin {"idle", "token", "restoreFailed", "done"}
Latest(s) == \A d \in Switches : d > s => at[d] \in {"idle", "token"}

\* A device counts as switching exactly while its latest switch is under
\* way: neither the follow-up nor the failure of an earlier switch clears
\* the flag of a newer one (TestStalePostSwitchHookDoesNotClearNewSwitch,
\* TestStaleSwitchFailedDoesNotClearNewSwitch), and none survives its switch.
FlagFollowsSwitch ==
  /\ \A s \in Switches : Underway(s) /\ Latest(s) => current = s \/ s \in expired
  /\ current # 0 => Underway(current)

AtRest == \A a \in Actors : at[a] \in {"idle", "done"}
Last(s) == at[s] # "idle" /\ Latest(s)

\* When everything has come to rest, an identity that is presented as ready
\* is that of the card, and it is ready after a switch that found its
\* target: refreshes and follow-ups of overtaken switches, and background
\* readings, leave it alone, unless one was past its last check when the
\* newer switch began.
IdentityConverges ==
  AtRest /\ ~ crossed =>
    /\ identity.phase = "ready" => identity.iccid = card
    /\ \A s \in Switches : Last(s) /\ gateErr[s] \in {"none", "simauth"}
                             => identity.phase = "ready"

\* The low power mode a switch has put the modem in does not outlast it,
\* unless the guard stopped the follow-up or the convergence had failed
\* (pool_esim_switch.go:868 takes the radio for restored then).
RadioReleased ==
  AtRest /\ radio = "low" =>
    \E s \in Switches : Last(s) /\ (s \in expired \/ gateErr[s] = "convergence")

\* Every switch that has begun comes to its end.
SwitchesEnd == \A s \in Switches : at[s] # "idle" ~> at[s] = "done"
=============================================================================
