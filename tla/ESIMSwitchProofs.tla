-------------------------- MODULE ESIMSwitchProofs --------------------------
(***************************************************************************)
(* Switching eSIM profiles, for every set of profiles and policies and any *)
(* number of switches: the gate is used as its own specification says, the *)
(* switching flag follows the latest switch, the radio is released, and    *)
(* the identity converges to the card's.                                   *)
(***************************************************************************)
EXTENDS ESIMSwitch, TLAPS

-----------------------------------------------------------------------------
(* The SIM authentication gate by itself, for every set of callers and any *)
(* number of invalidations.                                                *)

(* OneProbe and ReadyIsCurrent need nothing but types to be inductive.     *)
GateInv == GateTypeOK /\ OneProbe /\ ReadyIsCurrent

LEMMA GateStep == GateInv /\ [GateNext]_gateVars => GateInv'
<1> SUFFICES ASSUME GateInv, [GateNext]_gateVars PROVE GateInv'
  OBVIOUS
<1> USE DEF GateInv, GateTypeOK, OneProbe, ReadyIsCurrent
<1>1. CASE Invalidate
  <2>1. GateTypeOK'
    <3>1. generation' \in Nat
      BY <1>1 DEF Invalidate
    <3>2. ready' \in BOOLEAN
      BY <1>1, Zenon DEF Invalidate
    <3> QED BY <1>1, <3>1, <3>2 DEF Invalidate
  <2>2. OneProbe'
    BY <1>1 DEF Invalidate
  <2>3. ReadyIsCurrent'
    BY <1>1, Zenon DEF Invalidate
  <2> QED BY <2>1, <2>2, <2>3
<1>2. ASSUME NEW c \in Callers, Call(c) \/ GiveUp(c)
      PROVE  GateInv'
  <2>1. \A d \in Callers :
          /\ pc'[d] = "probe" <=> pc[d] = "probe"
          /\ pc'[d] = "parked" => pc[d] = "parked"
    BY <1>2 DEF Call, GiveUp
  <2>2. UNCHANGED <<generation, ready, probing, readyGen>>
    BY <1>2 DEF Call, GiveUp
  <2>3. GateTypeOK'
    BY <1>2 DEF Call, GiveUp, NotYet
  <2>4. OneProbe'
    BY <2>1, <2>2
  <2> QED BY <2>2, <2>3, <2>4
<1>3. ASSUME NEW c \in Callers, PassReady(c)
      PROVE  GateInv'
  BY <1>3 DEF PassReady, Nil
<1>4. ASSUME NEW c \in Callers, Park(c)
      PROVE  GateInv'
  BY <1>4 DEF Park
<1>5. ASSUME NEW c \in Callers, StartProbe(c)
      PROVE  GateInv'
  BY <1>5 DEF StartProbe
<1>6. ASSUME NEW c \in Callers, NEW ok \in BOOLEAN, ProbeReturns(c, ok)
      PROVE  GateInv'
  <2>1. \A d \in Callers :
          /\ pc'[d] # "parked"
          /\ pc'[d] = "probe" => d # c /\ pc[d] = "probe"
          /\ pc'[d] \in {"idle", "check", "probe"}
    BY <1>6 DEF ProbeReturns, Resumed
  <2>2. \A d \in Callers : pc'[d] # "probe"
    BY <1>6, <2>1 DEF ProbeReturns
  <2>3. GateTypeOK'
    BY <1>6 DEF ProbeReturns, Resumed, Nil
  <2>4. OneProbe'
    BY <1>6, <2>1, <2>2 DEF ProbeReturns
  <2>5. ReadyIsCurrent'
    BY <1>6 DEF ProbeReturns, Stale
  <2> QED BY <2>3, <2>4, <2>5
<1>7. CASE UNCHANGED gateVars
  BY <1>7 DEF gateVars
<1> QED BY <1>1, <1>2, <1>3, <1>4, <1>5, <1>6, <1>7 DEF GateNext

LEMMA GateHolds == GateSpec => []GateInv
<1>1. GateInit => GateInv
  <2> SUFFICES ASSUME GateInit PROVE GateInv
    OBVIOUS
  <2>1. GateTypeOK
    BY DEF GateInit, GateTypeOK, NotYet
  <2>2. OneProbe
    BY DEF GateInit, OneProbe
  <2>3. ReadyIsCurrent
    BY DEF GateInit, ReadyIsCurrent
  <2> QED BY <2>1, <2>2, <2>3 DEF GateInv
<1> QED BY <1>1, GateStep, PTL DEF GateSpec

(* At most one probe runs, and whoever waits for it will be resumed.       *)
THEOREM ProbesAreShared == GateSpec => []OneProbe
<1>1. GateInv => OneProbe
  BY DEF GateInv
<1> QED BY <1>1, GateHolds, PTL

(* An open gate rests on a probe of the present generation.                *)
THEOREM OpenGateIsCurrent == GateSpec => []ReadyIsCurrent
<1>1. GateInv => ReadyIsCurrent
  BY DEF GateInv
<1> QED BY <1>1, GateHolds, PTL

(* No call returns nil on a finding that teardown has invalidated.         *)
THEOREM NilReturnsAreCurrent == GateSpec => NilIsCurrent
<1>1. GateInv /\ [GateNext]_gateVars =>
        \A c \in Callers :
          passed'[c].result = "nil" /\ passed[c].result = "none"
            => passed'[c].probeGen = generation
  <2> SUFFICES ASSUME GateInv, [GateNext]_gateVars, NEW c \in Callers,
                      passed'[c].result = "nil", passed[c].result = "none"
               PROVE  passed'[c].probeGen = generation
    OBVIOUS
  <2> USE DEF GateInv, GateTypeOK, ReadyIsCurrent, NotYet, Nil
  <2>1. CASE Invalidate
    BY <2>1 DEF Invalidate
  <2>2. ASSUME NEW d \in Callers, Call(d) \/ GiveUp(d) \/ Park(d) \/ StartProbe(d)
        PROVE  FALSE
    BY <2>2 DEF Call, GiveUp, Park, StartProbe
  <2>3. ASSUME NEW d \in Callers, PassReady(d)
        PROVE  passed'[c].probeGen = generation
    BY <2>3 DEF PassReady
  <2>4. ASSUME NEW d \in Callers, NEW ok \in BOOLEAN, ProbeReturns(d, ok)
        PROVE  passed'[c].probeGen = generation
    BY <2>4 DEF ProbeReturns, Stale
  <2>5. CASE UNCHANGED gateVars
    BY <2>5 DEF gateVars
  <2> QED BY <2>1, <2>2, <2>3, <2>4, <2>5 DEF GateNext
<1> QED BY <1>1, GateHolds, PTL DEF GateSpec, NilIsCurrent

-----------------------------------------------------------------------------
(* The switches.                                                           *)

(* A switch names a profile, and so do a completed background reading and  *)
(* the identity, by what it is or by its target.                           *)
Known ==
  /\ \A a \in Actors : a # Background /\ at[a] # "idle" => snap[Of(a)].target \in Profiles
  /\ at[Background] = "write" => seen[Background] \in Profiles
  /\ CurrentICCID \in Profiles

(* Switches begin in their order, and none while an earlier one holds opMu. *)
Order ==
  \A s, d \in Switches : d < s /\ at[s] # "idle" => at[d] \notin Writing \cup {"idle"}

PoolInv == PoolTypeOK /\ Known /\ Order /\ FlagFollowsSwitch

-----------------------------------------------------------------------------
LEMMA ActorFacts ==
  /\ Background \in Actors /\ Switches \subseteq Actors
  /\ Background \notin Switches
  /\ \A s \in Switches : Of(s) = s /\ s # Background
  /\ \A s \in Retrying : Timer(s) \in Actors
  /\ \A s \in Switches : Of(Timer(s)) = s /\ Timer(s) \notin Switches
                         /\ Timer(s) # Background
  /\ \A a \in Actors : a # Background => Of(a) \in Switches
BY SwitchAssumption DEF Switches, Actors, Background, Of, Timer

(* Every step is one of the gate's or leaves the gate alone.               *)
LEMMA GateStepOfSwitch == [Next]_vars => [GateNext]_gateVars
<1> SUFFICES ASSUME [Next]_vars PROVE [GateNext]_gateVars
  OBVIOUS
<1>1. ASSUME NEW s \in Switches, NEW p \in Profiles, Begin(s, p)
      PROVE  UNCHANGED gateVars
  BY <1>1 DEF Begin
<1>2. ASSUME NEW s \in Switches, Hook(s)
      PROVE  [GateNext]_gateVars
  <2>1. CASE TakeToken(s) \/ Release(s)
    BY <2>1 DEF TakeToken, Release, GateNext
  <2>2. CASE CallGate(s)
    BY <2>2 DEF CallGate, GateNext, Switches
  <2>3. CASE Apdu(s) \/ FailedHook(s) \/ RestoreFailed(s) \/ ResolveSnapshot(s)
             \/ Overtaken(s) \/ Ensure(s) \/ CoreReady(s) \/ Converges(s)
             \/ ConvergenceFails(s) \/ ApplyPolicy(s) \/ BringRadioOnline(s)
    BY <2>3 DEF Apdu, FailedHook, RestoreFailed, ResolveSnapshot, Overtaken, Ensure,
                CoreReady, Converges, ConvergenceFails, ApplyPolicy, BringRadioOnline
  <2>4. CASE RefreshIdentity(s) \/ Read(s) \/ Write(s) \/ SkipGate(s) \/ GateReturns(s)
             \/ RestoreConnectivity(s) \/ SwitchEnd(s) \/ RestoreRadio(s)
    BY <2>4 DEF RefreshIdentity, Read, Write, SkipGate, GateReturns,
                RestoreConnectivity, SwitchEnd, RestoreRadio
  <2> QED BY <1>2, <2>1, <2>2, <2>3, <2>4 DEF Hook
<1>3. ASSUME NEW s \in Switches, GuardFires(s)
      PROVE  UNCHANGED gateVars
  BY <1>3 DEF GuardFires
<1>4. ASSUME NEW s \in Switches, GateWorks(s)
      PROVE  GateNext
  BY <1>4 DEF GateWorks, GateNext, Switches
<1>5. ASSUME NEW s \in Retrying, TimerFires(s) \/ Read(Timer(s)) \/ Write(Timer(s))
      PROVE  UNCHANGED gateVars
  BY <1>5 DEF TimerFires, Read, Write
<1>6. CASE ReadInBackground \/ WriteInBackground
  BY <1>6 DEF ReadInBackground, WriteInBackground
<1>7. CASE UNCHANGED vars
  BY <1>7 DEF vars
<1> QED BY <1>1, <1>2, <1>3, <1>4, <1>5, <1>6, <1>7 DEF Next

(* What the pool does to the gate is what the gate's specification allows. *)
THEOREM SwitchesUseGate == Spec => GateSpec
<1>1. Init => GateInit
  BY DEF Init
<1> QED BY <1>1, GateStepOfSwitch, PTL DEF Spec, GateSpec

(* Where a step takes the identity and the readings.                       *)
LEMMA IdentityTypes ==
  ASSUME PoolTypeOK
  PROVE  /\ \A p \in Profiles : ReadyWith(p) \in [iccid : Profiles \cup {None},
              target : Profiles \cup {None}, phase : {"ready", "transitioning", "degraded"}]
         /\ \A p \in Profiles, S \in SUBSET Switches :
              BeginTransition(p, S) \/ EnsureTransition(p, S)
                => /\ identity' \in [iccid : Profiles \cup {None}, target : Profiles \cup {None},
                                   phase : {"ready", "transitioning", "degraded"}]
                   /\ sameGen' \subseteq Switches
                   /\ identity'.target = p
BY DEF PoolTypeOK, ReadyWith, BeginTransition, EnsureTransition

(* Types, one action at a time.                                            *)
LEMMA HookTypes ==
  ASSUME PoolTypeOK, Known, NEW s \in Switches, Hook(s)
  PROVE  PoolTypeOK'
<1>1. /\ s \in Actors /\ s # Background /\ Of(s) = s
      /\ at[s] # "idle" => snap[s].target \in Profiles
  BY ActorFacts DEF Known
<1>2. {s} \in SUBSET Switches /\ {} \in SUBSET Switches
  OBVIOUS
<1>3. CurrentICCID \in Profiles
  BY DEF Known
<1>4. CASE TakeToken(s)
  BY <1>1, <1>2, <1>4, IdentityTypes DEF PoolTypeOK, TakeToken, Goto, Places, Writing,
     deviceVars, localVars
<1>5. CASE Release(s) \/ Apdu(s)
  BY <1>1, <1>5 DEF PoolTypeOK, Release, Apdu, Goto, Places, Writing, deviceVars,
     identityVars, localVars, historyVars
<1>6. CASE FailedHook(s) \/ RestoreFailed(s)
  BY <1>1, <1>6 DEF PoolTypeOK, FailedHook, RestoreFailed, RestoreRadioData, Goto, Places,
     deviceVars, identityVars, localVars, historyVars
<1>7. CASE ResolveSnapshot(s) \/ Overtaken(s) \/ CoreReady(s) \/ Converges(s)
  BY <1>1, <1>7 DEF PoolTypeOK, ResolveSnapshot, Overtaken, CoreReady, Converges, Goto,
     Places, Reading, deviceVars, identityVars, localVars, historyVars
<1>8. CASE Ensure(s) \/ RefreshIdentity(s)
  BY <1>1, <1>2, <1>8, IdentityTypes DEF PoolTypeOK, Ensure, RefreshIdentity, Goto,
     Places, Reading, deviceVars, localVars, historyVars
<1>9. CASE ConvergenceFails(s)
  BY <1>1, <1>9 DEF PoolTypeOK, ConvergenceFails, Schedule, Places, deviceVars,
     identityVars, historyVars
<1>10. CASE ApplyPolicy(s) \/ BringRadioOnline(s)
  <2>1. policy[CurrentICCID] \in {"online", "airplane", "vowifi"}
    BY <1>3, SwitchAssumption DEF PoolTypeOK
  <2>2. config' \in {"online", "airplane", "vowifi"} /\ radio' \in {"online", "low", "off"}
    BY <1>10, <2>1 DEF PoolTypeOK, ApplyPolicy, BringRadioOnline
  <2> QED BY <1>1, <1>10, <2>2 DEF PoolTypeOK, ApplyPolicy, BringRadioOnline, Goto, Places,
             identityVars, localVars, historyVars
<1>11. CASE Read(s)
  BY <1>1, <1>11 DEF PoolTypeOK, Read, Goto, Places, Reading, deviceVars, identityVars,
     historyVars
<1>12. CASE Write(s)
  BY <1>1, <1>12, IdentityTypes DEF PoolTypeOK, Write, Goto, Places, Reading, deviceVars,
     historyVars
<1>13. CASE CallGate(s) \/ SkipGate(s)
  BY <1>1, <1>13 DEF PoolTypeOK, CallGate, SkipGate, Schedule, Places, deviceVars,
     identityVars, localVars, historyVars
<1>14. CASE GateReturns(s) \/ RestoreConnectivity(s)
  BY <1>1, <1>14 DEF PoolTypeOK, GateReturns, RestoreConnectivity, Goto, Places, deviceVars,
     identityVars, localVars, historyVars
<1>15. CASE SwitchEnd(s) \/ RestoreRadio(s)
  BY <1>1, <1>15 DEF PoolTypeOK, SwitchEnd, RestoreRadio, RestoreRadioData, ClearIfToken,
     Goto, Places, identityVars, localVars, historyVars
<1> QED BY <1>4, <1>5, <1>6, <1>7, <1>8, <1>9, <1>10, <1>11, <1>12, <1>13, <1>14, <1>15
        DEF Hook

LEMMA OtherTypes ==
  ASSUME PoolTypeOK, Known, [Next]_vars, ~ \E s \in Switches : Hook(s)
  PROVE  PoolTypeOK'
<1>1. ASSUME NEW s \in Switches, NEW p \in Profiles, Begin(s, p)
      PROVE  PoolTypeOK'
  BY <1>1, ActorFacts DEF PoolTypeOK, Begin, Goto, Places, Writing, deviceVars,
     identityVars, historyVars
<1>2. ASSUME NEW s \in Switches, GuardFires(s) \/ GateWorks(s)
      PROVE  PoolTypeOK'
  BY <1>2 DEF PoolTypeOK, GuardFires, GateWorks, poolVars, deviceVars, identityVars,
     localVars, historyVars
<1>3. ASSUME NEW s \in Retrying, TimerFires(s)
      PROVE  PoolTypeOK'
  <2>1. snap[s].target \in Profiles /\ Timer(s) \in Actors
    BY <1>3, ActorFacts, SwitchAssumption DEF Known, TimerFires
  <2> QED BY <1>3, <2>1, IdentityTypes DEF PoolTypeOK, TimerFires, Goto, Places, Reading,
             deviceVars, identityVars, localVars, historyVars
<1>4. ASSUME NEW s \in Retrying, Read(Timer(s)) \/ Write(Timer(s))
      PROVE  PoolTypeOK'
  <2>1. CASE Read(Timer(s))
    BY <2>1, ActorFacts DEF PoolTypeOK, Read, Goto, Places, Reading, deviceVars,
       identityVars, historyVars
  <2>2. CASE Write(Timer(s))
    <3>1. Of(Timer(s)) = s /\ snap[s].target \in Profiles /\ Timer(s) \notin Switches
          /\ Timer(s) \in Actors
      BY <2>2, ActorFacts, SwitchAssumption DEF Known, Write
    <3> QED BY <2>2, <3>1, IdentityTypes DEF PoolTypeOK, Write, Goto, Places, Reading,
               deviceVars, historyVars
  <2> QED BY <1>4, <2>1, <2>2
<1>5. CASE ReadInBackground
  BY <1>5, ActorFacts DEF PoolTypeOK, ReadInBackground, Goto, Places, Reading, deviceVars,
     identityVars, historyVars
<1>6. CASE WriteInBackground
  <2>1. seen[Background] \in Profiles /\ Background \in Actors
    BY <1>6, ActorFacts DEF Known, WriteInBackground
  <2> QED BY <1>6, <2>1, IdentityTypes DEF PoolTypeOK, WriteInBackground, Goto, Places,
             deviceVars, historyVars
<1>7. CASE UNCHANGED vars
  BY <1>7 DEF PoolTypeOK, vars, poolVars, deviceVars, identityVars, localVars, historyVars
<1> QED BY <1>1, <1>2, <1>3, <1>4, <1>5, <1>6, <1>7 DEF Next

-----------------------------------------------------------------------------
(* How a step of a switch moves it and what it does to the flag.           *)
Takes(s) == at[s] = "token" /\ Underway(s)' /\ current' = s
GoesOn(s) == Underway(s) /\ Underway(s)' /\ current' = current
Ends(s) == Underway(s) /\ ~ Underway(s)' /\ current' = IF current = s THEN 0 ELSE current
Rests(s) == at[s] = "restoreFailed" /\ ~ Underway(s)' /\ UNCHANGED current

LEMMA HookMoves ==
  ASSUME PoolTypeOK, NEW s \in Switches, Hook(s)
  PROVE  /\ Takes(s) \/ GoesOn(s) \/ Ends(s) \/ Rests(s)
         /\ \A d \in Switches \ {s} : at'[d] = at[d]
         /\ at'[s] \notin {"idle", "token"} /\ (at'[s] \in Writing => at[s] \in Writing)
         /\ UNCHANGED expired
<1> USE DEF PoolTypeOK, Goto, Underway, Writing, historyVars
<1>1. s \in Actors /\ Background \notin Switches /\ \A d \in Switches : d \in Actors
      /\ d # Timer(s)
  BY ActorFacts
<1>2. CASE TakeToken(s)
  BY <1>1, <1>2 DEF TakeToken, Takes
<1>3. CASE Release(s) \/ Apdu(s) \/ ResolveSnapshot(s) \/ Ensure(s) \/ CoreReady(s)
           \/ Converges(s) \/ ApplyPolicy(s) \/ BringRadioOnline(s)
  BY <1>1, <1>3 DEF Release, Apdu, ResolveSnapshot, Ensure, CoreReady, Converges,
     ApplyPolicy, BringRadioOnline, GoesOn
<1>4. CASE FailedHook(s) \/ Overtaken(s)
  BY <1>1, <1>4 DEF FailedHook, Overtaken, StillCurrent, Ends
<1>5. CASE RestoreFailed(s)
  BY <1>1, <1>5 DEF RestoreFailed, Rests
<1>6. CASE ConvergenceFails(s) \/ CallGate(s) \/ SkipGate(s)
  BY <1>1, <1>6 DEF ConvergenceFails, CallGate, SkipGate, Schedule, GoesOn
<1>7. CASE RefreshIdentity(s) \/ Read(s) \/ Write(s) \/ GateReturns(s)
           \/ RestoreConnectivity(s)
  BY <1>1, <1>7 DEF RefreshIdentity, Read, Write, GateReturns, RestoreConnectivity, GoesOn
<1>8. CASE SwitchEnd(s)
  BY <1>1, <1>8 DEF SwitchEnd, ClearIfToken, StillCurrent, GoesOn, Ends
<1>9. CASE RestoreRadio(s)
  BY <1>1, <1>9 DEF RestoreRadio, ClearIfToken, StillCurrent, Ends
<1> QED BY <1>2, <1>3, <1>4, <1>5, <1>6, <1>7, <1>8, <1>9 DEF Hook

(* The steps that are not a switch's own leave every switch where it is,   *)
(* but for Begin and the guard's.                                          *)
Watches == UNCHANGED <<current, expired>> /\ \A d \in Switches : at'[d] = at[d]

LEMMA OtherMoves ==
  ASSUME PoolTypeOK, [Next]_vars, ~ \E s \in Switches : Hook(s)
  PROVE  \/ \E s \in Switches, p \in Profiles : Begin(s, p)
         \/ \E s \in Switches : GuardFires(s)
         \/ Watches
<1> USE DEF PoolTypeOK, Goto, Watches, historyVars
<1>1. ASSUME NEW s \in Switches, GateWorks(s)
      PROVE  Watches
  BY <1>1 DEF GateWorks, poolVars
<1>2. ASSUME NEW s \in Retrying, TimerFires(s) \/ Read(Timer(s)) \/ Write(Timer(s))
      PROVE  Watches
  BY <1>2, ActorFacts, SwitchAssumption DEF TimerFires, Read, Write
<1>3. CASE ReadInBackground \/ WriteInBackground
  BY <1>3, ActorFacts DEF ReadInBackground, WriteInBackground
<1>4. CASE UNCHANGED vars
  BY <1>4 DEF vars, poolVars
<1> QED BY <1>1, <1>2, <1>3, <1>4 DEF Next

LEMMA OrderKept ==
  ASSUME PoolInv, PoolTypeOK', [Next]_vars
  PROVE  Order'
<1> USE SwitchAssumption DEF Order, PoolInv, PoolTypeOK
<1>1. ASSUME NEW s \in Switches, Hook(s)
      PROVE  Order'
  <2>1. /\ at[s] # "idle" /\ at'[s] # "idle" /\ (at'[s] \in Writing => at[s] \in Writing)
        /\ \A d \in Switches \ {s} : at'[d] = at[d]
    BY <1>1, HookMoves DEF Takes, GoesOn, Ends, Rests, Underway
  <2> QED BY <2>1 DEF Writing
<1>2. ASSUME NEW s \in Switches, NEW p \in Profiles, Begin(s, p)
      PROVE  Order'
  <2>1. /\ at[s] = "idle" /\ at'[s] = "token"
        /\ \A d \in Switches \ {s} : at'[d] = at[d]
        /\ \A d \in Switches : at[d] \notin Writing
        /\ \A d \in Switches : d < s => at[d] # "idle"
    BY <1>2, ActorFacts DEF Begin, Goto
  <2>2. \A d \in Switches : s < d => at[d] = "idle"
    BY <2>1
  <2> QED BY <2>1, <2>2
<1>3. ASSUME NEW s \in Switches, GuardFires(s)
      PROVE  Order'
  BY <1>3 DEF GuardFires
<1>4. CASE Watches
  BY <1>4 DEF Watches
<1> QED BY <1>1, <1>2, <1>3, <1>4, OtherMoves

LEMMA FlagKept ==
  ASSUME PoolInv, PoolTypeOK', [Next]_vars
  PROVE  FlagFollowsSwitch'
<1> USE SwitchAssumption DEF PoolInv, PoolTypeOK, FlagFollowsSwitch
<1>1. ASSUME NEW s \in Switches, Hook(s)
      PROVE  FlagFollowsSwitch'
  <2>1. /\ Takes(s) \/ GoesOn(s) \/ Ends(s) \/ Rests(s)
        /\ \A d \in Switches \ {s} : at'[d] = at[d]
        /\ at'[s] \notin {"idle", "token"}
        /\ expired' = expired
    BY <1>1, HookMoves
  <2>2. \A d \in Switches \ {s} : Underway(d)' <=> Underway(d)
    BY <2>1 DEF Underway
  <2>3. ASSUME NEW x \in Switches, Underway(x)', Latest(x)'
        PROVE  current' = x \/ x \in expired
    <3>1. Latest(x) /\ x >= s
      BY <2>1, <2>3 DEF Latest
    <3>2. CASE x = s
      BY <2>1, <2>3, <3>1, <3>2 DEF Takes, GoesOn, Ends, Rests
    <3>3. CASE x # s
      <4>1. at[s] # "token"
        BY <2>2, <2>3, <3>1, <3>3 DEF Order, Underway, Writing
      <4> QED BY <2>1, <2>2, <2>3, <3>1, <3>3, <4>1 DEF Takes, GoesOn, Ends, Rests
    <3> QED BY <3>2, <3>3
  <2>4. (current # 0 => Underway(current))'
    BY <2>1, <2>2 DEF Takes, GoesOn, Ends, Rests, Underway
  <2> QED BY <2>1, <2>3, <2>4 DEF Underway
<1>2. ASSUME NEW s \in Switches, NEW p \in Profiles, Begin(s, p)
      PROVE  FlagFollowsSwitch'
  BY <1>2, ActorFacts DEF Begin, Goto, Underway, Latest, historyVars
<1>3. ASSUME NEW s \in Switches, GuardFires(s)
      PROVE  FlagFollowsSwitch'
  BY <1>3 DEF GuardFires, Underway, Latest
<1>4. CASE Watches
  BY <1>4 DEF Watches, Underway, Latest
<1> QED BY <1>1, <1>2, <1>3, <1>4, OtherMoves

(* Where the identity goes, it stays known.                                *)
LEMMA IdentityKnown ==
  /\ \A p \in Profiles, S \in SUBSET Switches :
       BeginTransition(p, S) \/ EnsureTransition(p, S) => CurrentICCID' \in Profiles
  /\ \A p \in Profiles : identity' = ReadyWith(p) => CurrentICCID' \in Profiles
  /\ PoolTypeOK /\ identity' = [identity EXCEPT !.phase = "degraded"]
       => CurrentICCID' = CurrentICCID
  /\ UNCHANGED identity => CurrentICCID' = CurrentICCID
BY SwitchAssumption DEF BeginTransition, EnsureTransition, ReadyWith, CurrentICCID, None,
   PoolTypeOK

(* What every step but Begin keeps.                                        *)
Kept ==
  /\ UNCHANGED snap
  /\ \A a \in Actors : a # Background /\ at'[a] # "idle" =>
       at[a] # "idle" \/ \E s \in Switches : a = Timer(s) /\ at[s] # "idle"
  /\ at'[Background] = "write" => seen'[Background] \in Profiles
  /\ CurrentICCID' \in Profiles

LEMMA HookKeeps ==
  ASSUME PoolTypeOK, Known, NEW s \in Switches, Hook(s)
  PROVE  Kept
<1> USE DEF PoolTypeOK, Goto
<1>1. /\ s \in Actors /\ s # Background /\ Of(s) = s /\ Background \in Actors
      /\ at[s] # "idle" => snap[s].target \in Profiles
      /\ Background \notin Switches /\ \A d \in Switches : Timer(d) # Background
  BY ActorFacts DEF Known
<1>2. {s} \in SUBSET Switches /\ {} \in SUBSET Switches
  OBVIOUS
<1>3. /\ CurrentICCID \in Profiles
      /\ at[Background] = "write" => seen[Background] \in Profiles
  BY DEF Known
<1>4. CASE TakeToken(s) \/ Ensure(s) \/ RefreshIdentity(s)
  <2>1. CurrentICCID' \in Profiles
    BY <1>1, <1>2, <1>4, IdentityKnown DEF TakeToken, Ensure, RefreshIdentity
  <2> QED BY <1>1, <1>3, <1>4, <2>1 DEF TakeToken, Ensure, RefreshIdentity, Kept, localVars
<1>5. CASE Release(s) \/ Apdu(s) \/ FailedHook(s) \/ RestoreFailed(s) \/ ResolveSnapshot(s)
           \/ Overtaken(s) \/ CoreReady(s) \/ Converges(s) \/ BringRadioOnline(s)
  BY <1>1, <1>3, <1>5, IdentityKnown DEF Release, Apdu, FailedHook, RestoreFailed,
     ResolveSnapshot, Overtaken, CoreReady, Converges, BringRadioOnline, Kept,
     identityVars, localVars
<1>6. CASE ConvergenceFails(s) \/ CallGate(s) \/ SkipGate(s)
  BY <1>1, <1>3, <1>6, IdentityKnown DEF ConvergenceFails, CallGate, SkipGate, Schedule,
     Kept, identityVars, localVars
<1>7. CASE ApplyPolicy(s) \/ GateReturns(s) \/ RestoreConnectivity(s) \/ SwitchEnd(s)
           \/ RestoreRadio(s)
  BY <1>1, <1>3, <1>7, IdentityKnown DEF ApplyPolicy, GateReturns, RestoreConnectivity,
     SwitchEnd, RestoreRadio, Kept, identityVars, localVars
<1>8. CASE Read(s)
  BY <1>1, <1>3, <1>8, IdentityKnown DEF Read, Kept, identityVars
<1>9. CASE Write(s)
  <2>1. CurrentICCID' \in Profiles
    BY <1>1, <1>3, <1>9, IdentityKnown DEF Write
  <2> QED BY <1>1, <1>3, <1>9, <2>1 DEF Write, Kept
<1> QED BY <1>4, <1>5, <1>6, <1>7, <1>8, <1>9 DEF Hook

LEMMA OthersKeep ==
  ASSUME PoolTypeOK, Known, [Next]_vars, ~ \E s \in Switches : Hook(s),
         ~ \E s \in Switches, p \in Profiles : Begin(s, p)
  PROVE  Kept
<1> USE DEF PoolTypeOK, Goto
<1>1. /\ CurrentICCID \in Profiles
      /\ at[Background] = "write" => seen[Background] \in Profiles
  BY DEF Known
<1>2. ASSUME NEW s \in Switches, GuardFires(s) \/ GateWorks(s)
      PROVE  Kept
  BY <1>1, <1>2, IdentityKnown DEF GuardFires, GateWorks, poolVars, Kept, identityVars,
     localVars
<1>3. ASSUME NEW s \in Retrying, TimerFires(s) \/ Read(Timer(s)) \/ Write(Timer(s))
      PROVE  Kept
  <2>1. /\ s \in Switches /\ Timer(s) \in Actors /\ Timer(s) # Background
        /\ Timer(s) \notin Switches /\ Of(Timer(s)) = s /\ snap[s].target \in Profiles
        /\ {} \in SUBSET Switches
    BY <1>3, ActorFacts, SwitchAssumption DEF Known, TimerFires, Read, Write
  <2>2. CurrentICCID' \in Profiles
    BY <1>1, <1>3, <2>1, IdentityKnown DEF TimerFires, Read, Write, identityVars
  <2>3. UNCHANGED snap /\ at'[Background] = at[Background]
        /\ seen'[Background] = seen[Background]
    BY <1>3, <2>1, ActorFacts DEF TimerFires, Read, Write, localVars
  <2>4. \A a \in Actors : at'[a] # "idle" => at[a] # "idle"
    BY <1>3, <2>1 DEF TimerFires, Read, Write
  <2> QED BY <1>1, <2>2, <2>3, <2>4 DEF Kept
<1>4. CASE ReadInBackground
  BY <1>1, <1>4, ActorFacts, IdentityKnown DEF ReadInBackground, Kept, identityVars
<1>5. CASE WriteInBackground
  BY <1>1, <1>5, ActorFacts, IdentityKnown DEF WriteInBackground, Kept
<1>6. CASE UNCHANGED vars
  BY <1>1, <1>6, IdentityKnown DEF vars, poolVars, identityVars, localVars, Kept
<1> QED BY <1>2, <1>3, <1>4, <1>5, <1>6 DEF Next

LEMMA KnownKept ==
  ASSUME PoolInv, PoolTypeOK', [Next]_vars
  PROVE  Known'
<1> USE DEF PoolInv, PoolTypeOK
<1>1. ASSUME NEW s \in Switches, NEW p \in Profiles, Begin(s, p)
      PROVE  Known'
  <2>1. CurrentICCID' \in Profiles
    BY <1>1, IdentityKnown DEF Known, Begin, identityVars
  <2> QED BY <1>1, <2>1, ActorFacts DEF Known, Begin, Goto
<1>2. CASE Kept
  BY <1>2, ActorFacts DEF Known, Kept
<1> QED BY <1>1, <1>2, HookKeeps, OthersKeep

LEMMA PoolHolds == Spec => []PoolInv
<1>1. Init => PoolInv
  <2> SUFFICES ASSUME Init PROVE PoolInv
    OBVIOUS
  <2>1. PoolTypeOK
    BY SwitchAssumption DEF Init, PoolTypeOK, ModeFor, ReadyWith, Places
  <2>2. Known
    BY ActorFacts, SwitchAssumption DEF Init, Known, CurrentICCID, ReadyWith, None
  <2>3. Order /\ FlagFollowsSwitch
    BY ActorFacts DEF Init, Order, FlagFollowsSwitch, Underway
  <2> QED BY <2>1, <2>2, <2>3 DEF PoolInv
<1>2. PoolInv /\ [Next]_vars => PoolInv'
  <2> SUFFICES ASSUME PoolInv, [Next]_vars PROVE PoolInv'
    OBVIOUS
  <2>1. PoolTypeOK'
    BY HookTypes, OtherTypes DEF PoolInv
  <2> QED BY <2>1, KnownKept, OrderKept, FlagKept DEF PoolInv
<1> QED BY <1>1, <1>2, PTL DEF Spec

(* Type correctness of the pool together with the gate.                    *)
THEOREM SwitchTypes == Spec => []TypeOK
<1>1. GateInv /\ PoolInv => TypeOK
  BY DEF GateInv, PoolInv, TypeOK
<1> QED BY <1>1, PoolHolds, SwitchesUseGate, GateHolds, PTL

(* However switches overtake each other, fail or time out, the flag of the *)
(* device is its latest switch's while that is under way, and is gone      *)
(* afterwards.                                                             *)
THEOREM FlagFollowsSwitchHolds == Spec => []FlagFollowsSwitch
<1>1. PoolInv => FlagFollowsSwitch
  BY DEF PoolInv
<1> QED BY <1>1, PoolHolds, PTL

(* No follow-up passes the gate on a finding older than the last teardown. *)
THEOREM SwitchesPassOnCurrent == Spec => NilIsCurrent
BY SwitchesUseGate, NilReturnsAreCurrent, PTL

-----------------------------------------------------------------------------
(* Who will take the modem out of low power: the latest switch, while its  *)
(* restoration is still to come.                                           *)
Owing == {"release", "apdu", "failing", "restoreFailed", "delay", "ensure", "core_ready",
          "converge", "policy", "online"}

Excused(s) == s \in expired \/ (gateErr[s] = "convergence" /\ at[s] \in {"restoreRadio", "done"})

LowOwed ==
  radio = "low" =>
    /\ RadioCycle
    /\ \E s \in Switches : /\ at[s] \notin {"idle", "token"} /\ Latest(s)
                           /\ at[s] \in Owing \/ Excused(s)

(* A switch that is no longer the current one though the latest has been   *)
(* expired by the guard.                                                   *)
LEMMA LatestIsCurrent ==
  ASSUME PoolInv, NEW s \in Switches, Underway(s), Latest(s), current # s
  PROVE  s \in expired
BY DEF PoolInv, FlagFollowsSwitch

(* Where a switch goes that leaves the modem in low power.                 *)
StaysOwing(s) == at[s] \in Owing /\ at'[s] \in Owing
Leaves(s) == at[s] \in Owing /\ Underway(s) /\ ~ StillCurrent(s)
GivesUp(s) == at[s] \in Owing /\ at'[s] = "restoreRadio" /\ gateErr'[s] = "convergence"
Later(s) ==
  /\ at[s] \notin Owing \cup {"token", "done"}
  /\ at[s] = "restoreRadio" => at'[s] = "done" /\ UNCHANGED gateErr

LEMMA LowStep ==
  ASSUME PoolTypeOK, NEW s \in Switches, Hook(s), ~ (TakeToken(s) \/ Release(s)),
         radio' = "low", radio = "low" => RadioCycle
  PROVE  /\ radio = "low"
         /\ StaysOwing(s) \/ Leaves(s) \/ GivesUp(s) \/ Later(s)
         /\ \A d \in Switches : d # s => gateErr'[d] = gateErr[d]
<1> USE DEF PoolTypeOK, Goto
<1>1. s \in Actors
  BY ActorFacts
<1>2. CASE Apdu(s) \/ ResolveSnapshot(s) \/ Ensure(s) \/ CoreReady(s) \/ Converges(s)
  BY <1>1, <1>2 DEF Apdu, ResolveSnapshot, Ensure, CoreReady, Converges, StaysOwing, Owing,
     deviceVars, localVars
<1>3. CASE FailedHook(s)
  BY <1>1, <1>3 DEF FailedHook, StaysOwing, Leaves, StillCurrent, Owing, Underway,
     deviceVars, localVars
<1>4. CASE Overtaken(s)
  BY <1>1, <1>4 DEF Overtaken, Leaves, Later, Owing, Underway, deviceVars, localVars
<1>5. CASE ConvergenceFails(s)
  BY <1>1, <1>5 DEF ConvergenceFails, Schedule, GivesUp, Owing, deviceVars
<1>6. CASE ApplyPolicy(s)
  BY <1>1, <1>6 DEF ApplyPolicy, StaysOwing, Owing, localVars
<1>7. CASE BringRadioOnline(s) \/ RestoreFailed(s)
  BY <1>7 DEF BringRadioOnline, RestoreFailed, RestoreRadioData
<1>8. CASE RefreshIdentity(s) \/ Read(s) \/ Write(s) \/ CallGate(s) \/ SkipGate(s)
           \/ GateReturns(s) \/ RestoreConnectivity(s)
  BY <1>1, <1>8 DEF RefreshIdentity, Read, Write, CallGate, SkipGate, GateReturns,
     RestoreConnectivity, Later, Owing, Reading, deviceVars, localVars
<1>9. CASE SwitchEnd(s) \/ RestoreRadio(s)
  BY <1>1, <1>9 DEF SwitchEnd, RestoreRadio, RestoreRadioData, Later, Owing, localVars
<1> QED BY <1>2, <1>3, <1>4, <1>5, <1>6, <1>7, <1>8, <1>9 DEF Hook

LEMMA LowOwedByHook ==
  ASSUME PoolInv, LowOwed, NEW s \in Switches, Hook(s)
  PROVE  LowOwed'
<1> USE SwitchAssumption DEF PoolInv, PoolTypeOK
<1>1. /\ s \in Actors /\ at[s] # "idle" /\ at'[s] \notin {"idle", "token"}
      /\ \A d \in Switches \ {s} : at'[d] = at[d]
      /\ expired' = expired
  BY HookMoves, ActorFacts DEF Takes, GoesOn, Ends, Rests, Underway
<1>2. CASE TakeToken(s) \/ Release(s)
  <2>1. at'[s] \in Owing /\ (radio' = "low" => RadioCycle)
    BY <1>1, <1>2 DEF TakeToken, Release, Goto, Owing, LowOwed, deviceVars
  <2>2. \A d \in Switches : d > s => at[d] = "idle"
    BY <1>1, <1>2 DEF TakeToken, Release, Order, Writing
  <2>3. Latest(s)'
    BY <1>1, <2>2 DEF Latest
  <2> QED BY <1>1, <2>1, <2>3 DEF LowOwed
<1>3. ASSUME ~ (TakeToken(s) \/ Release(s)), radio' = "low"
      PROVE  LowOwed'
  <2>1. /\ radio = "low"
        /\ StaysOwing(s) \/ Leaves(s) \/ GivesUp(s) \/ Later(s)
        /\ \A d \in Switches : d # s => gateErr'[d] = gateErr[d]
    BY <1>3, LowStep DEF LowOwed
  <2>2. PICK w \in Switches : /\ at[w] \notin {"idle", "token"} /\ Latest(w)
                              /\ at[w] \in Owing \/ Excused(w)
    BY <2>1 DEF LowOwed
  <2>3. RadioCycle
    BY <2>1 DEF LowOwed
  <2>4. at[s] # "token"
    BY <2>1 DEF StaysOwing, Leaves, GivesUp, Later, Owing
  <2>5. Latest(w)' /\ at'[w] \notin {"idle", "token"}
    BY <1>1, <2>2, <2>4 DEF Latest
  <2>6. at'[w] \in Owing \/ Excused(w)'
    <3>1. CASE w # s
      BY <1>1, <2>1, <2>2, <3>1 DEF Excused
    <3>2. CASE w = s
      <4>1. Leaves(s) => s \in expired
        BY <2>2, <3>2, LatestIsCurrent DEF Leaves, StillCurrent
      <4> QED BY <1>1, <2>1, <2>2, <3>2, <4>1 DEF Excused, StaysOwing, GivesUp, Later
    <3> QED BY <3>1, <3>2
  <2> QED BY <2>3, <2>5, <2>6 DEF LowOwed
<1> QED BY <1>2, <1>3 DEF LowOwed

LEMMA LowOwedByOthers ==
  ASSUME PoolInv, LowOwed, [Next]_vars, ~ \E s \in Switches : Hook(s)
  PROVE  LowOwed'
<1> USE SwitchAssumption DEF PoolInv, PoolTypeOK
<1>1. /\ UNCHANGED radio /\ expired \subseteq expired'
      /\ \A d \in Switches : gateErr'[d] = gateErr[d]
  <2>1. ASSUME NEW s \in Retrying, TimerFires(s) \/ Read(Timer(s)) \/ Write(Timer(s))
        PROVE  /\ UNCHANGED <<radio, expired>>
               /\ \A d \in Switches : gateErr'[d] = gateErr[d]
    BY <2>1, ActorFacts DEF TimerFires, Read, Write, deviceVars, localVars, historyVars
  <2> QED BY <2>1 DEF Next, Begin, GuardFires, GateWorks, ReadInBackground,
             WriteInBackground, vars, poolVars, deviceVars, localVars, historyVars
<1>2. \A d \in Switches : at'[d] = at[d] \/ (at[d] = "idle" /\ at'[d] = "token")
  <2>1. ASSUME NEW s \in Switches, NEW p \in Profiles, Begin(s, p)
        PROVE  \A d \in Switches : at'[d] = at[d] \/ (at[d] = "idle" /\ at'[d] = "token")
    BY <2>1, ActorFacts DEF Begin, Goto
  <2> QED BY <2>1, OtherMoves DEF GuardFires, Watches
<1> QED BY <1>1, <1>2 DEF LowOwed, Latest, Excused

(* Low power does not outlast the switches but where the code gives up.    *)
THEOREM RadioIsReleased == Spec => []RadioReleased
<1>1. Init => LowOwed
  BY DEF Init, ModeFor, LowOwed
<1>2. PoolInv /\ LowOwed /\ [Next]_vars => LowOwed'
  BY LowOwedByHook, LowOwedByOthers
<1>3. LowOwed => RadioReleased
  BY ActorFacts DEF LowOwed, RadioReleased, AtRest, Owing, Excused, Last
<1> QED BY <1>1, <1>2, <1>3, PoolHolds, PTL DEF Spec
-----------------------------------------------------------------------------
(* Where a switch may be once its result is known and its later refreshes  *)
(* are scheduled.                                                          *)
Restoring == {"gate", "vowifi_restore", "switchEnd", "restoreRadio", "done"}

Results ==
  /\ \A s \in Retrying : at[Timer(s)] # "idle" => at[s] \in Restoring
  /\ \A s \in Switches :
       /\ gateErr[s] # "unset" => at[s] \in Restoring \cup {"identity_refresh"}
       /\ at[s] = "gate" => gateErr[s] = "none"
       /\ at[s] = "online" => RadioCycle

LEMMA TimersDiffer ==
  /\ Background \notin {Timer(s) : s \in Switches}
  /\ \A s, d \in Switches : Timer(s) = Timer(d) => s = d
  /\ \A a \in Actors : a \in Switches \/ a = Background \/ \E s \in Retrying : a = Timer(s)
BY SwitchAssumption DEF Switches, Background, Timer, Actors

(* What a step of a switch does to the results: only its own may change,   *)
(* and its refreshes are scheduled no earlier than it restores.            *)
Settles(s) ==
  /\ \A d \in Switches : d # s => at'[d] = at[d] /\ gateErr'[d] = gateErr[d]
  /\ at[s] \in Restoring => at'[s] \in Restoring
  /\ gateErr'[s] # "unset" => at'[s] \in Restoring \cup {"identity_refresh"}
  /\ at'[s] = "gate" => gateErr'[s] = "none"
  /\ at'[s] = "online" => RadioCycle
  /\ \A d \in Retrying : at'[Timer(d)] # at[Timer(d)] => d = s /\ at'[s] \in Restoring

LEMMA HookSettles ==
  ASSUME PoolTypeOK, Results, NEW s \in Switches, Hook(s)
  PROVE  Settles(s)
<1> USE DEF PoolTypeOK, Goto, Restoring, Settles
<1>1. /\ s \in Actors /\ \A d \in Switches : d \in Actors /\ d # Timer(s)
      /\ \A d \in Retrying : d \in Switches /\ Timer(d) \in Actors /\ Timer(d) \notin Switches
      /\ \A d \in Retrying : Timer(d) = Timer(s) => d = s
  BY ActorFacts, TimersDiffer, SwitchAssumption
<1>2. /\ gateErr[s] # "unset" => at[s] \in Restoring \cup {"identity_refresh"}
      /\ at[s] = "gate" => gateErr[s] = "none"
      /\ at[s] = "online" => RadioCycle
  BY DEF Results
<1>3. CASE TakeToken(s) \/ Release(s)
  BY <1>1, <1>2, <1>3 DEF TakeToken, Release, localVars
<1>10. CASE Apdu(s) \/ FailedHook(s)
  <2>1. at'[s] \in {"delay", "failing", "restoreFailed", "done"}
        /\ at[s] \in {"apdu", "failing"}
    BY <1>1, <1>10 DEF Apdu, FailedHook
  <2>2. \A a \in Actors : a # s => at'[a] = at[a]
    BY <1>10 DEF Apdu, FailedHook
  <2>3. UNCHANGED gateErr
    BY <1>10 DEF Apdu, FailedHook, localVars
  <2> QED BY <1>1, <1>2, <2>1, <2>2, <2>3
<1>11. CASE RestoreFailed(s)
  BY <1>1, <1>2, <1>11 DEF RestoreFailed, localVars
<1>4. CASE ResolveSnapshot(s) \/ Overtaken(s) \/ Ensure(s) \/ CoreReady(s) \/ Converges(s)
  BY <1>1, <1>2, <1>4 DEF ResolveSnapshot, Overtaken, Ensure, CoreReady, Converges, localVars
<1>5. CASE ConvergenceFails(s)
  BY <1>1, <1>2, <1>5 DEF ConvergenceFails, Schedule
<1>6. CASE ApplyPolicy(s) \/ BringRadioOnline(s) \/ RefreshIdentity(s) \/ Read(s)
  BY <1>1, <1>2, <1>6 DEF ApplyPolicy, BringRadioOnline, RefreshIdentity, Read, localVars
<1>7. CASE Write(s)
  BY <1>1, <1>2, <1>7 DEF Write
<1>8. CASE CallGate(s) \/ SkipGate(s)
  BY <1>1, <1>2, <1>8 DEF CallGate, SkipGate, Schedule, VoWiFiWanted, localVars
<1>9. CASE GateReturns(s) \/ RestoreConnectivity(s) \/ SwitchEnd(s) \/ RestoreRadio(s)
  BY <1>1, <1>2, <1>9 DEF GateReturns, RestoreConnectivity, SwitchEnd, RestoreRadio, localVars
<1> QED BY <1>3, <1>4, <1>5, <1>6, <1>7, <1>8, <1>9, <1>10, <1>11
        DEF Hook

(* What every other step but Begin leaves as it is.                        *)
LEMMA OthersSettle ==
  ASSUME PoolTypeOK, [Next]_vars, ~ \E s \in Switches : Hook(s)
  PROVE  /\ UNCHANGED <<gateErr, card>>
         /\ \A d \in Switches : at'[d] = at[d] \/ (at[d] = "idle" /\ at'[d] = "token")
         /\ \A d \in Retrying : at'[Timer(d)] # at[Timer(d)] => at[Timer(d)] # "idle"
<1> USE DEF PoolTypeOK, Goto
<1>1. /\ \A d \in Retrying : d \in Switches /\ Timer(d) \in Actors /\ Timer(d) \notin Switches
                             /\ Timer(d) # Background
      /\ \A d \in Switches : d \in Actors /\ d # Background
  BY ActorFacts, SwitchAssumption
<1>2. ASSUME NEW s \in Switches, NEW p \in Profiles, Begin(s, p)
      PROVE  /\ UNCHANGED <<gateErr, card>>
             /\ \A d \in Switches : at'[d] = at[d] \/ (at[d] = "idle" /\ at'[d] = "token")
             /\ \A d \in Retrying : at'[Timer(d)] = at[Timer(d)]
  BY <1>1, <1>2 DEF Begin, deviceVars
<1>3. ASSUME NEW s \in Switches, GuardFires(s) \/ GateWorks(s)
      PROVE  UNCHANGED <<at, gateErr, card>>
  BY <1>3 DEF GuardFires, GateWorks, poolVars, deviceVars, localVars
<1>4. ASSUME NEW s \in Retrying, TimerFires(s) \/ Read(Timer(s)) \/ Write(Timer(s))
      PROVE  /\ UNCHANGED <<gateErr, card>>
             /\ \A d \in Switches : at'[d] = at[d]
             /\ \A d \in Retrying : at'[Timer(d)] # at[Timer(d)] => at[Timer(d)] # "idle"
  <2>1. Timer(s) \notin Switches /\ Timer(s) \in Actors
    BY <1>1
  <2>2. gateErr = [d \in Switches |-> gateErr[d]]
    OBVIOUS
  <2>3. UNCHANGED <<gateErr, card>>
    BY <1>4, <2>1, <2>2 DEF TimerFires, Read, Write, deviceVars, localVars
  <2> QED BY <1>1, <1>4, <2>1, <2>3 DEF TimerFires, Read, Write
<1>5. CASE ReadInBackground \/ WriteInBackground
  BY <1>1, <1>5 DEF ReadInBackground, WriteInBackground, deviceVars
<1>6. CASE UNCHANGED vars
  BY <1>6 DEF vars, poolVars, deviceVars, localVars
<1> QED BY <1>2, <1>3, <1>4, <1>5, <1>6 DEF Next

LEMMA ResultsKept ==
  ASSUME PoolTypeOK, Results, [Next]_vars
  PROVE  Results'
<1>1. Retrying \subseteq Switches
  BY SwitchAssumption
<1>2. ASSUME NEW s \in Switches, Hook(s)
      PROVE  Results'
  <2>1. Settles(s)
    BY <1>2, HookSettles
  <2> QED BY <1>1, <2>1 DEF Results, Settles
<1>3. CASE ~ \E s \in Switches : Hook(s)
  BY <1>1, <1>3, OthersSettle DEF Results, Restoring
<1> QED BY <1>2, <1>3

-----------------------------------------------------------------------------
(* Whoever is about to read or write the identity without another check,   *)
(* or holds its present generation, is the latest switch.                  *)
LatestActs ==
  /\ \A s \in Switches : at[s] \in Unchecked \/ s \in sameGen => Latest(s)
  /\ \A s \in Retrying : at[Timer(s)] \in Reading => Latest(s)

OnlyLatest == (current # 0 => Latest(current)) /\ (~ crossed => LatestActs)

Takeover == \E s \in Switches : TakeToken(s)

(* Only a switch that takes the token overtakes others.                    *)
LEMMA NotOvertaken ==
  ASSUME PoolInv, [Next]_vars, ~ Takeover
  PROVE  /\ \A d \in Switches : Latest(d)' <=> Latest(d)
         /\ current' \in {0, current}
<1> USE DEF PoolInv
<1>1. ASSUME NEW s \in Switches, Hook(s)
      PROVE  /\ \A d \in Switches : at'[d] \in {"idle", "token"} <=> at[d] \in {"idle", "token"}
             /\ current' \in {0, current}
  <2>1. /\ Takes(s) \/ GoesOn(s) \/ Ends(s) \/ Rests(s)
        /\ \A d \in Switches \ {s} : at'[d] = at[d]
        /\ at'[s] \notin {"idle", "token"}
    BY <1>1, HookMoves
  <2>2. at[s] # "token"
    <3> USE DEF Hook, Release, Apdu, FailedHook, RestoreFailed, ResolveSnapshot, Overtaken,
          Ensure, CoreReady, Converges, ConvergenceFails, ApplyPolicy, BringRadioOnline,
          RefreshIdentity, Read, Write, CallGate, SkipGate, GateReturns,
          RestoreConnectivity, SwitchEnd, RestoreRadio
    <3> QED BY <1>1 DEF Takeover
  <2> QED BY <2>1, <2>2 DEF GoesOn, Ends, Rests, Takes, Underway
<1>2. ASSUME NEW s \in Switches, NEW p \in Profiles, Begin(s, p)
      PROVE  /\ \A d \in Switches : at'[d] \in {"idle", "token"} <=> at[d] \in {"idle", "token"}
             /\ current' = current
  BY <1>2, ActorFacts DEF Begin, Goto, PoolTypeOK
<1>3. ASSUME NEW s \in Switches, GuardFires(s)
      PROVE  current' = 0 /\ UNCHANGED at
  BY <1>3 DEF GuardFires
<1>4. CASE Watches
  BY <1>4 DEF Watches, Latest
<1> QED BY <1>1, <1>2, <1>3, <1>4, OtherMoves DEF Latest

(* ... and a switch that takes it is the latest.                           *)
LEMMA TakerIsLatest ==
  ASSUME PoolInv, NEW s \in Switches, TakeToken(s)
  PROVE  /\ Latest(s)' /\ \A d \in Switches : d # s => at[d] \notin Writing
         /\ \A d \in Switches : d < s => ~ Latest(d)'
         /\ \A d \in Switches : d > s => at[d] = "idle"
<1> USE SwitchAssumption DEF PoolInv, PoolTypeOK
<1>1. at[s] = "token" /\ at' = [at EXCEPT ![s] = "release"] /\ s \in Actors
  BY ActorFacts DEF TakeToken, Goto
<1>2. \A d \in Switches : d > s => at[d] = "idle"
  BY <1>1 DEF Order, Writing
<1>3. \A d \in Switches : d < s => at[d] \notin Writing
  BY <1>1 DEF Order
<1>4. \A d \in Switches : d \in Nat /\ d \in Actors
  BY ActorFacts
<1>5. Latest(s)'
  BY <1>1, <1>2, <1>4 DEF Latest
<1>6. \A d \in Switches : d < s => ~ Latest(d)'
  BY <1>1, <1>4 DEF Latest
<1> QED BY <1>2, <1>3, <1>4, <1>5, <1>6 DEF Writing

(* A switch comes to read unchecked only as the current one, or goes on.   *)
LEMMA HookChecks ==
  ASSUME PoolTypeOK, Results, NEW s \in Switches, Hook(s), ~ Takeover
  PROVE  /\ at'[s] \in Unchecked => at[s] \in Unchecked \/ current = s
         /\ \A d \in sameGen' : d \in sameGen \/ (d = s /\ at[s] \in Unchecked)
         /\ crossed => crossed'
         /\ \A d \in Retrying : at'[Timer(d)] \in Reading => at[Timer(d)] \in Reading
<1> USE DEF PoolTypeOK, Goto, Unchecked, Reading, historyVars
<1>1. s \in Actors /\ (at[s] = "online" => RadioCycle)
      /\ \A d \in Retrying : Timer(d) \in Actors /\ Timer(d) # s
  BY ActorFacts, SwitchAssumption DEF Results
<1>2. CASE Release(s) \/ Apdu(s) \/ FailedHook(s) \/ RestoreFailed(s)
  BY <1>1, <1>2 DEF Release, Apdu, FailedHook, RestoreFailed, identityVars
<1>3. CASE ResolveSnapshot(s) \/ Overtaken(s) \/ CoreReady(s) \/ Converges(s)
  BY <1>1, <1>3 DEF ResolveSnapshot, Overtaken, CoreReady, Converges, identityVars,
     StillCurrent
<1>4. CASE Ensure(s) \/ RefreshIdentity(s)
  BY <1>1, <1>4 DEF Ensure, RefreshIdentity, EnsureTransition, BeginTransition, StillCurrent
<1>5. CASE ConvergenceFails(s) \/ CallGate(s) \/ SkipGate(s)
  BY <1>1, <1>5 DEF ConvergenceFails, CallGate, SkipGate, Schedule, identityVars
<1>6. CASE ApplyPolicy(s) \/ BringRadioOnline(s) \/ Read(s) \/ Write(s)
  BY <1>1, <1>6 DEF ApplyPolicy, BringRadioOnline, Read, Write, identityVars
<1>7. CASE GateReturns(s) \/ RestoreConnectivity(s) \/ SwitchEnd(s) \/ RestoreRadio(s)
  BY <1>1, <1>7 DEF GateReturns, RestoreConnectivity, SwitchEnd, RestoreRadio, identityVars
<1> QED BY <1>2, <1>3, <1>4, <1>5, <1>6, <1>7 DEF Hook, Takeover

LEMMA OthersCheck ==
  ASSUME PoolTypeOK, [Next]_vars, ~ \E s \in Switches : Hook(s)
  PROVE  /\ \A d \in Switches : at'[d] \in Unchecked => at[d] \in Unchecked
         /\ sameGen' \subseteq sameGen
         /\ crossed => crossed'
         /\ \A d \in Retrying : at'[Timer(d)] \in Reading =>
              at[Timer(d)] \in Reading \/ d \in sameGen
<1> USE DEF PoolTypeOK, Goto, historyVars
<1>1. /\ \A d \in Retrying : d \in Switches /\ Timer(d) \in Actors /\ Timer(d) \notin Switches
                             /\ Timer(d) # Background
      /\ \A d \in Switches : d \in Actors /\ d # Background
      /\ \A d, e \in Retrying : Timer(d) = Timer(e) => d = e
  BY ActorFacts, TimersDiffer, SwitchAssumption
<1>2. ASSUME NEW s \in Switches, NEW p \in Profiles, Begin(s, p)
      PROVE  /\ UNCHANGED <<sameGen, crossed>>
             /\ \A a \in Actors : at'[a] = at[a] \/ (a = s /\ at'[a] = "token")
  BY <1>1, <1>2 DEF Begin, identityVars
<1>3. ASSUME NEW s \in Switches, GuardFires(s) \/ GateWorks(s)
      PROVE  UNCHANGED <<at, sameGen, crossed>>
  BY <1>3 DEF GuardFires, GateWorks, poolVars, identityVars
<1>4. ASSUME NEW s \in Retrying, TimerFires(s)
      PROVE  /\ UNCHANGED crossed /\ sameGen' \subseteq sameGen
             /\ \A a \in Actors : a # Timer(s) => at'[a] = at[a]
             /\ at'[Timer(s)] \in Reading => s \in sameGen
  BY <1>1, <1>4 DEF TimerFires, ConvergenceMatches, EnsureTransition, BeginTransition,
     identityVars, Reading
<1>5. ASSUME NEW s \in Retrying, Read(Timer(s)) \/ Write(Timer(s))
      PROVE  /\ UNCHANGED <<crossed, sameGen>>
             /\ \A a \in Actors : a # Timer(s) => at'[a] = at[a]
             /\ at[Timer(s)] \in Reading
  BY <1>1, <1>5 DEF Read, Write, identityVars, Reading
<1>6. CASE ReadInBackground \/ WriteInBackground
  <2>1. /\ UNCHANGED <<crossed, sameGen>>
        /\ \A a \in Actors : a # Background => at'[a] = at[a]
    BY <1>6 DEF ReadInBackground, WriteInBackground, identityVars
  <2> QED BY <1>1, <2>1
<1>7. CASE UNCHANGED vars
  BY <1>7 DEF vars, poolVars, identityVars
<1>8. "token" \notin Unchecked \cup Reading
  BY DEF Unchecked, Reading
<1>9. ASSUME NEW s \in Retrying, TimerFires(s) \/ Read(Timer(s)) \/ Write(Timer(s))
      PROVE  /\ \A d \in Switches : at'[d] = at[d]
             /\ sameGen' \subseteq sameGen
             /\ crossed' = crossed
             /\ \A d \in Retrying : at'[Timer(d)] \in Reading =>
                  at[Timer(d)] \in Reading \/ d \in sameGen
  BY <1>1, <1>4, <1>5, <1>9
<1> QED BY <1>1, <1>2, <1>3, <1>6, <1>7, <1>8, <1>9 DEF Next

LEMMA OnlyLatestKept ==
  ASSUME PoolInv, Results, OnlyLatest, [Next]_vars
  PROVE  OnlyLatest'
<1> USE SwitchAssumption
<1>1. PoolTypeOK
  BY DEF PoolInv
<1>2. ASSUME NEW s \in Switches, TakeToken(s)
      PROVE  OnlyLatest'
  <2>1. /\ current' = s /\ s \in Nat \ {0} /\ sameGen' = {s}
        /\ at' = [at EXCEPT ![s] = "release"]
    BY <1>2 DEF TakeToken, BeginTransition, Goto, Switches
  <2>2. Latest(s)'
    BY <1>2, TakerIsLatest
  <2>3. ASSUME ~ crossed'
        PROVE  \A a \in Actors : at'[a] \notin Unchecked
    <3>1. \A a \in Actors : at[a] \notin Unchecked
      BY <1>2, <2>3 DEF TakeToken
    <3> QED BY <1>1, <2>1, <3>1 DEF PoolTypeOK, Unchecked, Reading
  <2>4. Reading \subseteq Unchecked
    BY DEF Unchecked
  <2>5. \A d \in Retrying : Timer(d) \in Actors
    BY ActorFacts
  <2>6. Switches \subseteq Actors
    BY ActorFacts
  <2> QED BY <2>1, <2>2, <2>3, <2>4, <2>5, <2>6 DEF OnlyLatest, LatestActs
<1>3. CASE ~ Takeover
  <2>1. /\ \A d \in Switches : Latest(d)' <=> Latest(d)
        /\ current' \in {0, current}
    BY <1>3, NotOvertaken
  <2>2. current' # 0 => Latest(current)'
    <3>1. current \in Switches \cup {0}
      BY <1>1 DEF PoolTypeOK
    <3> QED BY <2>1, <3>1 DEF OnlyLatest, Latest
  <2>3. ASSUME NEW s \in Switches, Hook(s), ~ crossed'
        PROVE  LatestActs'
    <3>1. /\ at'[s] \in Unchecked => at[s] \in Unchecked \/ current = s
          /\ \A d \in sameGen' : d \in sameGen \/ (d = s /\ at[s] \in Unchecked)
          /\ ~ crossed
          /\ \A d \in Retrying : at'[Timer(d)] \in Reading => at[Timer(d)] \in Reading
      BY <1>1, <1>3, <2>3, HookChecks
    <3>2. \A d \in Switches : d # s => at'[d] = at[d]
      BY <1>1, <2>3, HookMoves
    <3>3. s # 0
      BY DEF Switches
    <3> QED BY <2>1, <3>1, <3>2, <3>3 DEF OnlyLatest, LatestActs
  <2>4. ASSUME ~ \E s \in Switches : Hook(s), ~ crossed'
        PROVE  LatestActs'
    <3>1. LatestActs
      BY <1>1, <2>4, OthersCheck DEF OnlyLatest
    <3> QED BY <1>1, <2>1, <2>4, <3>1, OthersCheck DEF LatestActs
  <2> QED BY <2>2, <2>3, <2>4 DEF OnlyLatest
<1> QED BY <1>2, <1>3 DEF Takeover

-----------------------------------------------------------------------------
(* While nobody has been crossed: a completed reading is of the card, an   *)
(* identity presented as ready is the card's, the switch about to command  *)
(* the card still finds its target declared, and a latest switch that      *)
(* found its target keeps the identity ready.                              *)
Found(s) == gateErr[s] \in {"none", "simauth"}

ReadingsOfCard == \A a \in Actors : at[a] = "write" => seen[a] \in {card, None}
ReadyIsCard == identity.phase = "ready" => identity.iccid = card
Declared ==
  \A s \in Switches : at[s] \in {"release", "apdu"} =>
    snap[s].target = IF identity.phase = "ready" THEN identity.iccid ELSE identity.target
FoundIsReady == \A s \in Switches : Found(s) /\ Latest(s) => identity.phase = "ready"
RetriesUnfound ==
  \A s \in Retrying : at[Timer(s)] \in {"reading", "write"} /\ Latest(s) => ~ Found(s)

IdentityFacts ==
  ReadingsOfCard /\ ReadyIsCard /\ Declared /\ FoundIsReady /\ RetriesUnfound

IdentityInv == PoolInv /\ Results /\ OnlyLatest /\ (~ crossed => IdentityFacts)

(* The steps of switch d's own follow-up and refreshes that write the      *)
(* identity.                                                               *)
Acts(d) ==
  \/ Ensure(d) \/ RefreshIdentity(d) \/ Write(d)
  \/ d \in Retrying /\ TimerFires(d) /\ ConvergenceMatches(d)
  \/ d \in Retrying /\ Write(Timer(d))

(* Only the latest switch takes one, and then no other is at the card or   *)
(* has found its target lately.                                            *)
LEMMA ActorIsLatest ==
  ASSUME PoolInv, Results, OnlyLatest, ~ crossed, NEW d \in Switches, Acts(d)
  PROVE  /\ Latest(d) /\ at[d] \notin Writing \cup {"idle"}
         /\ \A s \in Switches : at[s] \notin {"release", "apdu"}
         /\ \A s \in Switches : s # d => gateErr[s] = "unset" \/ ~ Latest(s)
<1> USE SwitchAssumption DEF PoolInv, PoolTypeOK
<1>1. Latest(d) /\ at[d] \notin Writing \cup {"idle"}
  <2>1. CASE Ensure(d) \/ Write(d)
    <3>1. at[d] \in Reading
      BY <2>1 DEF Ensure, Write, Reading
    <3> QED BY <3>1 DEF OnlyLatest, LatestActs, Unchecked, Reading, Writing
  <2>2. CASE RefreshIdentity(d)
    <3>1. at[d] = "radio_online" /\ (RadioCycle => current = d) /\ d # 0
      BY <2>2 DEF RefreshIdentity, StillCurrent, Switches
    <3> QED BY <3>1 DEF OnlyLatest, LatestActs, Unchecked, Writing
  <2>3. CASE d \in Retrying /\ TimerFires(d) /\ ConvergenceMatches(d)
    BY <2>3 DEF OnlyLatest, LatestActs, ConvergenceMatches, TimerFires, Results, Restoring,
       Writing
  <2>4. CASE d \in Retrying /\ Write(Timer(d))
    BY <2>4 DEF OnlyLatest, LatestActs, Write, Reading, Results, Restoring, Writing
  <2> QED BY <2>1, <2>2, <2>3, <2>4 DEF Acts
<1>2. \A s \in Switches : s > d => at[s] \in {"idle", "token"}
  BY <1>1 DEF Latest
<1>3. \A s \in Switches : s < d => at[s] \notin Writing /\ ~ Latest(s)
  BY <1>1 DEF Order, Latest, Writing
<1>4. \A s \in Switches : s > d => gateErr[s] = "unset"
  BY <1>2 DEF Results, Restoring
<1>5. \A s \in Switches : s = d \/ s < d \/ s > d
  OBVIOUS
<1> QED BY <1>1, <1>2, <1>3, <1>4, <1>5 DEF Writing

(* Nobody but a background reading is under way when the card switches.    *)
LEMMA NobodyReads ==
  ASSUME PoolInv, Results, OnlyLatest, ~ crossed, NEW s \in Switches, at[s] = "apdu"
  PROVE  \A a \in Actors : at[a] = "write" => a = Background
<1> USE SwitchAssumption DEF PoolInv, PoolTypeOK
<1>1. \A d \in Switches : d > s => at[d] = "idle"
  BY DEF Order, Writing
<1>2. \A d \in Switches : d < s => ~ Latest(d)
  BY DEF Latest
<1>3. ASSUME NEW d \in Switches, at[d] = "write"
      PROVE  FALSE
  <2>1. Latest(d)
    BY <1>3 DEF OnlyLatest, LatestActs, Unchecked, Reading
  <2> QED BY <1>1, <1>2, <1>3, <2>1
<1>4. ASSUME NEW d \in Retrying, at[Timer(d)] = "write"
      PROVE  FALSE
  <2>1. d \in Switches /\ Latest(d) /\ at[d] \in Restoring
    BY <1>4 DEF OnlyLatest, LatestActs, Reading, Results
  <2>2. d > s
    BY <1>2, <2>1 DEF Restoring
  <2> QED BY <1>1, <2>1, <2>2 DEF Restoring
<1>5. SUFFICES ASSUME NEW a \in Actors, at[a] = "write", a # Background
                PROVE  FALSE
  OBVIOUS
<1>6. a \in Switches \/ \E d \in Retrying : a = Timer(d)
  BY <1>5, TimersDiffer
<1> QED BY <1>3, <1>4, <1>5, <1>6

LEMMA TakeoverKeepsFacts ==
  ASSUME IdentityInv, NEW s \in Switches, TakeToken(s), ~ crossed'
  PROVE  IdentityFacts'
<1> USE SwitchAssumption DEF IdentityInv, PoolInv, PoolTypeOK
<1>1. /\ at[s] = "token" /\ at' = [at EXCEPT ![s] = "release"] /\ s \in Actors
      /\ identity' = [iccid |-> None, phase |-> "transitioning", target |-> snap[s].target]
      /\ UNCHANGED <<card, snap, seen, gateErr>>
  BY ActorFacts DEF TakeToken, Goto, BeginTransition, deviceVars, localVars
<1>2. \A a \in Actors : at'[a] \notin {"reading", "write"}
  <2>1. \A a \in Actors : at[a] \notin Unchecked
    BY DEF TakeToken
  <2> QED BY <1>1, <2>1 DEF Unchecked, Reading
<1>3. \A d \in Switches : d # s => at'[d] \notin {"release", "apdu"}
  BY <1>1, TakerIsLatest, ActorFacts DEF Writing
<1>4. ReadingsOfCard'
  BY <1>2 DEF ReadingsOfCard
<1>5. ReadyIsCard'
  BY <1>1 DEF ReadyIsCard
<1>6. Declared'
  BY <1>1, <1>3 DEF Declared
<1>7. FoundIsReady'
  <2>1. gateErr[s] = "unset"
    BY <1>1 DEF Results, Restoring
  <2>2. \A d \in Switches : d < s => ~ Latest(d)'
    BY TakerIsLatest
  <2>3. \A d \in Switches : d > s => gateErr[d] = "unset"
    BY TakerIsLatest DEF Results, Restoring
  <2>4. \A d \in Switches : d = s \/ d < s \/ d > s
    OBVIOUS
  <2> QED BY <1>1, <2>1, <2>2, <2>3, <2>4 DEF FoundIsReady, Found
<1>8. RetriesUnfound'
  BY <1>2, ActorFacts DEF RetriesUnfound
<1> QED BY <1>4, <1>5, <1>6, <1>7, <1>8 DEF IdentityFacts

(* A step of the latest switch that writes the identity.                   *)
LEMMA ActKeepsFacts ==
  ASSUME IdentityInv, ~ crossed, NEW d \in Switches, Acts(d),
         \A s \in Switches : Latest(s)' <=> Latest(s)
  PROVE  IdentityFacts'
<1> USE SwitchAssumption DEF IdentityInv, PoolInv, PoolTypeOK
<1>1. /\ Latest(d) /\ at[d] \notin Writing \cup {"idle"}
      /\ \A s \in Switches : at[s] \notin {"release", "apdu"}
      /\ \A s \in Switches : s # d => gateErr[s] = "unset" \/ ~ Latest(s)
  BY ActorIsLatest
<1>2. IdentityFacts
  OBVIOUS
<1>3. /\ d \in Actors /\ d # Background /\ Of(d) = d
      /\ \A s \in Retrying : /\ s \in Switches /\ Timer(s) \in Actors /\ Timer(s) # Background
                             /\ Timer(s) \notin Switches /\ Of(Timer(s)) = s
      /\ \A s, e \in Retrying : Timer(s) = Timer(e) => s = e
      /\ Switches \subseteq Actors
  BY ActorFacts, TimersDiffer
<1>4. snap[d].target \in Profiles
  BY <1>1, <1>3 DEF Known
<1>5. CASE Ensure(d) \/ RefreshIdentity(d)
  <2>1. /\ identity'.phase # "ready" /\ UNCHANGED <<card, snap, seen, gateErr>>
        /\ gateErr[d] = "unset"
    BY <1>5 DEF Ensure, RefreshIdentity, EnsureTransition, BeginTransition, deviceVars,
       localVars, Results, Restoring
  <2>2. /\ \A a \in Actors : a # d => at'[a] = at[a]
        /\ at'[d] \in {"core_ready", "reading"}
    BY <1>3, <1>5 DEF Ensure, RefreshIdentity, Goto
  <2>3. ReadingsOfCard'
    BY <1>2, <2>1, <2>2 DEF IdentityFacts, ReadingsOfCard
  <2>4. ReadyIsCard' /\ Declared'
    BY <1>1, <1>3, <2>1, <2>2 DEF ReadyIsCard, Declared
  <2>5. FoundIsReady'
    BY <1>1, <2>1 DEF FoundIsReady, Found
  <2>6. RetriesUnfound'
    <3>1. \A s \in Retrying : at'[Timer(s)] = at[Timer(s)]
      <4>1. \A s \in Retrying : Timer(s) \in Actors /\ Timer(s) # d
        BY <1>3
      <4> QED BY <2>2, <4>1
    <3> QED BY <1>2, <2>1, <3>1 DEF IdentityFacts, RetriesUnfound, Found
  <2> QED BY <2>3, <2>4, <2>5, <2>6 DEF IdentityFacts
<1>6. CASE d \in Retrying /\ TimerFires(d) /\ ConvergenceMatches(d)
  <2>1. /\ identity.phase # "ready" /\ identity'.phase # "ready"
        /\ UNCHANGED <<card, snap, seen, gateErr>>
    BY <1>6 DEF TimerFires, ConvergenceMatches, EnsureTransition, BeginTransition,
       deviceVars, localVars
  <2>2. /\ \A a \in Actors : a # Timer(d) => at'[a] = at[a]
        /\ at'[Timer(d)] = "reading"
    BY <1>3, <1>6 DEF TimerFires, Goto
  <2>3. ReadingsOfCard'
    BY <1>2, <2>1, <2>2 DEF IdentityFacts, ReadingsOfCard
  <2>4. ReadyIsCard' /\ Declared'
    BY <1>1, <1>3, <1>6, <2>1, <2>2 DEF ReadyIsCard, Declared
  <2>5. \A s \in Switches : Found(s) => ~ Latest(s)
    BY <1>2, <2>1 DEF IdentityFacts, FoundIsReady
  <2>6. FoundIsReady' /\ RetriesUnfound'
    BY <2>1, <2>5 DEF FoundIsReady, RetriesUnfound, Found
  <2> QED BY <2>3, <2>4, <2>6 DEF IdentityFacts
<1>7. ASSUME NEW a \in Actors, Write(a), a = d \/ (d \in Retrying /\ a = Timer(d))
      PROVE  IdentityFacts'
  <2>1. /\ at[a] = "write" /\ a # Background /\ Of(a) = d /\ UNCHANGED <<card, snap>>
        /\ at'[a] \in {"identity_refresh", "done"}
        /\ \A b \in Actors : b # a => at'[b] = at[b] /\ seen'[b] = seen[b]
    BY <1>3, <1>7 DEF Write, Goto, deviceVars
  <2>2. seen[a] \in {card, None}
    BY <1>2, <2>1 DEF IdentityFacts, ReadingsOfCard
  <2>3. ReadingsOfCard'
    BY <1>2, <2>1 DEF IdentityFacts, ReadingsOfCard
  <2>4. ReadyIsCard'
    <3>1. CASE seen[a] = snap[d].target
      <4>1. snap[d].target # None
        BY <1>4 DEF None
      <4>2. seen[a] = card
        BY <2>2, <3>1, <4>1
      <4>3. identity' = ReadyWith(card)
        BY <1>7, <2>1, <3>1, <4>2 DEF Write
      <4> QED BY <2>1, <4>3 DEF ReadyIsCard, ReadyWith
    <3>2. CASE seen[a] # snap[d].target
      <4>1. identity'.phase = "degraded"
        BY <1>7, <2>1, <3>2 DEF Write
      <4> QED BY <4>1 DEF ReadyIsCard
    <3> QED BY <3>1, <3>2
  <2>5. Declared'
    <3>1. \A s \in Switches : at'[s] \notin {"release", "apdu"}
      BY <1>1, <1>3, <2>1
    <3> QED BY <3>1 DEF Declared
  <2>6. /\ \A s \in Switches : s # a => gateErr'[s] = gateErr[s]
        /\ a \in Switches => gateErr'[a] = "identity"
                             \/ (gateErr'[a] = "none" /\ identity'.phase = "ready")
    BY <1>7 DEF Write, ReadyWith
  <2>7. a \notin Switches => ~ Found(d)
    BY <1>1, <1>2, <1>3, <1>7, <2>1 DEF IdentityFacts, RetriesUnfound
  <2>8. FoundIsReady'
    BY <1>1, <1>3, <1>7, <2>6, <2>7 DEF FoundIsReady, Found
  <2>9. RetriesUnfound'
    <3>1. CASE a = d
      <4>1. \A s \in Retrying : at'[Timer(s)] = at[Timer(s)]
        <5> SUFFICES ASSUME NEW s \in Retrying
                     PROVE  at'[Timer(s)] = at[Timer(s)]
          OBVIOUS
        <5>1. Timer(s) \in Actors /\ Timer(s) # d
          BY <1>3
        <5>2. \A b \in Actors : b # d => at'[b] = at[b]
          BY <2>1, <3>1
        <5> QED BY <5>1, <5>2, Zenon
      <4>2. d \in Retrying => at[Timer(d)] = "idle"
        BY <2>1, <3>1 DEF Results, Restoring
      <4> QED BY <1>2, <2>6, <3>1, <4>1, <4>2 DEF IdentityFacts, RetriesUnfound, Found
    <3>2. CASE a # d
      <4>1. \A s \in Retrying : s # d => at'[Timer(s)] = at[Timer(s)]
        BY <1>3, <1>7, <2>1, <3>2
      <4>2. at'[Timer(d)] \notin {"reading", "write"}
        BY <1>7, <2>1, <3>2
      <4>3. UNCHANGED gateErr
        BY <1>3, <1>7, <2>6, <3>2 DEF Write
      <4> QED BY <1>2, <4>1, <4>2, <4>3 DEF IdentityFacts, RetriesUnfound, Found
    <3> QED BY <3>1, <3>2
  <2> QED BY <2>3, <2>4, <2>5, <2>8, <2>9 DEF IdentityFacts
<1> QED BY <1>3, <1>5, <1>6, <1>7 DEF Acts

(* The command to the card.                                                *)
LEMMA ApduKeepsFacts ==
  ASSUME IdentityInv, NEW s \in Switches, Apdu(s), ~ crossed, ~ crossed',
         \A d \in Switches : Latest(d)' <=> Latest(d)
  PROVE  IdentityFacts'
<1> USE SwitchAssumption DEF IdentityInv, PoolInv, PoolTypeOK
<1>1. /\ at[s] = "apdu" /\ UNCHANGED <<identity, snap, seen, gateErr>>
      /\ card' \in {card, snap[s].target}
      /\ card' # card => at[Background] # "write"
      /\ at'[s] \in {"delay", "failing"} /\ \A a \in Actors : a # s => at'[a] = at[a]
  <2>1. at[s] = "apdu" /\ card' \in {card, snap[s].target}
    BY DEF Apdu
  <2>2. UNCHANGED <<identity, snap, seen, gateErr>>
    BY DEF Apdu, identityVars, localVars
  <2>3. card' # card => at[Background] # "write"
    BY DEF Apdu
  <2>4. PICK p \in {"delay", "failing"} : at' = [at EXCEPT ![s] = p]
    BY DEF Apdu, Goto
  <2>5. s \in Actors
    BY ActorFacts
  <2>6. at'[s] = p /\ \A a \in Actors : a # s => at'[a] = at[a]
    BY <2>4, <2>5
  <2> QED BY <2>1, <2>2, <2>3, <2>4, <2>6
<1>2. IdentityFacts
  OBVIOUS
<1>3. \A a \in Actors : at[a] = "write" => a = Background
  BY <1>1, NobodyReads
<1>4. ReadingsOfCard'
  BY <1>1, <1>2, <1>3 DEF IdentityFacts, ReadingsOfCard
<1>5. ReadyIsCard'
  <2>1. identity.phase = "ready" => snap[s].target = card
    BY <1>1, <1>2 DEF IdentityFacts, Declared, ReadyIsCard
  <2> QED BY <1>1, <1>2, <2>1 DEF IdentityFacts, ReadyIsCard
<1>6. \A d \in Switches : at'[d] \in {"release", "apdu"} => at[d] \in {"release", "apdu"}
  BY <1>1, ActorFacts
<1>7. \A d \in Retrying : at'[Timer(d)] \in {"reading", "write"} =>
        at[Timer(d)] \in {"reading", "write"}
  BY <1>1, ActorFacts
<1> QED BY <1>1, <1>2, <1>4, <1>5, <1>6, <1>7 DEF IdentityFacts, Declared, FoundIsReady,
          RetriesUnfound, Found

(* A background refresh refuses what is not declared, so what it writes is *)
(* the card's and, where a switch is about to command the card, its target.*)
LEMMA BackgroundKeepsFacts ==
  ASSUME IdentityInv, ~ crossed, ReadInBackground \/ WriteInBackground,
         \A d \in Switches : Latest(d)' <=> Latest(d)
  PROVE  IdentityFacts'
<1> USE SwitchAssumption DEF IdentityInv, PoolInv, PoolTypeOK
<1>1. /\ UNCHANGED <<card, snap, gateErr>>
      /\ \A a \in Actors : a # Background => at'[a] = at[a] /\ seen'[a] = seen[a]
  BY DEF ReadInBackground, WriteInBackground, Goto, deviceVars
<1>2. IdentityFacts /\ Background \in Actors
  BY ActorFacts
<1>3. /\ \A d \in Switches : at'[d] = at[d]
      /\ \A d \in Retrying : at'[Timer(d)] = at[Timer(d)]
  <2>1. /\ \A d \in Switches : d \in Actors /\ d # Background
        /\ \A d \in Retrying : Timer(d) \in Actors /\ Timer(d) # Background
    BY ActorFacts
  <2> QED BY <1>1, <2>1
<1>4. CASE ReadInBackground
  <2>1. seen'[Background] = card /\ UNCHANGED identity
    BY <1>2, <1>4 DEF ReadInBackground, identityVars
  <2>2. ReadingsOfCard'
    BY <1>1, <1>2, <2>1 DEF IdentityFacts, ReadingsOfCard
  <2> QED BY <1>1, <1>2, <1>3, <2>1, <2>2 DEF IdentityFacts, ReadyIsCard, Declared,
            FoundIsReady, RetriesUnfound, Found
<1>5. CASE WriteInBackground
  <2>1. at[Background] = "write" /\ at'[Background] = "idle"
    BY <1>2, <1>5 DEF WriteInBackground, Goto
  <2>2. seen[Background] \in Profiles /\ seen[Background] = card
    BY <1>2, <2>1 DEF Known, IdentityFacts, ReadingsOfCard, None
  <2>3. ReadingsOfCard'
    BY <1>1, <1>2, <2>1 DEF IdentityFacts, ReadingsOfCard
  <2>4. RetriesUnfound'
    BY <1>1, <1>2, <1>3 DEF IdentityFacts, RetriesUnfound, Found
  <2>5. CASE Refused(card)
    <3>1. UNCHANGED identity
      BY <1>5, <2>2, <2>5 DEF WriteInBackground
    <3> QED BY <1>1, <1>2, <1>3, <2>3, <2>4, <3>1 DEF IdentityFacts, ReadyIsCard, Declared,
              FoundIsReady, Found
  <2>6. CASE ~ Refused(card)
    <3>1. identity'.phase = "ready" /\ identity'.iccid = card
      BY <1>5, <2>2, <2>6 DEF WriteInBackground, ReadyWith
    <3>2. \A d \in Switches : at[d] \in {"release", "apdu"} => snap[d].target = card
      BY <1>2, <2>6 DEF IdentityFacts, ReadyIsCard, Declared, Refused
    <3>3. ReadyIsCard' /\ FoundIsReady' /\ Declared'
      BY <1>1, <1>3, <3>1, <3>2 DEF ReadyIsCard, FoundIsReady, Declared
    <3> QED BY <2>3, <2>4, <3>3 DEF IdentityFacts
  <2> QED BY <2>5, <2>6
<1> QED BY <1>4, <1>5

(* Every other step leaves identity and card alone.                        *)
Aside ==
  /\ UNCHANGED <<identity, card>>
  /\ \A a \in Actors : at'[a] = "write" =>
       \/ at[a] = "write" /\ seen'[a] = seen[a]
       \/ at[a] = "reading" /\ seen'[a] \in {card, None}
  /\ \A s \in Switches :
       /\ at'[s] \in {"release", "apdu"} =>
            at[s] \in {"release", "apdu"} /\ snap'[s] = snap[s]
       /\ gateErr'[s] \in {"none", "simauth"} => Found(s)
  /\ \A s \in Retrying : at'[Timer(s)] \in {"reading", "write"} =>
                           at[Timer(s)] \in {"reading", "write"}

LEMMA AsideKeepsFacts ==
  ASSUME IdentityFacts, Aside, \A d \in Switches : Latest(d)' <=> Latest(d)
  PROVE  IdentityFacts'
<1> Retrying \subseteq Switches
  BY SwitchAssumption
<1>1. ReadingsOfCard' /\ ReadyIsCard'
  BY DEF IdentityFacts, Aside, ReadingsOfCard, ReadyIsCard
<1>2. Declared'
  BY DEF IdentityFacts, Aside, Declared
<1>3. FoundIsReady' /\ RetriesUnfound'
  BY DEF IdentityFacts, Aside, FoundIsReady, RetriesUnfound, Found
<1> QED BY <1>1, <1>2, <1>3 DEF IdentityFacts

LEMMA HookStaysAside ==
  ASSUME PoolTypeOK, Results, NEW s \in Switches, Hook(s),
         ~ Takeover, ~ Apdu(s), ~ Acts(s)
  PROVE  Aside
<1> USE DEF PoolTypeOK, Goto, Aside, Found, deviceVars, identityVars, localVars, historyVars
<1>1. /\ s \in Actors /\ Switches \subseteq Actors
      /\ \A d \in Switches : d # Timer(s)
      /\ \A d \in Retrying : Timer(d) \in Actors /\ Timer(d) # s
      /\ at[s] = "gate" => gateErr[s] = "none"
  BY ActorFacts, SwitchAssumption DEF Results
<1>2. CASE Release(s) \/ FailedHook(s) \/ RestoreFailed(s)
  BY <1>1, <1>2 DEF Release, FailedHook, RestoreFailed
<1>3. CASE ResolveSnapshot(s) \/ Overtaken(s) \/ CoreReady(s) \/ Converges(s)
  BY <1>1, <1>3 DEF ResolveSnapshot, Overtaken, CoreReady, Converges
<1>4. CASE ConvergenceFails(s)
  BY <1>1, <1>4 DEF ConvergenceFails, Schedule
<1>5. CASE CallGate(s) \/ SkipGate(s)
  BY <1>1, <1>5 DEF CallGate, SkipGate, Schedule
<1>6. CASE ApplyPolicy(s) \/ BringRadioOnline(s)
  BY <1>1, <1>6 DEF ApplyPolicy, BringRadioOnline
<1>7. CASE Read(s)
  BY <1>1, <1>7 DEF Read
<1>8. CASE GateReturns(s)
  BY <1>1, <1>8 DEF GateReturns
<1>9. CASE RestoreConnectivity(s) \/ SwitchEnd(s) \/ RestoreRadio(s)
  BY <1>1, <1>9 DEF RestoreConnectivity, SwitchEnd, RestoreRadio
<1> QED BY <1>2, <1>3, <1>4, <1>5, <1>6, <1>7, <1>8, <1>9 DEF Hook, Takeover, Acts

LEMMA OthersStayAside ==
  ASSUME PoolTypeOK, [Next]_vars, ~ \E s \in Switches : Hook(s) \/ Acts(s),
         ~ (ReadInBackground \/ WriteInBackground)
  PROVE  Aside
<1> USE DEF PoolTypeOK, Goto, Aside, Found, deviceVars, identityVars, localVars, historyVars
<1>1. /\ Switches \subseteq Actors
      /\ \A d \in Retrying : d \in Switches /\ Timer(d) \in Actors /\ Timer(d) \notin Switches
  BY ActorFacts, SwitchAssumption
<1>2. ASSUME NEW s \in Switches, NEW p \in Profiles, Begin(s, p)
      PROVE  Aside
  <2>1. \A d \in Retrying : Timer(d) # s
    BY <1>1
  <2> QED BY <1>1, <1>2, <2>1 DEF Begin
<1>3. ASSUME NEW s \in Switches, GuardFires(s) \/ GateWorks(s)
      PROVE  Aside
  BY <1>3 DEF GuardFires, GateWorks, poolVars
<1>4. ASSUME NEW s \in Retrying, TimerFires(s)
      PROVE  Aside
  <2>1. /\ at' = [at EXCEPT ![Timer(s)] = "done"]
        /\ UNCHANGED <<identity, card, seen, snap, gateErr>>
    BY <1>1, <1>4 DEF TimerFires, Acts
  <2> QED BY <1>1, <2>1
<1>5. ASSUME NEW s \in Retrying, Read(Timer(s))
      PROVE  Aside
  <2>1. \A d \in Switches : d # Timer(s)
    BY <1>1
  <2> QED BY <1>1, <1>5, <2>1 DEF Read
<1>6. CASE UNCHANGED vars
  BY <1>6 DEF vars, poolVars
<1> QED BY <1>1, <1>2, <1>3, <1>4, <1>5, <1>6 DEF Next, Acts

LEMMA IdentityFactsKept ==
  ASSUME IdentityInv, [Next]_vars, ~ crossed'
  PROVE  IdentityFacts'
<1>1. PoolTypeOK /\ PoolInv /\ Results /\ OnlyLatest
  BY DEF IdentityInv, PoolInv
<1>2. CASE Takeover
  BY <1>2, TakeoverKeepsFacts DEF Takeover
<1>3. CASE ~ Takeover
  <2>1. \A d \in Switches : Latest(d)' <=> Latest(d)
    BY <1>1, <1>3, NotOvertaken
  <2>2. ~ crossed
    BY <1>1, <1>3, HookChecks, OthersCheck
  <2>3. ASSUME NEW d \in Switches, Acts(d)
        PROVE  IdentityFacts'
    BY <2>1, <2>2, <2>3, ActKeepsFacts
  <2>4. ASSUME NEW s \in Switches, Hook(s), ~ Acts(s)
        PROVE  IdentityFacts'
    BY <1>1, <1>3, <2>1, <2>2, <2>4, ApduKeepsFacts, HookStaysAside, AsideKeepsFacts
       DEF IdentityInv
  <2>5. CASE ReadInBackground \/ WriteInBackground
    BY <2>1, <2>2, <2>5, BackgroundKeepsFacts
  <2>6. ASSUME ~ \E s \in Switches : Hook(s) \/ Acts(s),
               ~ (ReadInBackground \/ WriteInBackground)
        PROVE  IdentityFacts'
    BY <1>1, <2>1, <2>2, <2>6, OthersStayAside, AsideKeepsFacts DEF IdentityInv
  <2> QED BY <2>3, <2>4, <2>5, <2>6
<1> QED BY <1>2, <1>3

LEMMA IdentityHolds == Spec => []IdentityInv
<1>1. Init => Results /\ OnlyLatest /\ IdentityFacts
  <2> SUFFICES ASSUME Init PROVE Results /\ OnlyLatest /\ IdentityFacts
    OBVIOUS
  <2>1. /\ \A a \in Actors : at[a] = "idle"
        /\ \A s \in Switches : s \in Actors /\ gateErr[s] = "unset"
        /\ \A s \in Retrying : Timer(s) \in Actors
    BY ActorFacts DEF Init
  <2>2. identity.phase = "ready" /\ identity.iccid = card /\ sameGen = {} /\ current = 0
    BY DEF Init, ReadyWith
  <2>3. Retrying \subseteq Switches
    BY SwitchAssumption
  <2>4. Results /\ OnlyLatest
    BY <2>1, <2>2, <2>3 DEF Results, OnlyLatest, LatestActs, Unchecked, Reading
  <2>5. ReadingsOfCard /\ ReadyIsCard /\ Declared
    BY <2>1, <2>2 DEF ReadingsOfCard, ReadyIsCard, Declared
  <2>6. FoundIsReady /\ RetriesUnfound
    BY <2>1, <2>2, <2>3 DEF FoundIsReady, RetriesUnfound, Found
  <2> QED BY <2>4, <2>5, <2>6 DEF IdentityFacts
<1>2. IdentityInv /\ PoolInv' /\ [Next]_vars => IdentityInv'
  <2> SUFFICES ASSUME IdentityInv, PoolInv', [Next]_vars PROVE IdentityInv'
    OBVIOUS
  <2>1. Results' /\ OnlyLatest'
    BY ResultsKept, OnlyLatestKept DEF IdentityInv, PoolInv
  <2>2. ~ crossed' => IdentityFacts'
    BY IdentityFactsKept
  <2> QED BY <2>1, <2>2 DEF IdentityInv
<1>3. PoolInv /\ Results /\ OnlyLatest /\ IdentityFacts => IdentityInv
  BY DEF IdentityInv
<1> QED BY <1>1, <1>2, <1>3, PoolHolds, PTL DEF Spec

(* Once everything has come to rest, an identity presented as ready is the *)
(* card's, and it is ready after a switch that found its target, whatever  *)
(* overtaken follow-ups, later refreshes and background readings did.      *)
THEOREM IdentityAlwaysConverges == Spec => []IdentityConverges
<1>1. IdentityInv => IdentityConverges
  BY DEF IdentityInv, IdentityFacts, ReadyIsCard, FoundIsReady, Found, Last,
     IdentityConverges
<1> QED BY <1>1, IdentityHolds, PTL
=============================================================================
