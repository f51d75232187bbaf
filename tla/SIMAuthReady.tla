---------------------------- MODULE SIMAuthReady ----------------------------
(***************************************************************************)
(* The gate that VoWiFi recovery passes after a SIM switch                 *)
(* (apduarbiter/simauth_ready.go): concurrent callers of WaitSIMAuthReady  *)
(* share one probe of the SIM's authentication channel, and teardown       *)
(* invalidates what earlier probes found, also while a probe is running.   *)
(***************************************************************************)
EXTENDS Naturals

CONSTANTS
  Callers,           \* goroutines that call WaitSIMAuthReady
  MaxInvalidations   \* bound on calls of InvalidateSIMAuthReady

ASSUME InvalidationsAssumption == MaxInvalidations \in Nat

VARIABLES
  generation, ready, probing,  \* simAuthReadyState
  pc,                          \* where each caller is
  probeGen,                    \* the local variable generation of a prober
  readyGen,                    \* history: generation in which ready was set
  passed                       \* history: what the last nil return rested on

NotYet == [probeGen |-> 0, result |-> "none"]
Nil(g) == [probeGen |-> g, result |-> "nil"]

gateVars == <<generation, ready, probing, pc, probeGen, readyGen, passed>>

GateInit ==
  /\ generation = 0 /\ ready = FALSE /\ probing = FALSE
  /\ pc = [c \in Callers |-> "idle"]
  /\ probeGen = [c \in Callers |-> 0]
  /\ readyGen = 0
  /\ passed = [c \in Callers |-> NotYet]

Invalidate ==
  /\ generation < MaxInvalidations
  /\ generation' = generation + 1
  /\ ready' = FALSE
  /\ UNCHANGED <<probing, pc, probeGen, readyGen, passed>>

Call(c) ==
  /\ pc[c] = "idle"
  /\ pc' = [pc EXCEPT ![c] = "check"]
  /\ passed' = [passed EXCEPT ![c] = NotYet]
  /\ UNCHANGED <<generation, ready, probing, probeGen, readyGen>>

(* ctx is done at the head of the loop or while waiting for a probe.       *)
GiveUp(c) ==
  /\ pc[c] \in {"check", "parked"}
  /\ pc' = [pc EXCEPT ![c] = "idle"]
  /\ UNCHANGED <<generation, ready, probing, probeGen, readyGen, passed>>

(* One round under a.mu: return nil, wait for the running probe, or become *)
(* the prober of the current generation.                                   *)
PassReady(c) ==
  /\ pc[c] = "check" /\ ready
  /\ pc' = [pc EXCEPT ![c] = "idle"]
  /\ passed' = [passed EXCEPT ![c] = Nil(readyGen)]
  /\ UNCHANGED <<generation, ready, probing, probeGen, readyGen>>

Park(c) ==
  /\ pc[c] = "check" /\ ~ ready /\ probing
  /\ pc' = [pc EXCEPT ![c] = "parked"]
  /\ UNCHANGED <<generation, ready, probing, probeGen, readyGen, passed>>

StartProbe(c) ==
  /\ pc[c] = "check" /\ ~ ready /\ ~ probing
  /\ probing' = TRUE
  /\ probeGen' = [probeGen EXCEPT ![c] = generation]
  /\ pc' = [pc EXCEPT ![c] = "probe"]
  /\ UNCHANGED <<generation, ready, readyGen, passed>>

(* close(waitC) sends every parked caller round the loop again.            *)
Resumed == [x \in Callers |-> IF pc[x] = "parked" THEN "check" ELSE pc[x]]

(* Mutant: every finding counts, however old.                              *)
NeverStale(c) == FALSE

Stale(c) == generation # probeGen[c]

(* The probe returned: its finding counts unless the gate was invalidated  *)
(* since it started.  A failed probe is this caller's error, a stale       *)
(* success sends it round the loop.                                        *)
ProbeReturns(c, ok) ==
  /\ pc[c] = "probe"
  /\ ready' = IF Stale(c) THEN ready ELSE ok
  /\ readyGen' = IF ok /\ ~ Stale(c) THEN probeGen[c] ELSE readyGen
  /\ probing' = FALSE
  /\ pc' = [Resumed EXCEPT ![c] = IF ok /\ Stale(c) THEN "check" ELSE "idle"]
  /\ passed' = IF ok /\ ~ Stale(c) THEN [passed EXCEPT ![c] = Nil(probeGen[c])] ELSE passed
  /\ UNCHANGED <<generation, probeGen>>

GateNext ==
  \/ Invalidate
  \/ \E c \in Callers :
       \/ Call(c) \/ GiveUp(c) \/ PassReady(c) \/ Park(c) \/ StartProbe(c)
       \/ \E ok \in BOOLEAN : ProbeReturns(c, ok)

GateSpec == GateInit /\ [][GateNext]_gateVars

-----------------------------------------------------------------------------
GateTypeOK ==
  /\ generation \in Nat /\ ready \in BOOLEAN /\ probing \in BOOLEAN
  /\ pc \in [Callers -> {"idle", "check", "parked", "probe"}]
  /\ probeGen \in [Callers -> Nat] /\ readyGen \in Nat
  /\ passed \in [Callers -> [probeGen : Nat, result : {"none", "nil"}]]

(* Concurrent callers share one probe: at most one is running, the probing *)
(* flag says so, and nobody is parked unless its end will resume him       *)
(* (TestSIMAuthReadyGateCoalescesConcurrentProbes).                        *)
OneProbe ==
  /\ \A c, d \in Callers : pc[c] = "probe" /\ pc[d] = "probe" => c = d
  /\ probing <=> \E c \in Callers : pc[c] = "probe"
  /\ \A c \in Callers : pc[c] = "parked" => probing

(* The gate is open only on a probe that started after the last            *)
(* invalidation (TestSIMAuthReadyGateInvalidationForcesNewProbe).          *)
ReadyIsCurrent == ready => readyGen = generation

(* A nil return vouches for a probe of the present generation: a caller    *)
(* never passes on a finding that went stale while its own probe, or the   *)
(* probe it waited for, was running.                                       *)
NilIsCurrent ==
  [][\A c \in Callers :
       passed'[c].result = "nil" /\ passed[c].result = "none"
         => passed'[c].probeGen = generation]_gateVars
=============================================================================
