---------------------------- MODULE VoWiFiProofs ----------------------------
(***************************************************************************)
(* VoWiFi, for any number of commands of any kind.  Whatever starts and    *)
(* teardowns meet, no tunnel is left behind, no overtaken start claims the *)
(* slot, a card switch stays quiet and the SMS mode follows.  The          *)
(* desired-state layer drives the lifecycle as its specification says, so  *)
(* all this holds there, too; and what a user disables stays off.          *)
(***************************************************************************)
EXTENDS VoWiFiDesired, TLAPS, FiniteSetTheorems

(* Where a command is before it has a tunnel, and after it has had none.   *)
Unconnected ==
  {"unused", "lock", "admit", "expire", "number", "cancel", "bind", "invalidate",
   "teardown", "stop", "down", "delete", "sms", "inactive", "ready", "check", "begin",
   "prepare", "start", "connect", "tunnel", "error", "fail"}
Owned == {"claimed", "mark", "done"}
Places == Unconnected \cup Owned \cup {"claim", "discard", "forget"}

Record ==
  [pc : Places, kind : Kinds \cup {"enable"}, gen : Nat, epoch : Nat,
   victim : Commands \cup {None}, cancelled : BOOLEAN, superseded : BOOLEAN]
Records == [Commands -> Record]

Slots ==
  [inst : Commands \cup {None}, starting : BOOLEAN, epoch : Nat, hasState : BOOLEAN,
   failed : BOOLEAN]

Types ==
  /\ cmd \in Records
  /\ slot \in Slots
  /\ tunnel \in [Commands -> {"none", "up", "closing", "down"}]
  /\ generation \in Nat /\ busy \subseteq Nat

Stopping == {"stop", "down", "delete"}

(* An instance that is current or being stopped has been claimed; one that *)
(* is closing has a goroutine at it, and none is deleted while up.         *)
TunnelInv ==
  /\ \A c \in Commands : cmd[c].pc \in Unconnected => tunnel[c] = "none"
  /\ slot.inst # None => cmd[slot.inst].pc \in Owned
  /\ \A c \in Commands : cmd[c].pc \in Stopping =>
       cmd[c].victim \in Commands /\ cmd[cmd[c].victim].pc \in Owned
  /\ \A c \in Commands : At(c, "delete") => tunnel[cmd[c].victim] # "up"
  /\ \A i \in Commands : tunnel[i] = "closing" =>
       \E c \in Commands : At(c, "down") /\ cmd[c].victim = i
  /\ NoOrphanTunnel

LifecycleInv == Types /\ TunnelInv

LEMMA NoneIsNoCommand == None \notin Commands /\ 0 \in Nat
BY DEF None, Commands

LEMMA LifecycleInit == Init => LifecycleInv
BY NoneIsNoCommand DEF Init, LifecycleInv, Types, Records, Record, Slots, TunnelInv, NoOrphanTunnel, ZeroSlot,
  NotSubmitted, At, Places, Unconnected, Owned, Stopping

-----------------------------------------------------------------------------
(* What the steps do to a command's record.                                *)

(* Command c goes on to one of the places P, the others stay where they    *)
(* are; c may take another instance in hand only to stop it.               *)
Moves(c, P) ==
  /\ cmd' \in Records
  /\ cmd'[c].pc \in P
  /\ cmd'[c].pc \in Stopping => cmd'[c].victim = cmd[c].victim
  /\ \A d \in Commands : d # c => cmd'[d].pc = cmd[d].pc /\ cmd'[d].victim = cmd[d].victim

LEMMA RecordFacts ==
  ASSUME Types, NEW c \in Commands, NEW p \in Places
  PROVE  /\ cmd[c] \in Record
         /\ [cmd[c] EXCEPT !.pc = p] \in Record
         /\ [cmd[c] EXCEPT !.pc = p].pc = p
         /\ [cmd[c] EXCEPT !.pc = p].victim = cmd[c].victim
<1>1. cmd[c] \in Record
  BY DEF Types, Records
<1> QED BY <1>1 DEF Record

LEMMA GotoMoves ==
  ASSUME Types, NEW c \in Commands, NEW p \in Places, Goto(c, p)
  PROVE  Moves(c, {p})
<1> DEFINE new == [cmd[c] EXCEPT !.pc = p]
<1>1. cmd' = [cmd EXCEPT ![c] = new]
  BY DEF Goto
<1>2. new \in Record /\ new.pc = p /\ new.victim = cmd[c].victim
  BY RecordFacts
<1> HIDE DEF new
<1> QED BY <1>1, <1>2 DEF Moves, Types, Records

LEMMA EditMoves ==
  ASSUME Types, NEW c \in Commands, NEW new \in Record, new.victim = cmd[c].victim,
         cmd' = [cmd EXCEPT ![c] = new]
  PROVE  Moves(c, {new.pc})
BY DEF Moves, Types, Records

LEMMA NumberMoves ==
  ASSUME Types, NEW c \in Commands, NEW p \in Places, NEW n \in Nat,
         cmd' = [cmd EXCEPT ![c].pc = p, ![c].gen = n]
  PROVE  Moves(c, {p})
<1> DEFINE new == [cmd[c] EXCEPT !.pc = p, !.gen = n]
<1>1. cmd' = [cmd EXCEPT ![c] = new]
  OBVIOUS
<1>2. cmd[c] \in Record
  BY RecordFacts
<1>3. new \in Record /\ new.pc = p /\ new.victim = cmd[c].victim
  BY <1>2 DEF Record
<1> HIDE DEF new
<1> QED BY <1>1, <1>3, EditMoves

LEMMA EpochMoves ==
  ASSUME Types, NEW c \in Commands, NEW p \in Places, NEW n \in Nat,
         cmd' = [cmd EXCEPT ![c].pc = p, ![c].epoch = n]
  PROVE  Moves(c, {p})
<1> DEFINE new == [cmd[c] EXCEPT !.pc = p, !.epoch = n]
<1>1. cmd' = [cmd EXCEPT ![c] = new]
  OBVIOUS
<1>2. cmd[c] \in Record
  BY RecordFacts
<1>3. new \in Record /\ new.pc = p /\ new.victim = cmd[c].victim
  BY <1>2 DEF Record
<1> HIDE DEF new
<1> QED BY <1>1, <1>3, EditMoves

LEMMA FinishMoves ==
  ASSUME Types, NEW c \in Commands, Finish(c)
  PROVE  Moves(c, {"done"}) /\ generation' = generation
<1>1. Returned(c) \in Record /\ Returned(c).pc = "done"
  BY NoneIsNoCommand DEF Returned, NotSubmitted, Record, Types, Records, Places, Owned
<1> QED BY <1>1 DEF Finish, Moves, Types, Records, Stopping

LEMMA SupersedingMoves ==
  ASSUME Types, NEW c \in Commands, NEW p \in Places,
         cmd' = [Superseding EXCEPT ![c].pc = p]
  PROVE  Moves(c, {p})
<1> DEFINE new(d) == [cmd[d] EXCEPT !.superseded = @ \/ InFlight(d)]
           last == [new(c) EXCEPT !.pc = p]
<1>1. ASSUME NEW d \in Commands
      PROVE  new(d) \in Record /\ new(d).pc = cmd[d].pc /\ new(d).victim = cmd[d].victim
  <2>1. cmd[d] \in Record /\ InFlight(d) \in BOOLEAN
    BY DEF Types, Records, InFlight
  <2>2. (cmd[d].superseded \/ InFlight(d)) \in BOOLEAN
    OBVIOUS
  <2> QED BY <2>1, <2>2 DEF Record
<1>2. last \in Record /\ last.pc = p /\ last.victim = cmd[c].victim
  <2>1. new(c) \in Record
    BY <1>1
  <2>2. new(c).victim = cmd[c].victim
    BY <1>1
  <2> HIDE DEF new
  <2> QED BY <2>1, <2>2 DEF Record
<1>3. cmd' = [[d \in Commands |-> new(d)] EXCEPT ![c] = last]
  BY DEF Superseding
<1> HIDE DEF new, last
<1>4. cmd'[c] = last /\ \A d \in Commands : d # c => cmd'[d] = new(d)
  BY <1>3
<1>5. cmd' = [d \in Commands |-> IF d = c THEN last ELSE new(d)]
  BY <1>3
<1>6. cmd' \in Records
  BY <1>1, <1>2, <1>5 DEF Records
<1> QED BY <1>1, <1>2, <1>4, <1>6 DEF Moves

(* A step of a command that has no tunnel and no instance in hand, and     *)
(* takes none, or whose instance has been claimed or discarded.            *)
LEMMA Undisturbed ==
  ASSUME LifecycleInv, NEW c \in Commands, NEW P, Moves(c, P),
         \/ cmd[c].pc \in Unconnected \ Stopping /\ P \subseteq (Unconnected \ Stopping) \cup {"done"}
         \/ cmd[c].pc \in Owned \cup {"forget"} /\ P \subseteq Owned,
         tunnel' = tunnel, slot'.inst = slot.inst
  PROVE  TunnelInv'
<1> USE DEF LifecycleInv, TunnelInv, Moves, Stopping, At
<1>1. \A d \in Commands : cmd'[d].pc \in Unconnected => tunnel'[d] = "none"
  BY DEF Unconnected, Owned
<1>2. slot'.inst # None => cmd'[slot'.inst].pc \in Owned
  <2>1. slot.inst # None => slot.inst \in Commands
    BY DEF Types, Slots
  <2> QED BY <2>1 DEF Unconnected, Owned
<1>3. \A d \in Commands : cmd'[d].pc \in Stopping => d # c
  BY DEF Unconnected, Owned
<1>4. \A d \in Commands : cmd[d].pc \in Owned => cmd'[d].pc \in Owned
  BY DEF Unconnected, Owned
<1>5. \A d \in Commands : cmd'[d].pc \in Stopping =>
        cmd'[d].victim \in Commands /\ cmd'[cmd'[d].victim].pc \in Owned
  BY <1>3, <1>4
<1>6. \A d \in Commands : At(d, "delete")' => tunnel'[cmd'[d].victim] # "up"
  BY <1>3
<1>7. \A i \in Commands : tunnel'[i] = "closing" =>
        \E d \in Commands : At(d, "down")' /\ cmd'[d].victim = i
  BY DEF Unconnected, Owned
<1>8. NoOrphanTunnel'
  BY DEF NoOrphanTunnel, Unconnected, Owned
<1> QED BY <1>1, <1>2, <1>5, <1>6, <1>7, <1>8

LEMMA SlotForms ==
  ASSUME Types
  PROVE  /\ InvalidateSlot => slot' \in Slots /\ slot'.inst = slot.inst /\ tunnel' = tunnel
         /\ slot' \in {Observed, Cleared} \/ RecordStartupState
              => slot' \in Slots /\ slot'.inst = slot.inst
<1> USE NoneIsNoCommand
<1>1. slot \in Slots
  BY DEF Types
<1>2. InvalidateSlot => slot' \in Slots /\ slot'.inst = slot.inst /\ tunnel' = tunnel
  <2>1. slot.inst \in Commands \cup {None} /\ slot.epoch + 1 \in Nat
    BY <1>1 DEF Slots
  <2> DEFINE n == slot.epoch + 1
             new == [inst |-> slot.inst, starting |-> FALSE, epoch |-> n,
                     hasState |-> FALSE, failed |-> FALSE]
  <2>2. InvalidateSlot => slot' = new /\ tunnel' = tunnel
    BY DEF InvalidateSlot, ZeroSlot
  <2>3. n \in Nat
    BY <2>1
  <2> HIDE DEF n
  <2>4. new \in Slots /\ new.inst = slot.inst
    BY <2>1, <2>3 DEF Slots
  <2> QED BY <2>2, <2>4
<1>3. Observed \in Slots /\ Observed.inst = slot.inst
  BY <1>1 DEF Observed, Slots
<1>4. Cleared \in Slots /\ Cleared.inst = slot.inst
  BY <1>1 DEF Cleared, Slots, ZeroSlot
<1> QED BY <1>2, <1>3, <1>4 DEF RecordStartupState, Observed

(* The steps of the controller and of a start up to the tunnel, and those  *)
(* after the claim: they leave inst and the tunnels alone.                 *)
LEMMA QuietSteps ==
  ASSUME LifecycleInv, NEW c \in Commands,
         \/ Admit(c) \/ Number(c) \/ CancelActiveRun(c) \/ BindRunContext(c)
         \/ Expire(c) \/ Invalidate(c) \/ RestoreSMSMode(c)
         \/ WaitReady(c) \/ SkipActive(c) \/ CheckSwitching(c) \/ BeginStart(c)
         \/ Prepare(c) \/ StartInstance(c) \/ ConnectInstance(c)
         \/ Forget(c) \/ ClearStartupState(c) \/ MarkRuntimeStarted(c)
         \/ HandleStartupError(c) \/ FailStart(c)
  PROVE  LifecycleInv'
<1> DEFINE Quiet(P) ==
      /\ Moves(c, P) /\ tunnel' = tunnel /\ slot'.inst = slot.inst
      /\ slot' \in Slots /\ generation' \in Nat /\ busy' \subseteq Nat
      /\ \/ cmd[c].pc \in Unconnected \ Stopping
              /\ P \subseteq (Unconnected \ Stopping) \cup {"done"}
         \/ cmd[c].pc \in Owned \cup {"forget"} /\ P \subseteq Owned
<1>0. Types /\ slot \in Slots /\ cmd[c] \in Record /\ cmd[c].gen \in Nat
  BY DEF LifecycleInv, Types, Records, Record
<1>1. ASSUME NEW P, Quiet(P) PROVE LifecycleInv'
  BY <1>1, <1>0, Undisturbed DEF LifecycleInv, Types, Moves
<1>2. ASSUME NEW p \in Places, Goto(c, p) PROVE Moves(c, {p})
  BY <1>0, <1>2, GotoMoves
<1>3. ASSUME Finish(c) PROVE Moves(c, {"done"}) /\ generation' \in Nat
  BY <1>0, <1>3, FinishMoves DEF Types
<1>4. ASSUME UNCHANGED control PROVE generation' \in Nat
  BY <1>0, <1>4 DEF control, Types
<1>5. ASSUME UNCHANGED radio PROVE busy' \subseteq Nat
  BY <1>0, <1>5 DEF radio, Types
<1>6. UNCHANGED slot => slot' \in Slots /\ slot'.inst = slot.inst
  BY <1>0
<1>7. generation + 1 \in Nat /\ busy \subseteq Nat /\ generation \in Nat
  BY <1>0 DEF Types
<1> USE DEF Places, Unconnected, Owned, Stopping, At
<1>8. CASE Admit(c)
  <2>1. CASE Finish(c)
    <3>1. Quiet({"done"})
      BY <1>8, <2>1, <1>3, <1>5, <1>6 DEF Admit, Quiet
    <3> QED BY <3>1, <1>1
  <2>2. CASE Goto(c, "bind") /\ UNCHANGED control
    <3>1. Quiet({"bind"})
      BY <1>8, <2>2, <1>2, <1>4, <1>5, <1>6 DEF Admit, Quiet
    <3> QED BY <3>1, <1>1
  <2>3. CASE generation' = generation + 1
             /\ cmd' = [cmd EXCEPT ![c].pc = "bind", ![c].gen = generation + 1]
    <3>1. Moves(c, {"bind"})
      BY <2>3, <1>0, <1>7, NumberMoves
    <3>2. Quiet({"bind"})
      BY <1>8, <2>3, <3>1, <1>5, <1>6, <1>7 DEF Admit, Quiet
    <3> QED BY <3>2, <1>1
  <2> QED BY <1>8, <2>1, <2>2, <2>3 DEF Admit
<1>9. CASE Number(c)
  <2>1. Moves(c, {"cancel"})
    BY <1>9, <1>0, <1>7, NumberMoves DEF Number
  <2>2. Quiet({"cancel"})
    BY <1>9, <2>1, <1>5, <1>6, <1>7 DEF Number, Quiet
  <2> QED BY <2>2, <1>1
<1>10. CASE CancelActiveRun(c)
  <2> DEFINE own == [cmd[c] EXCEPT !.pc = "bind"]
             new(d) == [cmd[d] EXCEPT !.cancelled = @ \/ d = runCancel]
  <2>1. own \in Record /\ own.pc = "bind" /\ own.victim = cmd[c].victim
    BY <1>0, RecordFacts
  <2>2. ASSUME NEW d \in Commands
        PROVE  new(d) \in Record /\ new(d).pc = cmd[d].pc /\ new(d).victim = cmd[d].victim
    <3>1. cmd[d] \in Record /\ (cmd[d].cancelled \/ d = runCancel) \in BOOLEAN
      BY <1>0, RecordFacts
    <3> QED BY <3>1 DEF Record
  <2>3. cmd' = [d \in Commands |-> IF d = c THEN own ELSE new(d)]
    BY <1>10 DEF CancelActiveRun
  <2> HIDE DEF own, new
  <2>4. cmd'[c] = own /\ \A d \in Commands : d # c => cmd'[d] = new(d)
    BY <2>3
  <2>5. cmd' \in Records
    BY <2>1, <2>2, <2>3 DEF Records
  <2>6. Moves(c, {"bind"})
    BY <2>1, <2>2, <2>4, <2>5 DEF Moves
  <2>7. Quiet({"bind"})
    BY <1>10, <2>6, <1>4, <1>5, <1>6 DEF CancelActiveRun, Quiet
  <2> QED BY <2>7, <1>1
<1>11. CASE BindRunContext(c)
  <2>1. FirstStep(cmd[c].kind) \in {"check", "teardown", "inactive", "invalidate"}
    BY DEF FirstStep
  <2>2. Moves(c, {FirstStep(cmd[c].kind)})
    BY <1>11, <2>1, <1>2 DEF BindRunContext
  <2>3. Quiet({FirstStep(cmd[c].kind)})
    BY <1>11, <2>1, <2>2, <1>5, <1>6, <1>7 DEF BindRunContext, Quiet
  <2> QED BY <2>3, <1>1
<1>12. CASE Expire(c)
  <2> DEFINE p == IF cmd[c].kind = "disable" THEN "lock" ELSE "number"
  <2>1. Moves(c, {p})
    BY <1>12, <1>0, SupersedingMoves DEF Expire
  <2>2. Quiet({p})
    BY <1>12, <2>1, <1>0, <1>4, <1>5, SlotForms DEF Expire, Quiet
  <2> QED BY <2>2, <1>1
<1>13. CASE Invalidate(c)
  <2>1. Moves(c, {"teardown"})
    BY <1>13, <1>0, SupersedingMoves DEF Invalidate
  <2>2. Quiet({"teardown"})
    BY <1>13, <2>1, <1>0, <1>4, <1>5, SlotForms DEF Invalidate, Quiet
  <2> QED BY <2>2, <1>1
<1>14. CASE RestoreSMSMode(c)
  <2>1. Moves(c, {"ready", "done"}) /\ generation' \in Nat
    BY <1>14, <1>2, <1>3, <1>4 DEF RestoreSMSMode, AfterTeardown, Moves
  <2>2. Quiet({"ready", "done"})
    BY <1>14, <2>1, <1>6, <1>7 DEF RestoreSMSMode, Quiet
  <2> QED BY <2>2, <1>1
<1>15. CASE WaitReady(c)
  <2>1. Moves(c, {"check", "done"}) /\ generation' \in Nat
    BY <1>15, <1>2, <1>3, <1>4 DEF WaitReady, Moves
  <2>2. Quiet({"check", "done"})
    BY <1>15, <2>1, <1>5, <1>6 DEF WaitReady, Quiet
  <2> QED BY <2>2, <1>1
<1>16. CASE SkipActive(c)
  <2>1. Moves(c, {"invalidate", "done"}) /\ generation' \in Nat
    BY <1>16, <1>2, <1>3, <1>4 DEF SkipActive, Moves
  <2>2. Quiet({"invalidate", "done"})
    BY <1>16, <2>1, <1>5, <1>6 DEF SkipActive, Quiet
  <2> QED BY <2>2, <1>1
<1>17. CASE CheckSwitching(c)
  <2>1. Moves(c, {"begin", "done"}) /\ generation' \in Nat
    BY <1>17, <1>2, <1>3, <1>4 DEF CheckSwitching, Moves
  <2>2. Quiet({"begin", "done"})
    BY <1>17, <2>1, <1>5, <1>6 DEF CheckSwitching, Quiet
  <2> QED BY <2>2, <1>1
<1>18. CASE BeginStart(c)
  <2>1. CASE Finish(c) /\ UNCHANGED slot
    <3>1. Quiet({"done"})
      BY <1>18, <2>1, <1>3, <1>5, <1>6 DEF BeginStart, Quiet
    <3> QED BY <3>1, <1>1
  <2>2. CASE /\ slot' = [slot EXCEPT !.starting = TRUE, !.failed = FALSE]
             /\ cmd' = [cmd EXCEPT ![c].pc = "prepare", ![c].epoch = slot.epoch]
             /\ UNCHANGED control
    <3>1. slot' \in Slots /\ slot'.inst = slot.inst /\ slot.epoch \in Nat
      BY <2>2, <1>0 DEF Slots
    <3>2. Moves(c, {"prepare"})
      BY <2>2, <3>1, <1>0, EpochMoves
    <3>3. Quiet({"prepare"})
      BY <1>18, <2>2, <3>1, <3>2, <1>4, <1>5 DEF BeginStart, Quiet
    <3> QED BY <3>3, <1>1
  <2> QED BY <1>18, <2>1, <2>2 DEF BeginStart
<1>19. CASE Prepare(c)
  <2>1. Moves(c, {"fail", "start"})
    BY <1>19, <1>2 DEF Prepare, Moves
  <2>2. Quiet({"fail", "start"})
    BY <1>19, <2>1, <1>0, <1>4, <1>5, <1>6, SlotForms DEF Prepare, Quiet
  <2> QED BY <2>2, <1>1
<1>20. CASE StartInstance(c)
  <2>1. Moves(c, {"error", "connect"})
    BY <1>20, <1>2 DEF StartInstance, Moves
  <2>2. Quiet({"error", "connect"})
    BY <1>20, <2>1, <1>0, <1>4, <1>5, <1>6, SlotForms DEF StartInstance, Quiet
  <2> QED BY <2>2, <1>1
<1>21. CASE ConnectInstance(c)
  <2>1. Moves(c, {"tunnel", "error"})
    BY <1>21, <1>2 DEF ConnectInstance, Moves
  <2>2. Quiet({"tunnel", "error"})
    BY <1>21, <2>1, <1>4, <1>5, <1>6 DEF ConnectInstance, Quiet
  <2> QED BY <2>2, <1>1
<1>22. CASE Forget(c)
  <2>1. Quiet({"done"})
    BY <1>22, <1>0, <1>3, <1>5, SlotForms DEF Forget, Quiet
  <2> QED BY <2>1, <1>1
<1>23. CASE ClearStartupState(c)
  <2>1. Quiet({"mark"})
    BY <1>23, <1>0, <1>2, <1>4, <1>5, SlotForms DEF ClearStartupState, Quiet
  <2> QED BY <2>1, <1>1
<1>24. CASE MarkRuntimeStarted(c)
  <2>1. Quiet({"done"})
    BY <1>24, <1>3, <1>6, <1>7 DEF MarkRuntimeStarted, Quiet
  <2> QED BY <2>1, <1>1
<1>25. CASE HandleStartupError(c)
  <2>1. Moves(c, {"fail"})
    BY <1>25, <1>2 DEF HandleStartupError
  <2>2. busy' \subseteq Nat
    BY <1>25, <1>0, <1>7 DEF HandleStartupError
  <2>3. Quiet({"fail"})
    BY <1>25, <2>1, <2>2, <1>0, <1>4, SlotForms DEF HandleStartupError, Quiet
  <2> QED BY <2>3, <1>1
<1>26. CASE FailStart(c)
  <2>1. slot' \in Slots /\ slot'.inst = slot.inst
    BY <1>26, <1>0 DEF FailStart, Slots
  <2>2. Quiet({"done"})
    BY <1>26, <2>1, <1>3, <1>5 DEF FailStart, Quiet
  <2> QED BY <2>2, <1>1
<1> QED BY <1>8, <1>9, <1>10, <1>11, <1>12, <1>13, <1>14, <1>15, <1>16, <1>17, <1>18, <1>19,
           <1>20, <1>21, <1>22, <1>23, <1>24, <1>25, <1>26

-----------------------------------------------------------------------------
(* The steps that move a tunnel or the current instance.                   *)

LEMMA ReadInstanceStep ==
  ASSUME LifecycleInv, NEW c \in Commands, ReadInstance(c)
  PROVE  LifecycleInv'
<1>0. Types /\ TunnelInv /\ At(c, "teardown") /\ UNCHANGED <<slot, tunnel, radio>>
  BY DEF LifecycleInv, ReadInstance
<1>1. CASE /\ slot.inst # None
           /\ cmd' = [cmd EXCEPT ![c].pc = "stop", ![c].victim = slot.inst]
           /\ UNCHANGED control
  <2>1. slot.inst \in Commands
    BY <1>0, <1>1 DEF Types, Slots
  <2> DEFINE new == [cmd[c] EXCEPT !.pc = "stop", !.victim = slot.inst]
  <2>2. new \in Record /\ new.pc = "stop" /\ new.victim = slot.inst
    <3>1. cmd[c] \in Record
      BY <1>0 DEF Types, Records
    <3> QED BY <2>1, <3>1 DEF Record, Places, Unconnected
  <2>3. cmd' = [cmd EXCEPT ![c] = new]
    BY <1>1
  <2> HIDE DEF new
  <2>4. /\ cmd' \in Records /\ cmd'[c] = new
        /\ \A d \in Commands : d # c => cmd'[d] = cmd[d]
    BY <1>0, <2>2, <2>3 DEF Types, Records
  <2>5. Types'
    BY <1>0, <1>1, <2>4 DEF Types, control, radio
  <2>6. TunnelInv'
    <3> USE DEF TunnelInv, At, Stopping
    <3>1. \A d \in Commands : (cmd'[d].pc \in Owned <=> cmd[d].pc \in Owned)
                            /\ (cmd'[d].pc \in Unconnected <=> cmd[d].pc \in Unconnected)
      BY <1>0, <2>2, <2>4 DEF Owned, Unconnected
    <3>2. \A d \in Commands : cmd'[d].pc \in Unconnected => tunnel'[d] = "none"
      BY <1>0, <3>1
    <3>3. slot'.inst # None => cmd'[slot'.inst].pc \in Owned
      BY <1>0, <2>1, <3>1
    <3>4. \A d \in Commands : cmd'[d].pc \in Stopping =>
            cmd'[d].victim \in Commands /\ cmd'[cmd'[d].victim].pc \in Owned
      <4> SUFFICES ASSUME NEW d \in Commands, cmd'[d].pc \in Stopping
                   PROVE  cmd'[d].victim \in Commands /\ cmd'[cmd'[d].victim].pc \in Owned
        OBVIOUS
      <4>1. CASE d = c
        <5>1. cmd'[d].victim = slot.inst /\ cmd[slot.inst].pc \in Owned
          BY <1>0, <1>1, <2>2, <2>4, <4>1
        <5> QED BY <2>1, <3>1, <5>1
      <4>2. CASE d # c
        <5>1. cmd'[d] = cmd[d]
          BY <2>4, <4>2
        <5>2. cmd[d].victim \in Commands /\ cmd[cmd[d].victim].pc \in Owned
          BY <1>0, <5>1
        <5> QED BY <3>1, <5>1, <5>2
      <4> QED BY <4>1, <4>2
    <3>5. \A d \in Commands : At(d, "delete")' => tunnel'[cmd'[d].victim] # "up"
      BY <1>0, <2>2, <2>4
    <3>6. \A i \in Commands : tunnel'[i] = "closing" =>
            \E d \in Commands : At(d, "down")' /\ cmd'[d].victim = i
      BY <1>0, <2>4
    <3>7. NoOrphanTunnel'
      BY <1>0, <2>4 DEF NoOrphanTunnel
    <3> QED BY <3>2, <3>3, <3>4, <3>5, <3>6, <3>7
  <2> QED BY <2>5, <2>6 DEF LifecycleInv
<1>2. CASE (Goto(c, "sms") \/ Goto(c, "ready")) /\ UNCHANGED control
  <2>1. Moves(c, {"sms", "ready"})
    <3>1. "sms" \in Places /\ "ready" \in Places
      BY DEF Places, Unconnected
    <3> QED BY <1>0, <1>2, <3>1, GotoMoves DEF Moves
  <2>2. TunnelInv'
    BY <1>0, <2>1, Undisturbed DEF Unconnected, Stopping, At
  <2> QED BY <1>0, <1>2, <2>1, <2>2 DEF LifecycleInv, Types, control, radio, Moves
<1>3. CASE Finish(c)
  <2>1. Moves(c, {"done"}) /\ generation' = generation
    BY <1>0, <1>3, FinishMoves
  <2>2. TunnelInv'
    BY <1>0, <2>1, Undisturbed DEF Unconnected, Stopping, At
  <2> QED BY <1>0, <2>1, <2>2 DEF LifecycleInv, Types, radio, Moves
<1> QED BY <1>1, <1>2, <1>3 DEF ReadInstance, AfterTeardown

(* A step that takes one command from a place to another and changes the   *)
(* slot or a tunnel keeps the types.                                       *)
LEMMA GotoTypes ==
  ASSUME Types, NEW c \in Commands, NEW p \in Places, Goto(c, p), UNCHANGED control,
         busy' = busy, slot' \in Slots,
         tunnel' \in [Commands -> {"none", "up", "closing", "down"}]
  PROVE  /\ Types' /\ cmd'[c].pc = p /\ cmd'[c].victim = cmd[c].victim
         /\ \A d \in Commands : d # c => cmd'[d] = cmd[d]
<1> DEFINE new == [cmd[c] EXCEPT !.pc = p]
<1>1. cmd' = [cmd EXCEPT ![c] = new]
  BY DEF Goto
<1>2. new \in Record /\ new.pc = p /\ new.victim = cmd[c].victim
  BY RecordFacts
<1> HIDE DEF new
<1> QED BY <1>1, <1>2 DEF Types, Records, control

(* What one step of a teardown leaves as it was.                           *)
LEMMA StopFrame ==
  ASSUME LifecycleInv, NEW c \in Commands, cmd[c].pc \in Stopping,
         NEW p \in {"down", "delete", "sms"}, cmd'[c].pc = p, cmd'[c].victim = cmd[c].victim,
         \A d \in Commands : d # c => cmd'[d] = cmd[d]
  PROVE  /\ cmd[c].victim \in Commands /\ cmd[cmd[c].victim].pc \in Owned
         /\ \A d \in Commands : /\ cmd'[d].pc \in Owned <=> cmd[d].pc \in Owned
                                /\ cmd'[d].pc \in Unconnected <=> cmd[d].pc \in Unconnected
                                /\ cmd'[d].victim = cmd[d].victim
                                /\ d # c => cmd'[d].pc = cmd[d].pc
         /\ \A d \in Commands : cmd'[d].pc \in Stopping =>
              cmd'[d].victim \in Commands /\ cmd'[cmd'[d].victim].pc \in Owned
<1>1. cmd[c].victim \in Commands /\ cmd[cmd[c].victim].pc \in Owned
  BY DEF LifecycleInv, TunnelInv
<1>2. \A d \in Commands : /\ cmd'[d].pc \in Owned <=> cmd[d].pc \in Owned
                          /\ cmd'[d].pc \in Unconnected <=> cmd[d].pc \in Unconnected
                          /\ cmd'[d].victim = cmd[d].victim
                          /\ d # c => cmd'[d].pc = cmd[d].pc
  BY DEF Owned, Unconnected, Stopping
<1>3. \A d \in Commands : cmd'[d].pc \in Stopping => cmd[d].pc \in Stopping
  BY <1>2
<1>4. \A d \in Commands : cmd[d].pc \in Stopping =>
        cmd[d].victim \in Commands /\ cmd[cmd[d].victim].pc \in Owned
  BY DEF LifecycleInv, TunnelInv
<1> QED BY <1>1, <1>2, <1>3, <1>4

LEMMA StopSteps ==
  ASSUME LifecycleInv, NEW c \in Commands,
         BeginStop(c) \/ EndStop(c) \/ DeleteInstance(c)
  PROVE  LifecycleInv'
<1> DEFINE v == cmd[c].victim
<1>0. Types /\ TunnelInv /\ slot \in Slots /\ cmd[c].pc \in Stopping
      /\ tunnel \in [Commands -> {"none", "up", "closing", "down"}]
  BY DEF LifecycleInv, Types, BeginStop, EndStop, DeleteInstance, Stopping, At
<1>1. v \in Commands /\ cmd[v].pc \in Owned
  BY <1>0 DEF TunnelInv
<1>2. "down" \in Places /\ "delete" \in Places /\ "sms" \in Places
  BY DEF Places, Unconnected
<1>3. \A i \in Commands : cmd[i].pc \in Unconnected => i # v
  BY <1>1 DEF Unconnected, Owned
<1>4. slot.inst # None => slot.inst \in Commands
  BY <1>0 DEF Slots
<1>5. ASSUME BeginStop(c), tunnel[v] = "up" PROVE LifecycleInv'
  <2>1. /\ Goto(c, "down") /\ tunnel' = [tunnel EXCEPT ![v] = "closing"]
        /\ UNCHANGED <<control, slot, radio>> /\ cmd[c].pc = "stop"
    BY <1>5 DEF BeginStop, At
  <2>2. /\ Types' /\ cmd'[c].pc = "down" /\ cmd'[c].victim = v
        /\ \A d \in Commands : d # c => cmd'[d] = cmd[d]
    BY <1>0, <1>1, <1>2, <2>1, GotoTypes DEF radio
  <2>3. /\ \A d \in Commands : /\ cmd'[d].pc \in Owned <=> cmd[d].pc \in Owned
                               /\ cmd'[d].pc \in Unconnected <=> cmd[d].pc \in Unconnected
                               /\ cmd'[d].victim = cmd[d].victim
                               /\ d # c => cmd'[d].pc = cmd[d].pc
        /\ \A d \in Commands : cmd'[d].pc \in Stopping =>
              cmd'[d].victim \in Commands /\ cmd'[cmd'[d].victim].pc \in Owned
    BY <1>0, <2>2, StopFrame
  <2>4. tunnel'[v] = "closing" /\ \A i \in Commands : i # v => tunnel'[i] = tunnel[i]
    BY <1>0, <1>1, <2>1
  <2> HIDE DEF v
  <2>5. \A d \in Commands : cmd'[d].pc \in Unconnected => tunnel'[d] = "none"
    BY <1>0, <1>3, <2>3, <2>4 DEF TunnelInv
  <2>6. slot'.inst # None => cmd'[slot'.inst].pc \in Owned
    BY <1>0, <1>4, <2>1, <2>3 DEF TunnelInv
  <2>7. \A d \in Commands : At(d, "delete")' => tunnel'[cmd'[d].victim] # "up"
    <3> SUFFICES ASSUME NEW d \in Commands, cmd'[d].pc = "delete"
                 PROVE  tunnel'[cmd'[d].victim] # "up"
      BY DEF At
    <3>1. cmd[d].pc = "delete" /\ cmd'[d].victim = cmd[d].victim
      BY <2>2, <2>3
    <3>2. cmd[d].victim \in Commands /\ tunnel[cmd[d].victim] # "up"
      BY <1>0, <3>1 DEF TunnelInv, At, Stopping
    <3> QED BY <2>4, <3>1, <3>2
  <2>8. \A i \in Commands : tunnel'[i] = "closing" =>
          \E d \in Commands : At(d, "down")' /\ cmd'[d].victim = i
    <3> SUFFICES ASSUME NEW i \in Commands, tunnel'[i] = "closing"
                 PROVE  \E d \in Commands : cmd'[d].pc = "down" /\ cmd'[d].victim = i
      BY DEF At
    <3>1. CASE i = v
      BY <2>2, <3>1
    <3>2. CASE i # v
      <4>1. PICK d \in Commands : cmd[d].pc = "down" /\ cmd[d].victim = i
        BY <1>0, <2>4, <3>2 DEF TunnelInv, At
      <4> QED BY <2>1, <2>3, <4>1
    <3> QED BY <3>1, <3>2
  <2>9. NoOrphanTunnel'
    <3> SUFFICES ASSUME NEW i \in Commands, tunnel'[i] \in {"up", "closing"}
                 PROVE  \/ slot'.inst = i
                        \/ cmd'[i].pc \in {"claim", "discard"}
                        \/ \E d \in Commands : cmd'[d].victim = i /\ cmd'[d].pc \in {"stop", "down"}
      BY DEF NoOrphanTunnel
    <3>1. CASE i = v
      BY <2>2, <3>1
    <3>2. CASE i # v
      <4>1. \/ slot.inst = i
            \/ cmd[i].pc \in {"claim", "discard"}
            \/ \E d \in Commands : cmd[d].victim = i /\ cmd[d].pc \in {"stop", "down"}
        BY <1>0, <2>4, <3>2 DEF TunnelInv, NoOrphanTunnel
      <4>2. cmd[c].victim # i
        BY <3>2 DEF v
      <4> QED BY <2>1, <2>3, <4>1, <4>2
    <3> QED BY <3>1, <3>2
  <2> QED BY <2>2, <2>3, <2>5, <2>6, <2>7, <2>8, <2>9 DEF LifecycleInv, TunnelInv
<1>6. ASSUME BeginStop(c), tunnel[v] # "up" PROVE LifecycleInv'
  <2>1. Goto(c, "delete") /\ UNCHANGED <<control, slot, tunnel, radio>> /\ cmd[c].pc = "stop"
    BY <1>6 DEF BeginStop, At
  <2>2. /\ Types' /\ cmd'[c].pc = "delete" /\ cmd'[c].victim = v
        /\ \A d \in Commands : d # c => cmd'[d] = cmd[d]
    BY <1>0, <1>2, <2>1, GotoTypes DEF radio
  <2>3. /\ \A d \in Commands : /\ cmd'[d].pc \in Owned <=> cmd[d].pc \in Owned
                               /\ cmd'[d].pc \in Unconnected <=> cmd[d].pc \in Unconnected
                               /\ cmd'[d].victim = cmd[d].victim
                               /\ d # c => cmd'[d].pc = cmd[d].pc
        /\ \A d \in Commands : cmd'[d].pc \in Stopping =>
              cmd'[d].victim \in Commands /\ cmd'[cmd'[d].victim].pc \in Owned
    BY <1>0, <2>2, StopFrame
  <2> HIDE DEF v
  <2>5. \A d \in Commands : cmd'[d].pc \in Unconnected => tunnel'[d] = "none"
    BY <1>0, <2>1, <2>3 DEF TunnelInv
  <2>6. slot'.inst # None => cmd'[slot'.inst].pc \in Owned
    BY <1>0, <1>4, <2>1, <2>3 DEF TunnelInv
  <2>7. \A d \in Commands : At(d, "delete")' => tunnel'[cmd'[d].victim] # "up"
    BY <1>0, <1>6, <2>1, <2>2, <2>3 DEF TunnelInv, At
  <2>8. \A i \in Commands : tunnel'[i] = "closing" =>
          \E d \in Commands : At(d, "down")' /\ cmd'[d].victim = i
    <3> SUFFICES ASSUME NEW i \in Commands, tunnel'[i] = "closing"
                 PROVE  \E d \in Commands : cmd'[d].pc = "down" /\ cmd'[d].victim = i
      BY DEF At
    <3>1. PICK d \in Commands : cmd[d].pc = "down" /\ cmd[d].victim = i
      BY <1>0, <2>1 DEF TunnelInv, At
    <3> QED BY <2>1, <2>3, <3>1
  <2>9. NoOrphanTunnel'
    <3> SUFFICES ASSUME NEW i \in Commands, tunnel'[i] \in {"up", "closing"}
                 PROVE  \/ slot'.inst = i
                        \/ cmd'[i].pc \in {"claim", "discard"}
                        \/ \E d \in Commands : cmd'[d].victim = i /\ cmd'[d].pc \in {"stop", "down"}
      BY DEF NoOrphanTunnel
    <3>1. CASE tunnel[i] = "closing"
      BY <2>1, <2>8, <3>1 DEF At
    <3>2. CASE tunnel[i] = "up"
      <4>1. \/ slot.inst = i
            \/ cmd[i].pc \in {"claim", "discard"}
            \/ \E d \in Commands : cmd[d].victim = i /\ cmd[d].pc \in {"stop", "down"}
        BY <1>0, <3>2 DEF TunnelInv, NoOrphanTunnel
      <4>2. cmd[c].victim # i
        BY <1>6, <3>2 DEF v
      <4> QED BY <2>1, <2>3, <4>1, <4>2
    <3> QED BY <2>1, <3>1, <3>2
  <2> QED BY <2>2, <2>3, <2>5, <2>6, <2>7, <2>8, <2>9 DEF LifecycleInv, TunnelInv
<1>7. ASSUME EndStop(c) PROVE LifecycleInv'
  <2>1. /\ Goto(c, "delete") /\ tunnel' = [tunnel EXCEPT ![v] = "down"]
        /\ UNCHANGED <<control, radio>> /\ cmd[c].pc = "down" /\ slot' = Observed
    BY <1>7 DEF EndStop, At
  <2>2. slot' \in Slots /\ slot'.inst = slot.inst
    BY <1>0, <2>1, SlotForms
  <2>3. /\ Types' /\ cmd'[c].pc = "delete" /\ cmd'[c].victim = v
        /\ \A d \in Commands : d # c => cmd'[d] = cmd[d]
    BY <1>0, <1>1, <1>2, <2>1, <2>2, GotoTypes DEF radio
  <2>4. /\ \A d \in Commands : /\ cmd'[d].pc \in Owned <=> cmd[d].pc \in Owned
                               /\ cmd'[d].pc \in Unconnected <=> cmd[d].pc \in Unconnected
                               /\ cmd'[d].victim = cmd[d].victim
                               /\ d # c => cmd'[d].pc = cmd[d].pc
        /\ \A d \in Commands : cmd'[d].pc \in Stopping =>
              cmd'[d].victim \in Commands /\ cmd'[cmd'[d].victim].pc \in Owned
    BY <1>0, <2>3, StopFrame
  <2>5. tunnel'[v] = "down" /\ \A i \in Commands : i # v => tunnel'[i] = tunnel[i]
    BY <1>0, <1>1, <2>1
  <2> HIDE DEF v
  <2>6. \A d \in Commands : cmd'[d].pc \in Unconnected => tunnel'[d] = "none"
    BY <1>0, <1>3, <2>4, <2>5 DEF TunnelInv
  <2>7. slot'.inst # None => cmd'[slot'.inst].pc \in Owned
    BY <1>0, <1>4, <2>2, <2>4 DEF TunnelInv
  <2>8. \A d \in Commands : At(d, "delete")' => tunnel'[cmd'[d].victim] # "up"
    <3> SUFFICES ASSUME NEW d \in Commands, cmd'[d].pc = "delete"
                 PROVE  tunnel'[cmd'[d].victim] # "up"
      BY DEF At
    <3>1. CASE d = c
      BY <2>3, <2>5, <3>1
    <3>2. CASE d # c
      <4>1. cmd[d].pc = "delete" /\ cmd'[d].victim = cmd[d].victim
        BY <2>4, <3>2
      <4>2. cmd[d].victim \in Commands /\ tunnel[cmd[d].victim] # "up"
        BY <1>0, <4>1 DEF TunnelInv, At, Stopping
      <4> QED BY <2>5, <4>1, <4>2
    <3> QED BY <3>1, <3>2
  <2>9. \A i \in Commands : tunnel'[i] = "closing" =>
          \E d \in Commands : At(d, "down")' /\ cmd'[d].victim = i
    <3> SUFFICES ASSUME NEW i \in Commands, tunnel'[i] = "closing"
                 PROVE  \E d \in Commands : cmd'[d].pc = "down" /\ cmd'[d].victim = i
      BY DEF At
    <3>1. i # v /\ tunnel[i] = "closing"
      BY <2>5
    <3>2. PICK d \in Commands : cmd[d].pc = "down" /\ cmd[d].victim = i
      BY <1>0, <3>1 DEF TunnelInv, At
    <3>3. d # c
      BY <3>1, <3>2 DEF v
    <3> QED BY <2>4, <3>2, <3>3
  <2>10. NoOrphanTunnel'
    <3> SUFFICES ASSUME NEW i \in Commands, tunnel'[i] \in {"up", "closing"}
                 PROVE  \/ slot'.inst = i
                        \/ cmd'[i].pc \in {"claim", "discard"}
                        \/ \E d \in Commands : cmd'[d].victim = i /\ cmd'[d].pc \in {"stop", "down"}
      BY DEF NoOrphanTunnel
    <3>1. i # v /\ tunnel[i] \in {"up", "closing"}
      BY <2>5
    <3>2. \/ slot.inst = i
          \/ cmd[i].pc \in {"claim", "discard"}
          \/ \E d \in Commands : cmd[d].victim = i /\ cmd[d].pc \in {"stop", "down"}
      BY <1>0, <3>1 DEF TunnelInv, NoOrphanTunnel
    <3>3. cmd[c].victim # i
      BY <3>1 DEF v
    <3> QED BY <2>1, <2>2, <2>4, <3>2, <3>3
  <2> QED BY <2>3, <2>4, <2>6, <2>7, <2>8, <2>9, <2>10 DEF LifecycleInv, TunnelInv
<1>8. ASSUME DeleteInstance(c) PROVE LifecycleInv'
  <2>1. Goto(c, "sms") /\ UNCHANGED <<control, tunnel, radio>> /\ cmd[c].pc = "delete"
    BY <1>8 DEF DeleteInstance, At
  <2>2. slot' \in Slots /\ slot'.inst = IF slot.inst = v THEN None ELSE slot.inst
    BY <1>0, <1>8, NoneIsNoCommand DEF DeleteInstance, Slots, ZeroSlot
  <2>3. /\ Types' /\ cmd'[c].pc = "sms" /\ cmd'[c].victim = v
        /\ \A d \in Commands : d # c => cmd'[d] = cmd[d]
    BY <1>0, <1>2, <2>1, <2>2, GotoTypes DEF radio
  <2>4. /\ \A d \in Commands : /\ cmd'[d].pc \in Owned <=> cmd[d].pc \in Owned
                               /\ cmd'[d].pc \in Unconnected <=> cmd[d].pc \in Unconnected
                               /\ cmd'[d].victim = cmd[d].victim
                               /\ d # c => cmd'[d].pc = cmd[d].pc
        /\ \A d \in Commands : cmd'[d].pc \in Stopping =>
              cmd'[d].victim \in Commands /\ cmd'[cmd'[d].victim].pc \in Owned
    BY <1>0, <2>3, StopFrame
  <2>5. tunnel[v] # "up"
    BY <1>0, <2>1 DEF TunnelInv, At
  <2> HIDE DEF v
  <2>6. \A d \in Commands : cmd'[d].pc \in Unconnected => tunnel'[d] = "none"
    BY <1>0, <2>1, <2>4 DEF TunnelInv
  <2>7. slot'.inst # None => cmd'[slot'.inst].pc \in Owned
    BY <1>0, <1>4, <2>2, <2>4 DEF TunnelInv
  <2>8. \A d \in Commands : At(d, "delete")' => tunnel'[cmd'[d].victim] # "up"
    BY <1>0, <2>1, <2>3, <2>4 DEF TunnelInv, At
  <2>9. \A i \in Commands : tunnel'[i] = "closing" =>
          \E d \in Commands : At(d, "down")' /\ cmd'[d].victim = i
    <3> SUFFICES ASSUME NEW i \in Commands, tunnel'[i] = "closing"
                 PROVE  \E d \in Commands : cmd'[d].pc = "down" /\ cmd'[d].victim = i
      BY DEF At
    <3>1. PICK d \in Commands : cmd[d].pc = "down" /\ cmd[d].victim = i
      BY <1>0, <2>1 DEF TunnelInv, At
    <3> QED BY <2>1, <2>4, <3>1
  <2>10. NoOrphanTunnel'
    <3> SUFFICES ASSUME NEW i \in Commands, tunnel'[i] \in {"up", "closing"}
                 PROVE  \/ slot'.inst = i
                        \/ cmd'[i].pc \in {"claim", "discard"}
                        \/ \E d \in Commands : cmd'[d].victim = i /\ cmd'[d].pc \in {"stop", "down"}
      BY DEF NoOrphanTunnel
    <3>1. CASE tunnel[i] = "closing"
      BY <2>1, <2>9, <3>1 DEF At
    <3>2. CASE tunnel[i] = "up"
      <4>1. \/ slot.inst = i
            \/ cmd[i].pc \in {"claim", "discard"}
            \/ \E d \in Commands : cmd[d].victim = i /\ cmd[d].pc \in {"stop", "down"}
        BY <1>0, <3>2 DEF TunnelInv, NoOrphanTunnel
      <4>2. i # v
        BY <2>5, <3>2
      <4> QED BY <2>1, <2>2, <2>4, <4>1, <4>2
    <3> QED BY <2>1, <3>1, <3>2
  <2> QED BY <2>3, <2>4, <2>6, <2>7, <2>8, <2>9, <2>10 DEF LifecycleInv, TunnelInv
<1> QED BY <1>5, <1>6, <1>7, <1>8

(* A start that has its tunnel, claims the slot or stops a stale instance. *)
LEMMA StartSteps ==
  ASSUME LifecycleInv, NEW c \in Commands,
         Establish(c) \/ ClaimStarted(c) \/ Discard(c)
  PROVE  LifecycleInv'
<1>0. Types /\ TunnelInv /\ slot \in Slots /\ cmd[c].pc \in {"tunnel", "claim", "discard"}
      /\ tunnel \in [Commands -> {"none", "up", "closing", "down"}]
  BY DEF LifecycleInv, Types, Establish, ClaimStarted, Discard, At
<1>1. /\ "claim" \in Places /\ "error" \in Places /\ "claimed" \in Places
      /\ "discard" \in Places /\ "forget" \in Places
  BY DEF Places, Unconnected, Owned
<1>2. slot.inst # None => slot.inst \in Commands
  BY <1>0 DEF Slots
<1>3. \A d \in Commands : cmd[d].pc \in Stopping =>
        d # c /\ cmd[d].victim \in Commands /\ cmd[d].victim # c /\ cmd[cmd[d].victim].pc \in Owned
  BY <1>0 DEF TunnelInv, Stopping, Owned
<1>4. slot.inst # c
  BY <1>0, NoneIsNoCommand DEF TunnelInv, Owned
<1>5. ASSUME NEW p \in {"claim", "error", "claimed", "discard", "forget"},
             cmd'[c].pc = p, cmd'[c].victim = cmd[c].victim,
             \A d \in Commands : d # c => cmd'[d] = cmd[d]
      PROVE  /\ \A d \in Commands : cmd'[d].pc \in Stopping =>
                  cmd'[d].victim \in Commands /\ cmd'[cmd'[d].victim].pc \in Owned
             /\ \A d \in Commands : cmd'[d].pc \in Stopping =>
                  d # c /\ cmd'[d].victim # c /\ cmd'[d] = cmd[d]
  <2>1. \A d \in Commands : cmd'[d].pc \in Stopping => d # c
    BY <1>5 DEF Stopping
  <2> QED BY <1>3, <1>5, <2>1
<1>6. ASSUME Establish(c), Goto(c, "claim"), tunnel' = [tunnel EXCEPT ![c] = "up"]
      PROVE  LifecycleInv'
  <2>1. cmd[c].pc = "tunnel" /\ UNCHANGED <<control, slot, radio>>
    BY <1>6 DEF Establish, At
  <2>2. tunnel'[c] = "up" /\ \A i \in Commands : i # c => tunnel'[i] = tunnel[i]
    BY <1>0, <1>6
  <2>3. /\ Types' /\ cmd'[c].pc = "claim" /\ cmd'[c].victim = cmd[c].victim
        /\ \A d \in Commands : d # c => cmd'[d] = cmd[d]
    BY <1>0, <1>1, <1>6, <2>1, GotoTypes DEF radio
  <2>4. /\ \A d \in Commands : cmd'[d].pc \in Stopping =>
             cmd'[d].victim \in Commands /\ cmd'[cmd'[d].victim].pc \in Owned
        /\ \A d \in Commands : cmd'[d].pc \in Stopping =>
             d # c /\ cmd'[d].victim # c /\ cmd'[d] = cmd[d]
    BY <2>3, <1>5
  <2>5. \A d \in Commands : cmd'[d].pc \in Unconnected => tunnel'[d] = "none"
    BY <1>0, <2>2, <2>3 DEF TunnelInv, Unconnected
  <2>6. slot'.inst # None => cmd'[slot'.inst].pc \in Owned
    BY <1>0, <1>2, <1>4, <2>1, <2>3 DEF TunnelInv
  <2>7. \A d \in Commands : At(d, "delete")' => tunnel'[cmd'[d].victim] # "up"
    BY <1>0, <2>2, <2>4 DEF TunnelInv, At, Stopping
  <2>8. \A i \in Commands : tunnel'[i] = "closing" =>
          \E d \in Commands : At(d, "down")' /\ cmd'[d].victim = i
    BY <1>0, <2>1, <2>2, <2>3 DEF TunnelInv, At
  <2>9. NoOrphanTunnel'
    BY <1>0, <2>1, <2>2, <2>3 DEF TunnelInv, NoOrphanTunnel
  <2> QED BY <2>3, <2>4, <2>5, <2>6, <2>7, <2>8, <2>9 DEF LifecycleInv, TunnelInv
<1>7. ASSUME Establish(c), Goto(c, "error"), UNCHANGED tunnel PROVE LifecycleInv'
  <2>1. cmd[c].pc = "tunnel" /\ UNCHANGED <<control, slot, tunnel, radio>>
    BY <1>7 DEF Establish, At
  <2>2. Types' /\ Moves(c, {"error"})
    BY <1>0, <1>1, <1>7, <2>1, GotoTypes, GotoMoves DEF radio
  <2>3. TunnelInv'
    BY <2>1, <2>2, Undisturbed DEF Unconnected, Stopping
  <2> QED BY <2>2, <2>3 DEF LifecycleInv
<1>8. ASSUME ClaimStarted(c), Claimable(c) PROVE LifecycleInv'
  <2>1. /\ cmd[c].pc = "claim" /\ UNCHANGED <<control, tunnel, radio>> /\ Goto(c, "claimed")
        /\ slot.inst = None
    BY <1>8 DEF ClaimStarted, Claimable, At
  <2>2. slot' \in Slots /\ slot'.inst = c
    BY <1>0, <1>8 DEF ClaimStarted, Slots, ZeroSlot
  <2>3. /\ Types' /\ cmd'[c].pc = "claimed" /\ cmd'[c].victim = cmd[c].victim
        /\ \A d \in Commands : d # c => cmd'[d] = cmd[d]
    BY <1>0, <1>1, <2>1, <2>2, GotoTypes DEF radio
  <2>4. /\ \A d \in Commands : cmd'[d].pc \in Stopping =>
             cmd'[d].victim \in Commands /\ cmd'[cmd'[d].victim].pc \in Owned
        /\ \A d \in Commands : cmd'[d].pc \in Stopping =>
             d # c /\ cmd'[d].victim # c /\ cmd'[d] = cmd[d]
    BY <2>3, <1>5
  <2>5. \A d \in Commands : cmd'[d].pc \in Unconnected => tunnel'[d] = "none"
    BY <1>0, <2>1, <2>3 DEF TunnelInv, Unconnected
  <2>6. slot'.inst # None => cmd'[slot'.inst].pc \in Owned
    BY <2>2, <2>3 DEF Owned
  <2>7. \A d \in Commands : At(d, "delete")' => tunnel'[cmd'[d].victim] # "up"
    BY <1>0, <2>1, <2>4 DEF TunnelInv, At, Stopping
  <2>8. \A i \in Commands : tunnel'[i] = "closing" =>
          \E d \in Commands : At(d, "down")' /\ cmd'[d].victim = i
    BY <1>0, <2>1, <2>3 DEF TunnelInv, At
  <2>9. NoOrphanTunnel'
    <3> SUFFICES ASSUME NEW i \in Commands, tunnel'[i] \in {"up", "closing"}, i # c
                 PROVE  \/ cmd'[i].pc \in {"claim", "discard"}
                        \/ \E d \in Commands : cmd'[d].victim = i /\ cmd'[d].pc \in {"stop", "down"}
      BY <2>2 DEF NoOrphanTunnel
    <3>1. \/ cmd[i].pc \in {"claim", "discard"}
          \/ \E d \in Commands : cmd[d].victim = i /\ cmd[d].pc \in {"stop", "down"}
      BY <1>0, <2>1, NoneIsNoCommand DEF TunnelInv, NoOrphanTunnel
    <3> QED BY <2>1, <2>3, <3>1
  <2> QED BY <2>3, <2>4, <2>5, <2>6, <2>7, <2>8, <2>9 DEF LifecycleInv, TunnelInv
<1>9. ASSUME ClaimStarted(c), ~ Claimable(c) PROVE LifecycleInv'
  <2>1. cmd[c].pc = "claim" /\ UNCHANGED <<control, slot, tunnel, radio>> /\ Goto(c, "discard")
    BY <1>9 DEF ClaimStarted, At
  <2>2. /\ Types' /\ cmd'[c].pc = "discard" /\ cmd'[c].victim = cmd[c].victim
        /\ \A d \in Commands : d # c => cmd'[d] = cmd[d]
    BY <1>0, <1>1, <2>1, GotoTypes DEF radio
  <2>3. /\ \A d \in Commands : cmd'[d].pc \in Stopping =>
             cmd'[d].victim \in Commands /\ cmd'[cmd'[d].victim].pc \in Owned
        /\ \A d \in Commands : cmd'[d].pc \in Stopping =>
             d # c /\ cmd'[d].victim # c /\ cmd'[d] = cmd[d]
    BY <2>2, <1>5
  <2>4. \A d \in Commands : cmd'[d].pc \in Unconnected => tunnel'[d] = "none"
    BY <1>0, <2>1, <2>2 DEF TunnelInv, Unconnected
  <2>5. slot'.inst # None => cmd'[slot'.inst].pc \in Owned
    BY <1>0, <1>2, <1>4, <2>1, <2>2 DEF TunnelInv
  <2>6. \A d \in Commands : At(d, "delete")' => tunnel'[cmd'[d].victim] # "up"
    BY <1>0, <2>1, <2>3 DEF TunnelInv, At, Stopping
  <2>7. \A i \in Commands : tunnel'[i] = "closing" =>
          \E d \in Commands : At(d, "down")' /\ cmd'[d].victim = i
    BY <1>0, <2>1, <2>2 DEF TunnelInv, At
  <2>8. NoOrphanTunnel'
    BY <1>0, <2>1, <2>2 DEF TunnelInv, NoOrphanTunnel
  <2> QED BY <2>2, <2>3, <2>4, <2>5, <2>6, <2>7, <2>8 DEF LifecycleInv, TunnelInv
<1>10. ASSUME Discard(c) PROVE LifecycleInv'
  <2>1. /\ cmd[c].pc = "discard" /\ UNCHANGED <<control, radio>> /\ Goto(c, "forget")
        /\ tunnel' = [tunnel EXCEPT ![c] = "down"] /\ slot' = Observed
    BY <1>10 DEF Discard, At
  <2>2. slot' \in Slots /\ slot'.inst = slot.inst
    BY <1>0, <2>1, SlotForms
  <2>3. tunnel'[c] = "down" /\ \A i \in Commands : i # c => tunnel'[i] = tunnel[i]
    BY <1>0, <2>1
  <2>4. /\ Types' /\ cmd'[c].pc = "forget" /\ cmd'[c].victim = cmd[c].victim
        /\ \A d \in Commands : d # c => cmd'[d] = cmd[d]
    BY <1>0, <1>1, <2>1, <2>2, GotoTypes DEF radio
  <2>5. /\ \A d \in Commands : cmd'[d].pc \in Stopping =>
             cmd'[d].victim \in Commands /\ cmd'[cmd'[d].victim].pc \in Owned
        /\ \A d \in Commands : cmd'[d].pc \in Stopping =>
             d # c /\ cmd'[d].victim # c /\ cmd'[d] = cmd[d]
    BY <2>4, <1>5
  <2>6. \A d \in Commands : cmd'[d].pc \in Unconnected => tunnel'[d] = "none"
    BY <1>0, <2>3, <2>4 DEF TunnelInv, Unconnected
  <2>7. slot'.inst # None => cmd'[slot'.inst].pc \in Owned
    BY <1>0, <1>2, <1>4, <2>2, <2>4 DEF TunnelInv
  <2>8. \A d \in Commands : At(d, "delete")' => tunnel'[cmd'[d].victim] # "up"
    BY <1>0, <2>3, <2>5 DEF TunnelInv, At, Stopping
  <2>9. \A i \in Commands : tunnel'[i] = "closing" =>
          \E d \in Commands : At(d, "down")' /\ cmd'[d].victim = i
    BY <1>0, <2>1, <2>3, <2>4 DEF TunnelInv, At
  <2>10. NoOrphanTunnel'
    BY <1>0, <2>1, <2>2, <2>3, <2>4 DEF TunnelInv, NoOrphanTunnel
  <2> QED BY <2>4, <2>5, <2>6, <2>7, <2>8, <2>9, <2>10 DEF LifecycleInv, TunnelInv
<1> QED BY <1>6, <1>7, <1>8, <1>9, <1>10 DEF Establish, ClaimStarted

LEMMA SubmitStep ==
  ASSUME LifecycleInv, NEW c \in Commands, NEW kind \in Kinds, NEW gen \in busy \cup {0},
         Submit(c, kind, gen)
  PROVE  LifecycleInv'
<1> DEFINE p == EntryPoint(kind)
           new == [cmd[c] EXCEPT !.pc = p, !.kind = kind, !.gen = gen]
<1>0. Types /\ cmd[c].pc = "unused" /\ UNCHANGED <<control, slot, tunnel, smsMode, busy>>
  BY DEF LifecycleInv, Submit, At
<1>1. p \in {"expire", "invalidate", "number", "lock"}
  BY DEF EntryPoint
<1>2. gen \in Nat
  BY <1>0, NoneIsNoCommand DEF Types
<1>3. cmd[c] \in Record /\ p \in Places
  BY <1>0, <1>1 DEF Types, Records, Places, Unconnected
<1>4. cmd' = [cmd EXCEPT ![c] = new]
  BY DEF Submit
<1> HIDE DEF p
<1>5. new \in Record /\ new.pc = p /\ new.victim = cmd[c].victim
  BY <1>2, <1>3 DEF Record
<1> HIDE DEF new
<1>6. Moves(c, {p})
  BY <1>0, <1>4, <1>5, EditMoves
<1>7. TunnelInv'
  BY <1>0, <1>1, <1>6, Undisturbed DEF Unconnected, Stopping
<1> QED BY <1>0, <1>6, <1>7 DEF LifecycleInv, Types, Moves, control

LEMMA AcquireLockStep ==
  ASSUME LifecycleInv, NEW c \in Commands, AcquireLock(c)
  PROVE  LifecycleInv'
<1>0. Types /\ cmd[c].pc = "lock" /\ UNCHANGED <<generation, slot, tunnel, radio>>
  BY DEF LifecycleInv, AcquireLock, At
<1>1. "admit" \in Places
  BY DEF Places, Unconnected
<1>2. Moves(c, {"admit"})
  BY <1>0, <1>1, GotoMoves DEF AcquireLock
<1>3. TunnelInv'
  BY <1>0, <1>2, Undisturbed DEF Unconnected, Stopping
<1> QED BY <1>0, <1>2, <1>3 DEF LifecycleInv, Types, Moves, radio

LEMMA IdleStep ==
  ASSUME LifecycleInv, UNCHANGED <<generation, slot, tunnel, busy, cmd>>
  PROVE  LifecycleInv'
BY DEF LifecycleInv, Types, TunnelInv, NoOrphanTunnel, At

LEMMA LifecycleStep == LifecycleInv /\ [Next]_vars => LifecycleInv'
<1> SUFFICES ASSUME LifecycleInv, [Next]_vars PROVE LifecycleInv'
  OBVIOUS
<1>1. CASE UNCHANGED vars
  BY <1>1, IdleStep DEF vars, control, radio
<1>2. CASE EndSwitch
  BY <1>2, IdleStep DEF EndSwitch, control
<1>3. ASSUME NEW c \in Commands, NEW kind \in Kinds, NEW gen \in busy \cup {0},
             Submit(c, kind, gen)
      PROVE  LifecycleInv'
  BY <1>3, SubmitStep
<1>4. ASSUME NEW c \in Commands, AcquireLock(c) PROVE LifecycleInv'
  BY <1>4, AcquireLockStep
<1>5. ASSUME NEW c \in Commands, Run(c) PROVE LifecycleInv'
  BY <1>5, QuietSteps, ReadInstanceStep, StopSteps, StartSteps DEF Run
<1> QED BY <1>1, <1>2, <1>3, <1>4, <1>5 DEF Next

(* Whatever commands meet, and however many: no tunnel is left behind that *)
(* no slot names and no goroutine has in hand (ClaimStarted, Discard and   *)
(* stopRuntime's instance-equality check, teardown.go).                    *)
THEOREM NoOrphanHolds == Spec => []NoOrphanTunnel
<1>1. LifecycleInv => NoOrphanTunnel
  BY DEF LifecycleInv, TunnelInv
<1> QED BY LifecycleInit, LifecycleStep, <1>1, PTL DEF Spec

-----------------------------------------------------------------------------
(* The desired-state layer only ever does to the lifecycle what the        *)
(* lifecycle's own specification allows.                                   *)

AskedOK == asked \in {"none", "enable", "disable"}

(* The reconciler, the handlers and the retries are clients of the         *)
(* lifecycle: each of their steps is a step of it or leaves it alone, so   *)
(* all that is shown of Spec holds of a device that pursues its policy.    *)
THEOREM DesiredImplementsLifecycle == DesiredSpec => Spec
<1>1. DesiredInit => Init /\ AskedOK
  BY DEF DesiredInit, AskedOK
<1>2. AskedOK /\ [DesiredNext]_allVars => AskedOK'
  <2> SUFFICES ASSUME AskedOK, [DesiredNext]_allVars PROVE AskedOK'
    OBVIOUS
  <2>1. asked' \in {asked, "none", "enable", "disable"}
    BY DEF DesiredNext, allVars, desiredVars, SetWanted, RefuseAsked, Consider, Schedule,
      NextAttemptDue, ClearRecord, ForgetRecord, SubmitAsked, ApplyPolicy, MarkResult,
      SubmitOther, SIMRemoved, Retry, Locks, Runs
  <2> QED BY <2>1 DEF AskedOK
<1>3. AskedOK /\ [DesiredNext]_allVars => [Next]_vars
  <2> SUFFICES ASSUME AskedOK, DesiredNext PROVE [Next]_vars
    BY DEF allVars
  <2>0. Others \subseteq Kinds /\ {"enable", "disable", "recover"} \subseteq Kinds
    BY DesiredAssumption DEF Others
  <2>1. ASSUME NEW c \in Commands, NEW kind \in Kinds, NEW gen \in busy \cup {0},
               Submit(c, kind, gen)
        PROVE  Next
    BY <2>1 DEF Next
  <2>2. ASSUME NEW on \in BOOLEAN, SetWanted(on) PROVE UNCHANGED vars
    BY <2>2 DEF SetWanted
  <2>3. CASE RefuseAsked \/ Consider \/ NextAttemptDue \/ ClearRecord \/ ForgetRecord
    BY <2>3 DEF RefuseAsked, Consider, NextAttemptDue, ClearRecord, ForgetRecord
  <2>4. CASE Schedule
    BY <2>0, <2>1, <2>4 DEF Schedule
  <2>5. ASSUME NEW c \in Commands, asked # "none", SubmitAsked(c) PROVE Next
    BY <2>0, <2>1, <2>5 DEF SubmitAsked, AskedOK
  <2>6. ASSUME NEW c \in Commands, ApplyPolicy(c) \/ MarkResult(c) PROVE UNCHANGED vars
    BY <2>6 DEF ApplyPolicy, MarkResult
  <2>7. ASSUME NEW c \in Commands, NEW kind \in Others, SubmitOther(c, kind) PROVE Next
    BY <2>0, <2>1, <2>7 DEF SubmitOther
  <2>8. ASSUME NEW c \in Commands, SIMRemoved(c) PROVE Next
    BY <2>0, <2>1, <2>8 DEF SIMRemoved
  <2>9. ASSUME NEW c \in Commands, NEW gen \in busy, Retry(c, gen) PROVE Next
    BY <2>0, <2>1, <2>9 DEF Retry
  <2>10. ASSUME NEW c \in Commands, Locks(c) \/ Runs(c) PROVE Next
    BY <2>10 DEF Locks, Runs, Next
  <2>11. CASE EndSwitch
    BY <2>11 DEF Next
  <2> QED BY <2>2, <2>3, <2>4, <2>5, <2>6, <2>7, <2>8, <2>9, <2>10, <2>11 DEF DesiredNext
<1> QED BY <1>1, <1>2, <1>3, PTL DEF DesiredSpec, Spec

-----------------------------------------------------------------------------
(* What each step does to what the invariants below are about.             *)

Spares(c) == \A d \in Commands : d # c =>
  cmd'[d].superseded = cmd[d].superseded /\ cmd'[d].cancelled = cmd[d].cancelled

(* Command c goes to p and keeps the mutex, if it has it; nothing happens  *)
(* to the others.                                                          *)
Goes(c, p) ==
  /\ cmd'[c].pc = p /\ cmd'[c].kind = cmd[c].kind /\ cmd'[c].victim = cmd[c].victim
  /\ cmd'[c].epoch = cmd[c].epoch /\ cmd'[c].cancelled = cmd[c].cancelled
  /\ Spares(c) /\ lock' = lock

Ends(c) ==
  /\ cmd'[c].pc = "done"
  /\ cmd'[c].kind = IF cmd[c].kind \in {"disable", "recover"} THEN "enable" ELSE cmd[c].kind
  /\ Spares(c)
  /\ lock' = (IF lock = c THEN None ELSE lock)
  /\ runCancel' = (IF runCancel = c THEN None ELSE runCancel)

(* After a teardown.                                                       *)
Follows(c) ==
  IF cmd[c].kind \in {"restart", "recover"} THEN Goes(c, "ready") /\ runCancel' = runCancel
  ELSE Ends(c)

SameEpoch == slot'.inst = slot.inst /\ slot'.epoch = slot.epoch
Frame == SameEpoch /\ smsMode' = smsMode /\ runCancel' = runCancel

SimpleArcs ==
  {<<"admit", "bind">>, <<"number", "cancel">>, <<"stop", "down">>, <<"stop", "delete">>,
   <<"down", "delete">>, <<"ready", "check">>, <<"inactive", "invalidate">>,
   <<"prepare", "fail">>, <<"prepare", "start">>, <<"start", "error">>,
   <<"start", "connect">>, <<"connect", "error">>, <<"tunnel", "claim">>,
   <<"tunnel", "error">>, <<"claim", "discard">>, <<"discard", "forget">>}

Simple(c) ==
  /\ <<cmd[c].pc, cmd'[c].pc>> \in SimpleArcs
  /\ Goes(c, cmd'[c].pc) /\ Frame

Returns(c) ==
  /\ cmd[c].pc \in {"admit", "ready", "inactive", "check", "begin", "fail"}
  /\ Ends(c) /\ SameEpoch /\ smsMode' = smsMode

Supersedes(c) ==
  /\ \A d \in Commands : d # c => cmd'[d].cancelled = cmd[d].cancelled
  /\ \A d \in Commands : d # c => cmd'[d].superseded = (cmd[d].superseded \/ InFlight(d))
  /\ cmd'[c].kind = cmd[c].kind /\ cmd'[c].victim = cmd[c].victim
  /\ cmd'[c].cancelled = cmd[c].cancelled
  /\ slot'.inst = slot.inst /\ slot'.epoch = slot.epoch + 1
  /\ smsMode' = smsMode /\ runCancel' = runCancel /\ lock' = lock

Clears == slot'.inst = slot.inst /\ slot'.epoch \in {0, slot.epoch}

Cancels(c) ==
  /\ cmd[c].pc = "cancel" /\ cmd'[c].pc = "bind"
  /\ cmd'[c].kind = cmd[c].kind /\ cmd'[c].victim = cmd[c].victim
  /\ cmd'[c].cancelled = cmd[c].cancelled
  /\ \A d \in Commands : d # c =>
       /\ cmd'[d].superseded = cmd[d].superseded
       /\ cmd'[d].cancelled = (cmd[d].cancelled \/ d = runCancel)
  /\ Frame /\ lock' = lock

Binds(c) ==
  /\ cmd[c].pc = "bind" /\ Goes(c, FirstStep(cmd[c].kind))
  /\ SameEpoch /\ smsMode' = smsMode /\ runCancel' = c

Expires(c) ==
  /\ cmd[c].pc = "expire" /\ Supersedes(c)
  /\ cmd'[c].pc = IF cmd[c].kind = "disable" THEN "lock" ELSE "number"

Invalidates(c) == cmd[c].pc = "invalidate" /\ Supersedes(c) /\ cmd'[c].pc = "teardown"

Picks(c) ==
  /\ cmd[c].pc = "teardown" /\ slot.inst # None
  /\ cmd'[c].pc = "stop" /\ cmd'[c].victim = slot.inst /\ cmd'[c].kind = cmd[c].kind
  /\ cmd'[c].cancelled = cmd[c].cancelled
  /\ Spares(c) /\ lock' = lock /\ Frame

Passes(c) ==
  /\ cmd[c].pc = "teardown" /\ slot.inst = None /\ SameEpoch /\ smsMode' = smsMode
  /\ IF cmd[c].kind \in {"disable", "restart"}
       THEN Goes(c, "sms") /\ runCancel' = runCancel
       ELSE Follows(c)

Deletes(c) ==
  /\ cmd[c].pc = "delete" /\ Goes(c, "sms")
  /\ slot'.inst = (IF slot.inst = cmd[c].victim THEN None ELSE slot.inst)
  /\ slot'.epoch = slot.epoch
  /\ smsMode' = smsMode /\ runCancel' = runCancel

Restores(c) == cmd[c].pc = "sms" /\ Follows(c) /\ smsMode' = "modem" /\ SameEpoch

Checks(c) ==
  /\ cmd[c].pc = "check" /\ Goes(c, "begin") /\ Frame
  /\ ~ switching \/ cmd[c].kind = "switchEnd"

Begins(c) ==
  /\ cmd[c].pc = "begin" /\ cmd'[c].pc = "prepare" /\ slot.inst = None
  /\ cmd'[c].epoch = slot.epoch /\ cmd'[c].kind = cmd[c].kind
  /\ cmd'[c].cancelled = cmd[c].cancelled
  /\ Spares(c) /\ lock' = lock /\ Frame

Connects(c) == cmd[c].pc = "connect" /\ Goes(c, "tunnel") /\ ~ cmd[c].cancelled /\ Frame

Claims(c) ==
  /\ cmd[c].pc = "claim" /\ Goes(c, "claimed")
  /\ cmd[c].epoch = slot.epoch /\ slot.inst = None
  /\ slot'.inst = c /\ slot'.epoch = slot.epoch
  /\ smsMode' = smsMode /\ runCancel' = runCancel

Forgets(c) == cmd[c].pc = "forget" /\ Ends(c) /\ Clears /\ smsMode' = smsMode

Drops(c) ==
  /\ cmd[c].pc \in {"claimed", "error"}
  /\ Goes(c, IF cmd[c].pc = "claimed" THEN "mark" ELSE "fail")
  /\ Clears /\ smsMode' = smsMode /\ runCancel' = runCancel

Announces(c) == cmd[c].pc = "mark" /\ Ends(c) /\ SameEpoch /\ smsMode' = "vowifi"

Deed(c) ==
  \/ Simple(c) \/ Returns(c) \/ Cancels(c) \/ Binds(c) \/ Expires(c) \/ Invalidates(c)
  \/ Picks(c) \/ Passes(c) \/ Deletes(c) \/ Restores(c) \/ Checks(c) \/ Begins(c)
  \/ Connects(c) \/ Claims(c) \/ Forgets(c) \/ Drops(c) \/ Announces(c)

(* No step of a command moves another one, or has the command forget that  *)
(* it has been superseded, or the device that it is switching.             *)
Effect(c) ==
  /\ \A d \in Commands : d # c =>
       /\ cmd'[d].pc = cmd[d].pc /\ cmd'[d].kind = cmd[d].kind
       /\ cmd'[d].victim = cmd[d].victim /\ cmd'[d].epoch = cmd[d].epoch
  /\ cmd'[c].superseded = cmd[c].superseded
  /\ switching' = switching
  /\ Deed(c)

LEMMA GotoGoes ==
  ASSUME Types, NEW c \in Commands, NEW p, Goto(c, p)
  PROVE  /\ cmd'[c] = [cmd[c] EXCEPT !.pc = p]
         /\ \A d \in Commands : d # c => cmd'[d] = cmd[d]
         /\ cmd'[c].pc = p /\ cmd'[c].kind = cmd[c].kind /\ cmd'[c].victim = cmd[c].victim
         /\ cmd'[c].epoch = cmd[c].epoch /\ cmd'[c].cancelled = cmd[c].cancelled
         /\ cmd'[c].superseded = cmd[c].superseded
         /\ Spares(c)
         /\ \A d \in Commands : d # c =>
              /\ cmd'[d].pc = cmd[d].pc /\ cmd'[d].kind = cmd[d].kind
              /\ cmd'[d].victim = cmd[d].victim /\ cmd'[d].epoch = cmd[d].epoch
<1>1. cmd[c] \in Record
  BY DEF Types, Records
<1>2. cmd'[c] = [cmd[c] EXCEPT !.pc = p] /\ \A d \in Commands : d # c => cmd'[d] = cmd[d]
  BY DEF Goto, Types, Records
<1> QED BY <1>1, <1>2 DEF Record, Spares

LEMMA NumberGoes ==
  ASSUME Types, NEW c \in Commands, NEW p \in Places, NEW n \in Nat,
         cmd' = [cmd EXCEPT ![c].pc = p, ![c].gen = n], lock' = lock
  PROVE  /\ Goes(c, p) /\ cmd'[c].superseded = cmd[c].superseded
         /\ \A d \in Commands : d # c => cmd'[d] = cmd[d]
<1> DEFINE new == [cmd[c] EXCEPT !.pc = p, !.gen = n]
<1>1. cmd[c] \in Record /\ DOMAIN cmd = Commands
  BY DEF Types, Records
<1>2. cmd' = [cmd EXCEPT ![c] = new]
  OBVIOUS
<1>3. /\ new.pc = p /\ new.kind = cmd[c].kind /\ new.victim = cmd[c].victim
      /\ new.epoch = cmd[c].epoch /\ new.cancelled = cmd[c].cancelled
      /\ new.superseded = cmd[c].superseded
  <2> SUFFICES ASSUME NEW r \in Record
               PROVE  LET m == [r EXCEPT !.pc = p, !.gen = n]
                      IN  /\ m.pc = p /\ m.kind = r.kind /\ m.victim = r.victim
                          /\ m.epoch = r.epoch /\ m.cancelled = r.cancelled
                          /\ m.superseded = r.superseded
    BY <1>1
  <2> QED BY DEF Record
<1> HIDE DEF new
<1>4. cmd'[c] = new /\ \A d \in Commands : d # c => cmd'[d] = cmd[d]
  BY <1>1, <1>2
<1> QED BY <1>3, <1>4 DEF Goes, Spares

LEMMA FinishEnds ==
  ASSUME Types, NEW c \in Commands, Finish(c), cmd[c].kind \in Kinds \cup {"enable"}
  PROVE  /\ Ends(c) /\ cmd'[c].superseded = cmd[c].superseded
         /\ \A d \in Commands : d # c =>
              /\ cmd'[d].pc = cmd[d].pc /\ cmd'[d].kind = cmd[d].kind
              /\ cmd'[d].victim = cmd[d].victim /\ cmd'[d].epoch = cmd[d].epoch
<1>1. cmd'[c] = Returned(c) /\ \A d \in Commands : d # c => cmd'[d] = cmd[d]
  BY DEF Finish, Types, Records
<1>2. /\ Returned(c).pc = "done" /\ Returned(c).superseded = cmd[c].superseded
      /\ Returned(c).kind = IF cmd[c].kind \in Preempting \cup {"switchEnd", "reconnect"}
                              THEN cmd[c].kind ELSE "enable"
  BY DEF Returned, NotSubmitted
<1>3. Returned(c).kind = IF cmd[c].kind \in {"disable", "recover"} THEN "enable" ELSE cmd[c].kind
  BY <1>2, KindsAssumption DEF Preempting
<1> QED BY <1>1, <1>2, <1>3 DEF Finish, Ends, Spares

LEMMA Effects ==
  ASSUME Types, NEW c \in Commands, Run(c)
  PROVE  Effect(c)
<1>0. /\ cmd[c] \in Record /\ slot \in Slots /\ slot.epoch \in Nat
      /\ generation + 1 \in Nat /\ "bind" \in Places /\ "cancel" \in Places
  BY DEF Types, Records, Slots, Places, Unconnected
<1>1. cmd[c].kind \in Kinds \cup {"enable"}
  BY <1>0 DEF Record
<1>2. ASSUME NEW p, Goto(c, p)
      PROVE  /\ cmd'[c].pc = p /\ cmd'[c].kind = cmd[c].kind
             /\ cmd'[c].victim = cmd[c].victim /\ cmd'[c].epoch = cmd[c].epoch
             /\ cmd'[c].cancelled = cmd[c].cancelled
             /\ cmd'[c].superseded = cmd[c].superseded /\ Spares(c)
             /\ \A d \in Commands : d # c =>
                  /\ cmd'[d].pc = cmd[d].pc /\ cmd'[d].kind = cmd[d].kind
                  /\ cmd'[d].victim = cmd[d].victim /\ cmd'[d].epoch = cmd[d].epoch
  BY <1>2, GotoGoes
<1>3. ASSUME Finish(c)
      PROVE  /\ Ends(c) /\ cmd'[c].superseded = cmd[c].superseded
             /\ \A d \in Commands : d # c =>
                  /\ cmd'[d].pc = cmd[d].pc /\ cmd'[d].kind = cmd[d].kind
                  /\ cmd'[d].victim = cmd[d].victim /\ cmd'[d].epoch = cmd[d].epoch
  BY <1>1, <1>3, FinishEnds
<1>4. ASSUME UNCHANGED slot PROVE SameEpoch
  BY <1>4 DEF SameEpoch
<1>5. ASSUME slot' = Observed \/ RecordStartupState PROVE SameEpoch
  BY <1>0, <1>5 DEF SameEpoch, Observed, RecordStartupState, Slots
<1>6. ASSUME slot' = Cleared PROVE Clears
  BY <1>0, <1>6 DEF Clears, Cleared, ZeroSlot, Slots
<1>7. AfterTeardown(c) =>
        /\ Follows(c) /\ cmd'[c].superseded = cmd[c].superseded
        /\ \A d \in Commands : d # c =>
             /\ cmd'[d].pc = cmd[d].pc /\ cmd'[d].kind = cmd[d].kind
             /\ cmd'[d].victim = cmd[d].victim /\ cmd'[d].epoch = cmd[d].epoch
  BY <1>2, <1>3 DEF AfterTeardown, Follows, Goes, control
<1>8. CASE Admit(c)
  <2>1. CASE Finish(c)
    BY <1>8, <2>1, <1>3, <1>4 DEF Admit, At, Returns, radio, Effect, Deed
  <2>2. CASE Goto(c, "bind") /\ UNCHANGED control
    BY <1>8, <2>2, <1>2, <1>4 DEF Admit, At, Simple, SimpleArcs, Goes, Frame, control, radio, Effect, Deed
  <2>3. CASE cmd' = [cmd EXCEPT ![c].pc = "bind", ![c].gen = generation + 1]
             /\ UNCHANGED <<lock, runCancel>>
    <3>1. /\ Goes(c, "bind") /\ cmd'[c].superseded = cmd[c].superseded
          /\ \A d \in Commands : d # c => cmd'[d] = cmd[d]
      BY <2>3, <1>0, NumberGoes
    <3> QED BY <1>8, <2>3, <3>1, <1>4 DEF Admit, At, Simple, SimpleArcs, Goes, Frame, radio, Effect, Deed
  <2> QED BY <1>8, <2>1, <2>2, <2>3 DEF Admit
<1>9. CASE Number(c)
  <2>1. /\ Goes(c, "cancel") /\ cmd'[c].superseded = cmd[c].superseded
        /\ \A d \in Commands : d # c => cmd'[d] = cmd[d]
    BY <1>9, <1>0, NumberGoes DEF Number
  <2> QED BY <1>9, <2>1, <1>4 DEF Number, At, Simple, SimpleArcs, Goes, Frame, radio, Effect, Deed
<1>10. CASE CancelActiveRun(c)
  <2>1. cmd'[c] = [cmd[c] EXCEPT !.pc = "bind"]
        /\ \A d \in Commands : d # c =>
             cmd'[d] = [cmd[d] EXCEPT !.cancelled = cmd[d].cancelled \/ d = runCancel]
    <3>1. cmd' = [d \in Commands |->
                    IF d = c THEN [cmd[c] EXCEPT !.pc = "bind"]
                    ELSE [cmd[d] EXCEPT !.cancelled = cmd[d].cancelled \/ d = runCancel]]
      BY <1>10 DEF CancelActiveRun
    <3> QED BY <3>1
  <2>2. \A d \in Commands : cmd[d] \in Record
    BY DEF Types, Records
  <2>3. \A d \in Commands : d # c =>
          /\ cmd'[d].pc = cmd[d].pc /\ cmd'[d].kind = cmd[d].kind
          /\ cmd'[d].victim = cmd[d].victim /\ cmd'[d].epoch = cmd[d].epoch
          /\ cmd'[d].superseded = cmd[d].superseded
          /\ cmd'[d].cancelled = (cmd[d].cancelled \/ d = runCancel)
    <3> SUFFICES ASSUME NEW d \in Commands, d # c
                 PROVE  /\ cmd'[d].pc = cmd[d].pc /\ cmd'[d].kind = cmd[d].kind
                        /\ cmd'[d].victim = cmd[d].victim /\ cmd'[d].epoch = cmd[d].epoch
                        /\ cmd'[d].superseded = cmd[d].superseded
                        /\ cmd'[d].cancelled = (cmd[d].cancelled \/ d = runCancel)
      OBVIOUS
    <3> DEFINE flag == cmd[d].cancelled \/ d = runCancel
    <3>1. cmd'[d] = [cmd[d] EXCEPT !.cancelled = flag] /\ cmd[d] \in Record
      BY <2>1, <2>2
    <3> HIDE DEF flag
    <3>2. /\ cmd'[d].pc = cmd[d].pc /\ cmd'[d].kind = cmd[d].kind
          /\ cmd'[d].victim = cmd[d].victim /\ cmd'[d].epoch = cmd[d].epoch
          /\ cmd'[d].superseded = cmd[d].superseded /\ cmd'[d].cancelled = flag
      BY <3>1 DEF Record
    <3> QED BY <3>2 DEF flag
  <2>4. /\ cmd'[c].pc = "bind" /\ cmd'[c].kind = cmd[c].kind /\ cmd'[c].victim = cmd[c].victim
        /\ cmd'[c].cancelled = cmd[c].cancelled /\ cmd'[c].superseded = cmd[c].superseded
    BY <1>0, <2>1 DEF Record
  <2> QED BY <1>10, <2>3, <2>4, <1>4 DEF CancelActiveRun, At, Frame, control, radio, Effect, Deed, Cancels
<1>11. CASE BindRunContext(c)
  BY <1>11, <1>2, <1>4 DEF BindRunContext, At, Goes, radio, Effect, Deed, Binds
<1>12. CASE Expire(c)
  <2> DEFINE p == IF cmd[c].kind = "disable" THEN "lock" ELSE "number"
  <2>1. cmd' = [Superseding EXCEPT ![c].pc = p]
    BY <1>12 DEF Expire
  <2> HIDE DEF p
  <2>2. /\ cmd'[c] = [Superseding[c] EXCEPT !.pc = p]
        /\ \A d \in Commands : d # c => cmd'[d] = Superseding[d]
    BY <2>1 DEF Superseding
  <2>3. \A d \in Commands :
          /\ Superseding[d].pc = cmd[d].pc /\ Superseding[d].kind = cmd[d].kind
          /\ Superseding[d].victim = cmd[d].victim /\ Superseding[d].epoch = cmd[d].epoch
          /\ Superseding[d].cancelled = cmd[d].cancelled
          /\ Superseding[d].superseded = (cmd[d].superseded \/ InFlight(d))
          /\ Superseding[d] \in Record
    <3>1. \A d \in Commands : cmd[d] \in Record
      BY DEF Types, Records
    <3>2. \A d \in Commands : (cmd[d].superseded \/ InFlight(d)) \in BOOLEAN
      OBVIOUS
    <3> QED BY <3>1, <3>2 DEF Superseding, Record
  <2>4. ~ InFlight(c)
    BY <1>12 DEF Expire, At, InFlight
  <2>5. Superseding[c].superseded = cmd[c].superseded
    BY <1>0, <2>3, <2>4 DEF Record
  <2>6. /\ cmd'[c].pc = p /\ cmd'[c].kind = cmd[c].kind /\ cmd'[c].victim = cmd[c].victim
        /\ cmd'[c].cancelled = cmd[c].cancelled /\ cmd'[c].superseded = cmd[c].superseded
    BY <2>2, <2>3, <2>5 DEF Record
  <2>7. slot'.inst = slot.inst /\ slot'.epoch = slot.epoch + 1
    BY <1>12 DEF Expire, InvalidateSlot, ZeroSlot
  <2>8. Supersedes(c)
    BY <1>12, <2>2, <2>3, <2>6, <2>7 DEF Expire, Supersedes, control, radio
  <2> QED BY <1>12, <2>2, <2>3, <2>6, <2>8 DEF Expire, At, p, radio, Effect, Deed, Expires
<1>13. CASE Invalidate(c)
  <2> DEFINE p == "teardown"
  <2>1. cmd' = [Superseding EXCEPT ![c].pc = p]
    BY <1>13 DEF Invalidate
  <2> HIDE DEF p
  <2>2. /\ cmd'[c] = [Superseding[c] EXCEPT !.pc = p]
        /\ \A d \in Commands : d # c => cmd'[d] = Superseding[d]
    BY <2>1 DEF Superseding
  <2>3. \A d \in Commands :
          /\ Superseding[d].pc = cmd[d].pc /\ Superseding[d].kind = cmd[d].kind
          /\ Superseding[d].victim = cmd[d].victim /\ Superseding[d].epoch = cmd[d].epoch
          /\ Superseding[d].cancelled = cmd[d].cancelled
          /\ Superseding[d].superseded = (cmd[d].superseded \/ InFlight(d))
          /\ Superseding[d] \in Record
    <3>1. \A d \in Commands : cmd[d] \in Record
      BY DEF Types, Records
    <3>2. \A d \in Commands : (cmd[d].superseded \/ InFlight(d)) \in BOOLEAN
      OBVIOUS
    <3> QED BY <3>1, <3>2 DEF Superseding, Record
  <2>4. ~ InFlight(c)
    BY <1>13 DEF Invalidate, At, InFlight
  <2>5. Superseding[c].superseded = cmd[c].superseded
    BY <1>0, <2>3, <2>4 DEF Record
  <2>6. /\ cmd'[c].pc = p /\ cmd'[c].kind = cmd[c].kind /\ cmd'[c].victim = cmd[c].victim
        /\ cmd'[c].cancelled = cmd[c].cancelled /\ cmd'[c].superseded = cmd[c].superseded
    BY <2>2, <2>3, <2>5 DEF Record
  <2>7. slot'.inst = slot.inst /\ slot'.epoch = slot.epoch + 1
    BY <1>13 DEF Invalidate, InvalidateSlot, ZeroSlot
  <2>8. Supersedes(c)
    BY <1>13, <2>2, <2>3, <2>6, <2>7 DEF Invalidate, Supersedes, control, radio
  <2> QED BY <1>13, <2>2, <2>3, <2>6, <2>8 DEF Invalidate, At, p, radio, Effect, Deed, Invalidates
<1>14. CASE ReadInstance(c)
  <2>1. CASE /\ slot.inst # None
             /\ cmd' = [cmd EXCEPT ![c].pc = "stop", ![c].victim = slot.inst]
             /\ UNCHANGED control
    <3>1. cmd'[c] = [cmd[c] EXCEPT !.pc = "stop", !.victim = slot.inst]
          /\ \A d \in Commands : d # c => cmd'[d] = cmd[d]
      BY <2>1 DEF Types, Records
    <3>2. /\ cmd'[c].pc = "stop" /\ cmd'[c].victim = slot.inst /\ cmd'[c].kind = cmd[c].kind
          /\ cmd'[c].cancelled = cmd[c].cancelled /\ cmd'[c].superseded = cmd[c].superseded
      BY <1>0, <3>1 DEF Record
    <3> QED BY <1>14, <2>1, <3>1, <3>2, <1>4 DEF ReadInstance, At, Spares, Frame, control, radio, Effect, Deed, Picks, Passes
  <2>2. CASE /\ slot.inst = None /\ cmd[c].kind \in {"disable", "restart"}
             /\ Goto(c, "sms")
             /\ UNCHANGED control
    BY <1>14, <2>2, <1>2, <1>4 DEF ReadInstance, At, Goes, control, radio, Effect, Deed, Picks, Passes
  <2>3. CASE /\ slot.inst = None /\ cmd[c].kind \notin {"disable", "restart"}
             /\ AfterTeardown(c)
    BY <1>14, <2>3, <1>7, <1>4 DEF ReadInstance, At, radio, Effect, Deed, Picks, Passes
  <2> QED BY <1>14, <2>1, <2>2, <2>3 DEF ReadInstance
<1>15. CASE BeginStop(c)
  BY <1>15, <1>2, <1>4, <1>5 DEF BeginStop, At, Simple, SimpleArcs, Goes, Frame, control, radio, Effect, Deed
<1>16. CASE EndStop(c)
  BY <1>16, <1>2, <1>4, <1>5 DEF EndStop, At, Simple, SimpleArcs, Goes, Frame, control, radio, Effect, Deed
<1>17. CASE Prepare(c)
  BY <1>17, <1>2, <1>4, <1>5 DEF Prepare, At, Simple, SimpleArcs, Goes, Frame, control, radio, Effect, Deed
<1>18. CASE StartInstance(c)
  BY <1>18, <1>2, <1>4, <1>5 DEF StartInstance, At, Simple, SimpleArcs, Goes, Frame, control, radio, Effect, Deed
<1>19. CASE Establish(c)
  BY <1>19, <1>2, <1>4, <1>5 DEF Establish, At, Simple, SimpleArcs, Goes, Frame, control, radio, Effect, Deed
<1>20. CASE Discard(c)
  BY <1>20, <1>2, <1>4, <1>5 DEF Discard, At, Simple, SimpleArcs, Goes, Frame, control, radio, Effect, Deed
<1>21. CASE ConnectInstance(c)
  BY <1>21, <1>2, <1>4 DEF ConnectInstance, ShouldRun, At, Simple, SimpleArcs, Goes, Frame, control, radio, Effect, Deed, Connects
<1>22. CASE WaitReady(c)
  BY <1>22, <1>2, <1>3, <1>4 DEF WaitReady, At, Simple, SimpleArcs, Goes, Frame, Returns, control, radio, Effect, Deed
<1>23. CASE SkipActive(c)
  BY <1>23, <1>2, <1>3, <1>4 DEF SkipActive, At, Simple, SimpleArcs, Goes, Frame, Returns, control, radio, Effect, Deed
<1>24. CASE CheckSwitching(c)
  BY <1>24, <1>2, <1>3, <1>4 DEF CheckSwitching, At, Goes, Frame, Returns, control, radio, Effect, Deed, Checks
<1>25. CASE FailStart(c)
  <2>1. SameEpoch
    BY <1>25, <1>0 DEF FailStart, SameEpoch, Slots
  <2> QED BY <1>25, <2>1, <1>3 DEF FailStart, At, Returns, radio, Effect, Deed
<1>26. CASE DeleteInstance(c)
  <2>1. /\ slot'.inst = (IF slot.inst = cmd[c].victim THEN None ELSE slot.inst)
        /\ slot'.epoch = slot.epoch
    BY <1>26 DEF DeleteInstance, ZeroSlot
  <2> QED BY <1>26, <2>1, <1>2 DEF DeleteInstance, At, Goes, control, radio, Effect, Deed, Deletes
<1>27. CASE RestoreSMSMode(c)
  BY <1>27, <1>7, <1>4 DEF RestoreSMSMode, At, Effect, Deed, Restores
<1>28. CASE BeginStart(c)
  <2>1. CASE Finish(c) /\ UNCHANGED slot
    BY <1>28, <2>1, <1>3, <1>4 DEF BeginStart, At, Returns, radio, Effect, Deed, Begins
  <2>2. CASE /\ slot.inst = None
             /\ slot' = [slot EXCEPT !.starting = TRUE, !.failed = FALSE]
             /\ cmd' = [cmd EXCEPT ![c].pc = "prepare", ![c].epoch = slot.epoch]
             /\ UNCHANGED control
    <3>1. cmd'[c] = [cmd[c] EXCEPT !.pc = "prepare", !.epoch = slot.epoch]
          /\ \A d \in Commands : d # c => cmd'[d] = cmd[d]
      BY <2>2 DEF Types, Records
    <3>2. /\ cmd'[c].pc = "prepare" /\ cmd'[c].epoch = slot.epoch /\ cmd'[c].kind = cmd[c].kind
          /\ cmd'[c].cancelled = cmd[c].cancelled /\ cmd'[c].superseded = cmd[c].superseded
      BY <1>0, <3>1 DEF Record
    <3>3. SameEpoch
      BY <1>0, <2>2 DEF SameEpoch, Slots
    <3> QED BY <1>28, <2>2, <3>1, <3>2, <3>3 DEF BeginStart, At, Spares, Frame, control, radio, Effect, Deed, Begins
  <2> QED BY <1>28, <2>1, <2>2 DEF BeginStart
<1>29. CASE ClaimStarted(c)
  <2>1. CASE Claimable(c)
    <3>1. slot'.inst = c /\ slot'.epoch = slot.epoch
      BY <1>29, <2>1 DEF ClaimStarted, ZeroSlot
    <3> QED BY <1>29, <2>1, <3>1, <1>2 DEF ClaimStarted, Claimable, At, Goes, control, radio, Effect, Deed, Claims
  <2>2. CASE ~ Claimable(c)
    BY <1>29, <2>2, <1>2, <1>4 DEF ClaimStarted, At, Simple, SimpleArcs, Goes, Frame, control, radio, Effect, Deed, Claims
  <2> QED BY <2>1, <2>2
<1>30. CASE Forget(c)
  BY <1>30, <1>3, <1>6 DEF Forget, At, radio, Effect, Deed, Forgets
<1>31. CASE ClearStartupState(c)
  BY <1>31, <1>2, <1>6 DEF ClearStartupState, At, Goes, control, radio, Effect, Deed, Drops
<1>32. CASE HandleStartupError(c)
  BY <1>32, <1>2, <1>6 DEF HandleStartupError, At, Goes, control, Effect, Deed, Drops
<1>33. CASE MarkRuntimeStarted(c)
  BY <1>33, <1>3, <1>4 DEF MarkRuntimeStarted, At, Effect, Deed, Announces
<1> QED BY <1>8, <1>9, <1>10, <1>11, <1>12, <1>13, <1>14, <1>15, <1>16, <1>17, <1>18, <1>19, <1>20, <1>21, <1>22, <1>23, <1>24, <1>25, <1>26, <1>27, <1>28, <1>29, <1>30, <1>31, <1>32, <1>33 DEF Run

-----------------------------------------------------------------------------
(* The numbers that commands take, and for which retries are scheduled.    *)

Counts(c) ==
  /\ \A d \in Commands : d # c => cmd'[d].gen = cmd[d].gen
  /\ \/ /\ cmd'[c].pc # "done" /\ cmd'[c].gen = cmd[c].gen /\ generation' = generation
        /\ cmd[c].pc # "number" /\ (cmd[c].pc = "admit" => cmd[c].gen # 0 /\ ~ Stale(c))
     \/ /\ cmd[c].pc \in {"admit", "number"} /\ cmd'[c].pc \in {"bind", "cancel"}
        /\ generation' = generation + 1 /\ cmd'[c].gen = generation + 1
        /\ cmd[c].pc = "admit" => cmd[c].gen = 0
     \/ /\ cmd'[c].pc = "done" /\ cmd'[c].gen = 0 /\ generation' = generation
        /\ cmd[c].pc = "admit" => Stale(c) \/ cmd[c].kind = "enable"
  /\ busy' = busy \/ (cmd[c].pc = "error" /\ busy' = busy \cup {cmd[c].gen})

LEMMA GenOf ==
  ASSUME NEW r \in Record, NEW p
  PROVE  /\ [r EXCEPT !.pc = p].gen = r.gen /\ [r EXCEPT !.pc = p].pc = p
         /\ \A n : [r EXCEPT !.pc = p, !.gen = n].gen = n /\ [r EXCEPT !.pc = p, !.gen = n].pc = p
         /\ \A v : [r EXCEPT !.pc = p, !.victim = v].gen = r.gen
                   /\ [r EXCEPT !.pc = p, !.victim = v].pc = p
         /\ \A v : [r EXCEPT !.pc = p, !.epoch = v].gen = r.gen
                   /\ [r EXCEPT !.pc = p, !.epoch = v].pc = p
BY DEF Record

LEMMA FlagKeepsGen ==
  ASSUME NEW r \in Record, NEW flag \in BOOLEAN
  PROVE  /\ [r EXCEPT !.cancelled = flag].gen = r.gen
         /\ [r EXCEPT !.superseded = flag].gen = r.gen
         /\ [r EXCEPT !.superseded = flag] \in Record
BY DEF Record

LEMMA CountsRun ==
  ASSUME Types, NEW c \in Commands, Run(c)
  PROVE  Counts(c)
<1>0. (\A d \in Commands : cmd[d] \in Record) /\ DOMAIN cmd = Commands
  BY DEF Types, Records
<1>1. ASSUME NEW p, Goto(c, p)
      PROVE  /\ cmd'[c].pc = p /\ cmd'[c].gen = cmd[c].gen
             /\ \A d \in Commands : d # c => cmd'[d].gen = cmd[d].gen
  <2>1. /\ cmd'[c] = [cmd[c] EXCEPT !.pc = p] /\ cmd'[c].pc = p
        /\ \A d \in Commands : d # c => cmd'[d] = cmd[d]
    BY <1>1, GotoGoes
  <2>2. cmd'[c].gen = cmd[c].gen
    BY <1>0, <2>1 DEF Record
  <2> QED BY <2>1, <2>2
<1>2. ASSUME Finish(c)
      PROVE  /\ cmd'[c].pc = "done" /\ cmd'[c].gen = 0 /\ generation' = generation
             /\ \A d \in Commands : d # c => cmd'[d].gen = cmd[d].gen
  <2>1. Returned(c).pc = "done" /\ Returned(c).gen = 0
    BY DEF Returned, NotSubmitted
  <2> QED BY <1>0, <1>2, <2>1 DEF Finish
<1>3. ASSUME NEW p, NEW n, cmd' = [cmd EXCEPT ![c].pc = p, ![c].gen = n]
      PROVE  /\ cmd'[c].pc = p /\ cmd'[c].gen = n
             /\ \A d \in Commands : d # c => cmd'[d].gen = cmd[d].gen
  <2>1. cmd'[c] = [cmd[c] EXCEPT !.pc = p, !.gen = n] /\ \A d \in Commands : d # c => cmd'[d] = cmd[d]
    BY <1>0, <1>3
  <2> QED BY <1>0, <2>1, GenOf
<1>4. ASSUME NEW p, cmd' = [Superseding EXCEPT ![c].pc = p]
      PROVE  /\ cmd'[c].pc = p /\ cmd'[c].gen = cmd[c].gen
             /\ \A d \in Commands : d # c => cmd'[d].gen = cmd[d].gen
  <2>1. /\ cmd'[c] = [Superseding[c] EXCEPT !.pc = p]
        /\ \A d \in Commands : d # c => cmd'[d] = Superseding[d]
        /\ \A d \in Commands :
             Superseding[d] = [cmd[d] EXCEPT !.superseded = cmd[d].superseded \/ InFlight(d)]
    BY <1>4 DEF Superseding
  <2>2. \A d \in Commands : Superseding[d] \in Record /\ Superseding[d].gen = cmd[d].gen
    <3> SUFFICES ASSUME NEW d \in Commands
                 PROVE  Superseding[d] \in Record /\ Superseding[d].gen = cmd[d].gen
      OBVIOUS
    <3> DEFINE flag == cmd[d].superseded \/ InFlight(d)
    <3>1. Superseding[d] = [cmd[d] EXCEPT !.superseded = flag] /\ flag \in BOOLEAN
      BY <2>1
    <3> HIDE DEF flag
    <3> QED BY <1>0, <3>1, FlagKeepsGen
  <2>3. cmd'[c].pc = p /\ cmd'[c].gen = Superseding[c].gen
    BY <2>1, <2>2 DEF Record
  <2> QED BY <2>1, <2>2, <2>3
<1>5. CASE Admit(c)
  <2>1. CASE (Stale(c) \/ (cmd[c].kind = "enable" /\ slot.inst # None)) /\ Finish(c)
    BY <1>2, <1>5, <2>1 DEF Admit, At, radio, Counts
  <2>2. CASE ~ Stale(c) /\ cmd[c].gen # 0 /\ Goto(c, "bind") /\ UNCHANGED control
    BY <1>1, <1>5, <2>2 DEF Admit, At, control, radio, Counts
  <2>3. CASE /\ cmd[c].gen = 0 /\ generation' = generation + 1
             /\ cmd' = [cmd EXCEPT ![c].pc = "bind", ![c].gen = generation + 1]
    BY <1>3, <1>5, <2>3 DEF Admit, At, radio, Counts
  <2> QED BY <1>5, <2>1, <2>2, <2>3 DEF Admit
<1>6. CASE Number(c)
  BY <1>3, <1>6 DEF Number, At, radio, Counts
<1>7. CASE CancelActiveRun(c)
  <2>1. /\ cmd'[c] = [cmd[c] EXCEPT !.pc = "bind"]
        /\ \A d \in Commands : d # c => cmd'[d] = [cmd[d] EXCEPT !.cancelled = cmd[d].cancelled \/ d = runCancel]
    <3>1. cmd' = [d \in Commands |->
                    IF d = c THEN [cmd[c] EXCEPT !.pc = "bind"]
                    ELSE [cmd[d] EXCEPT !.cancelled = cmd[d].cancelled \/ d = runCancel]]
      BY <1>7 DEF CancelActiveRun
    <3> QED BY <3>1
  <2>2. cmd'[c].gen = cmd[c].gen /\ cmd'[c].pc = "bind"
    BY <1>0, <2>1 DEF Record
  <2>3. \A d \in Commands : d # c => cmd'[d].gen = cmd[d].gen
    <3> SUFFICES ASSUME NEW d \in Commands, d # c PROVE cmd'[d].gen = cmd[d].gen
      OBVIOUS
    <3> DEFINE flag == cmd[d].cancelled \/ d = runCancel
    <3>1. cmd'[d] = [cmd[d] EXCEPT !.cancelled = flag] /\ flag \in BOOLEAN
      BY <2>1
    <3> HIDE DEF flag
    <3> QED BY <1>0, <3>1, FlagKeepsGen
  <2> QED BY <1>7, <2>2, <2>3 DEF CancelActiveRun, At, control, radio, Counts
<1>8. CASE Expire(c)
  <2>1. cmd'[c].pc \in {"lock", "number"}
    BY <1>4, <1>8 DEF Expire
  <2> QED BY <1>4, <1>8, <2>1 DEF Expire, At, control, radio, Counts
<1>9. CASE Invalidate(c)
  BY <1>4, <1>9 DEF Invalidate, At, control, radio, Counts
<1>10. CASE ReadInstance(c)
  <2>1. CASE cmd' = [cmd EXCEPT ![c].pc = "stop", ![c].victim = slot.inst] /\ UNCHANGED control
    <3>1. /\ cmd'[c] = [cmd[c] EXCEPT !.pc = "stop", !.victim = slot.inst]
          /\ \A d \in Commands : d # c => cmd'[d] = cmd[d]
      BY <1>0, <2>1
    <3>2. cmd'[c].gen = cmd[c].gen /\ cmd'[c].pc = "stop"
      BY <1>0, <3>1, GenOf
    <3> QED BY <1>10, <2>1, <3>1, <3>2 DEF ReadInstance, At, control, radio, Counts
  <2>2. CASE Goto(c, "sms") /\ UNCHANGED control
    BY <1>1, <1>10, <2>2 DEF ReadInstance, At, control, radio, Counts
  <2>3. CASE AfterTeardown(c)
    BY <1>1, <1>2, <1>10, <2>3 DEF ReadInstance, AfterTeardown, At, control, radio, Counts
  <2> QED BY <1>10, <2>1, <2>2, <2>3 DEF ReadInstance
<1>11. CASE BeginStart(c)
  <2>1. CASE cmd' = [cmd EXCEPT ![c].pc = "prepare", ![c].epoch = slot.epoch] /\ UNCHANGED control
    <3>1. /\ cmd'[c] = [cmd[c] EXCEPT !.pc = "prepare", !.epoch = slot.epoch]
          /\ \A d \in Commands : d # c => cmd'[d] = cmd[d]
      BY <1>0, <2>1
    <3>2. cmd'[c].gen = cmd[c].gen /\ cmd'[c].pc = "prepare"
      BY <1>0, <3>1, GenOf
    <3> QED BY <1>11, <2>1, <3>1, <3>2 DEF BeginStart, At, control, radio, Counts
  <2>2. CASE Finish(c)
    BY <1>2, <1>11, <2>2 DEF BeginStart, At, control, radio, Counts
  <2> QED BY <1>11, <2>1, <2>2 DEF BeginStart
<1>12. CASE BindRunContext(c)
  <2>1. FirstStep(cmd[c].kind) # "done"
    BY DEF FirstStep
  <2> QED BY <1>1, <1>12, <2>1 DEF BindRunContext, At, radio, Counts
<1>13. CASE BeginStop(c) \/ EndStop(c) \/ DeleteInstance(c)
  BY <1>1, <1>13 DEF BeginStop, EndStop, DeleteInstance, At, control, radio, Counts
<1>14. CASE RestoreSMSMode(c)
  BY <1>1, <1>2, <1>14 DEF RestoreSMSMode, AfterTeardown, At, control, Counts
<1>15. CASE WaitReady(c) \/ SkipActive(c) \/ CheckSwitching(c)
  BY <1>1, <1>2, <1>15 DEF WaitReady, SkipActive, CheckSwitching, At, control, radio, Counts
<1>16. CASE Prepare(c) \/ StartInstance(c) \/ Establish(c)
  BY <1>1, <1>16 DEF Prepare, StartInstance, Establish, At, control, radio, Counts
<1>17. CASE ConnectInstance(c)
  BY <1>1, <1>17 DEF ConnectInstance, At, control, radio, Counts
<1>18. CASE ClaimStarted(c) \/ Discard(c) \/ ClearStartupState(c)
  BY <1>1, <1>18 DEF ClaimStarted, Discard, ClearStartupState, At, control, radio, Counts
<1>19. CASE HandleStartupError(c)
  BY <1>1, <1>19 DEF HandleStartupError, At, control, Counts
<1>20. CASE Forget(c) \/ MarkRuntimeStarted(c) \/ FailStart(c)
  BY <1>2, <1>20 DEF Forget, MarkRuntimeStarted, FailStart, At, radio, Counts
<1> QED BY <1>5, <1>6, <1>7, <1>8, <1>9, <1>10, <1>11, <1>12, <1>13, <1>14, <1>15, <1>16, <1>17, <1>18, <1>19, <1>20 DEF Run

-----------------------------------------------------------------------------
(* The course of each kind of command, and who holds the mutex.            *)

Serial(c) == cmd[c].kind \notin Unserialised

Stages ==
  {"check", "begin", "prepare", "start", "connect", "tunnel", "claim", "discard", "forget",
   "claimed", "mark", "error", "fail"}
Stops == {"teardown", "stop", "down", "delete", "sms"}

(* Which kinds of command come to which places.                            *)
Course(pc, kind) ==
  /\ pc = "unused" => kind = "enable"
  /\ pc = "expire" => kind \in {"disable", "restart"}
  /\ pc \in {"number", "cancel"} => kind \in Preempting
  /\ pc \in {"lock", "admit"} => kind \notin Unserialised
  /\ pc = "bind" => kind # "reconnect"
  /\ pc = "inactive" => kind = "recover"
  /\ pc = "ready" => kind \in {"recover", "restart"}
  /\ pc = "invalidate" => kind # "disable"
  /\ pc \in Stops \cup {"invalidate"} => kind \notin {"enable", "switchEnd"}
  /\ pc \in Stages => kind \notin {"disable", "switchBegin", "reconnect"}

CourseInv == \A c \in Commands : Course(cmd[c].pc, cmd[c].kind)

Held == {"admit", "bind", "inactive", "invalidate", "ready"} \cup Stops \cup Stages

SerialInv ==
  /\ \A c \in Commands : Serial(c) /\ cmd[c].pc \in Held => lock = c
  /\ lock # None => lock \in Commands /\ Serial(lock) /\ cmd[lock].pc \in Held

(* What a submission does.                                                 *)
Submitted(c, kind) ==
  /\ cmd[c].pc = "unused" /\ \A d \in 1 .. c - 1 : cmd[d].pc # "unused"
  /\ cmd'[c].pc = EntryPoint(kind) /\ cmd'[c].kind = kind
  /\ cmd'[c].superseded = cmd[c].superseded /\ cmd'[c].cancelled = cmd[c].cancelled
  /\ cmd'[c].victim = cmd[c].victim
  /\ \A d \in Commands : d # c => cmd'[d] = cmd[d]
  /\ cmd'[c].gen \in busy \cup {0} /\ (cmd'[c].gen # 0 => kind = "recover")
  /\ UNCHANGED <<control, slot, smsMode, busy, escaped>>
  /\ kind = "switchBegin" => ~ switching
  /\ kind = "switchEnd" => SwitchBegun
  /\ switching' = (switching \/ kind = "switchBegin")

LEMMA SubmitEffect ==
  ASSUME Types, NEW c \in Commands, NEW kind \in Kinds, NEW gen \in busy \cup {0},
         Submit(c, kind, gen)
  PROVE  Submitted(c, kind) /\ cmd'[c].gen = gen
<1> DEFINE p == EntryPoint(kind)
           new == [cmd[c] EXCEPT !.pc = p, !.kind = kind, !.gen = gen]
<1>1. cmd[c] \in Record /\ DOMAIN cmd = Commands
  BY DEF Types, Records
<1>2. cmd' = [cmd EXCEPT ![c] = new]
  BY DEF Submit
<1> HIDE DEF p
<1>3. /\ new.pc = p /\ new.kind = kind /\ new.superseded = cmd[c].superseded
      /\ new.cancelled = cmd[c].cancelled /\ new.victim = cmd[c].victim /\ new.gen = gen
  <2> SUFFICES ASSUME NEW r \in Record
               PROVE  LET m == [r EXCEPT !.pc = p, !.kind = kind, !.gen = gen]
                      IN  /\ m.pc = p /\ m.kind = kind /\ m.superseded = r.superseded
                          /\ m.cancelled = r.cancelled /\ m.victim = r.victim /\ m.gen = gen
    BY <1>1
  <2> QED BY DEF Record
<1> HIDE DEF new
<1>4. cmd'[c] = new /\ \A d \in Commands : d # c => cmd'[d] = cmd[d]
  BY <1>1, <1>2
<1> QED BY <1>3, <1>4 DEF Submit, Submitted, At, p

LEMMA AcquireEffect ==
  ASSUME Types, NEW c \in Commands, AcquireLock(c)
  PROVE  /\ cmd[c].pc = "lock" /\ lock = None /\ lock' = c /\ Goto(c, "admit")
         /\ cmd'[c].pc = "admit" /\ cmd'[c].kind = cmd[c].kind /\ cmd'[c].victim = cmd[c].victim
         /\ cmd'[c].cancelled = cmd[c].cancelled /\ cmd'[c].superseded = cmd[c].superseded
         /\ cmd'[c].gen = cmd[c].gen
         /\ \A d \in Commands : d # c => cmd'[d] = cmd[d]
         /\ UNCHANGED <<generation, runCancel, slot, switching, smsMode, busy>>
<1>1. cmd'[c] = [cmd[c] EXCEPT !.pc = "admit"] /\ cmd[c] \in Record
  BY GotoGoes DEF AcquireLock, Types, Records
<1>2. cmd'[c].gen = cmd[c].gen
  BY <1>1 DEF Record
<1> QED BY <1>2, GotoGoes DEF AcquireLock, At, radio

(* Every step is a submission, the taking of the mutex, a deed or the end  *)
(* of a switch.                                                            *)
LEMMA Cases ==
  ASSUME Types, Next, NEW P,
         ASSUME NEW c \in Commands, NEW kind \in Kinds, Submitted(c, kind) PROVE P,
         ASSUME NEW c \in Commands, AcquireLock(c), UNCHANGED escaped PROVE P,
         ASSUME NEW c \in Commands, Effect(c), Counts(c), UNCHANGED escaped PROVE P,
         ASSUME EndSwitch PROVE P
  PROVE  P
<1>1. ASSUME NEW c \in Commands, NEW kind \in Kinds, NEW gen \in busy \cup {0}, Submit(c, kind, gen)
      PROVE  P
  BY <1>1, SubmitEffect
<1>2. ASSUME NEW c \in Commands, Run(c), UNCHANGED escaped PROVE P
  BY <1>2, Effects, CountsRun
<1> QED BY <1>1, <1>2 DEF Next

LEMMA CourseRun ==
  ASSUME CourseInv, NEW c \in Commands, Effect(c)
  PROVE  Course(cmd'[c].pc, cmd'[c].kind)
<1>1. Course(cmd[c].pc, cmd[c].kind)
  BY DEF CourseInv
<1> USE DEF Course, Stages, Stops, Unserialised, Preempting
<1>2. CASE Simple(c)
  BY <1>1, <1>2 DEF Simple, SimpleArcs, Goes
<1>3. CASE Returns(c)
  BY <1>1, <1>3 DEF Returns, Ends
<1>4. CASE Cancels(c) \/ Binds(c)
  BY <1>1, <1>4 DEF Cancels, Binds, Goes, FirstStep
<1>5. CASE Expires(c) \/ Invalidates(c)
  BY <1>1, <1>5 DEF Expires, Invalidates, Supersedes
<1>6. CASE Picks(c) \/ Deletes(c) \/ Checks(c) \/ Begins(c) \/ Connects(c) \/ Claims(c) \/ Drops(c)
  BY <1>1, <1>6 DEF Picks, Deletes, Checks, Begins, Connects, Claims, Drops, Goes
<1>7. CASE Passes(c) \/ Restores(c)
  BY <1>1, <1>7 DEF Passes, Restores, Follows, Goes, Ends
<1>8. CASE Forgets(c) \/ Announces(c)
  BY <1>1, <1>8 DEF Forgets, Announces, Ends
<1> QED BY <1>2, <1>3, <1>4, <1>5, <1>6, <1>7, <1>8 DEF Effect, Deed

LEMMA CourseStep == Types /\ CourseInv /\ [Next]_vars => CourseInv'
<1> SUFFICES ASSUME Types, CourseInv, [Next]_vars PROVE CourseInv'
  OBVIOUS
<1>1. ASSUME NEW c \in Commands, NEW kind \in Kinds, Submitted(c, kind) PROVE CourseInv'
  <2>1. Course(EntryPoint(kind), kind)
    BY KindsAssumption DEF EntryPoint, Course, Stages, Stops, Unserialised, Preempting
  <2> QED BY <1>1, <2>1 DEF Submitted, CourseInv
<1>2. ASSUME NEW c \in Commands, AcquireLock(c) PROVE CourseInv'
  <2>1. Course("admit", cmd[c].kind)
    <3>1. cmd[c].pc = "lock" /\ Course(cmd[c].pc, cmd[c].kind)
      BY <1>2, AcquireEffect DEF CourseInv
    <3> QED BY <3>1 DEF Course, Stages, Stops
  <2> QED BY <1>2, <2>1, AcquireEffect DEF CourseInv
<1>3. ASSUME NEW c \in Commands, Effect(c) PROVE CourseInv'
  BY <1>3, CourseRun DEF Effect, CourseInv
<1>4. ASSUME EndSwitch PROVE CourseInv'
  BY <1>4 DEF EndSwitch, CourseInv
<1>5. CASE UNCHANGED vars
  BY <1>5 DEF vars, CourseInv
<1> QED BY <1>1, <1>2, <1>3, <1>4, <1>5, Cases

(* A step leaves the kinds that count alone, and so who is serialised.     *)
LEMMA KindsKept ==
  ASSUME Types, NEW c \in Commands, Effect(c)
  PROVE  /\ \A d \in Commands, k \in Unserialised \cup {"switchEnd"} :
              cmd'[d].kind = k <=> cmd[d].kind = k
         /\ \A d \in Commands : Serial(d)' <=> Serial(d)
         /\ cmd'[c].kind = cmd[c].kind \/ cmd'[c].pc = "done"
         /\ NoRestart' <=> NoRestart
<1>1. \/ cmd'[c].kind = cmd[c].kind
      \/ /\ cmd[c].kind \in {"disable", "recover"} /\ cmd'[c].kind = "enable"
         /\ cmd'[c].pc = "done"
  BY DEF Effect, Deed, Simple, Returns, Cancels, Binds, Expires, Invalidates, Picks, Passes,
    Deletes, Restores, Checks, Begins, Connects, Claims, Forgets, Drops, Announces, Supersedes,
    Goes, Ends, Follows
<1>2. \A d \in Commands, k \in Unserialised \cup {"switchEnd"} :
        cmd'[d].kind = k <=> cmd[d].kind = k
  BY <1>1 DEF Effect, Unserialised, Preempting
<1> QED BY <1>1, <1>2 DEF Serial, NoRestart, Unserialised, Preempting

LEMMA SerialRun ==
  ASSUME Types, CourseInv, SerialInv, NEW c \in Commands, Effect(c)
  PROVE  /\ SerialInv'
         /\ Serial(c) => lock = c \/ cmd[c].pc = "expire"
         /\ ~ Serial(c) => lock # c
<1>1. Course(cmd[c].pc, cmd[c].kind)
  BY DEF CourseInv
<1>2. ~ Serial(c) => lock # c
  BY NoneIsNoCommand DEF SerialInv
<1>3. \A d \in Commands : Serial(d)' <=> Serial(d)
  BY KindsKept
<1>4. \A d \in Commands : d # c => cmd'[d].pc = cmd[d].pc
  BY DEF Effect
<1>5. CASE cmd[c].pc \in Held
  <2>1. Serial(c) => lock = c
    BY <1>5 DEF SerialInv
  <2>2. \/ cmd'[c].pc \in Held /\ lock' = lock
        \/ cmd'[c].pc = "done" /\ lock' = (IF lock = c THEN None ELSE lock)
    <3> USE <1>5, <1>1 DEF Held, Stages, Stops, Course
    <3>1. CASE Simple(c)
      BY <3>1 DEF Simple, SimpleArcs, Goes
    <3>2. CASE Returns(c) \/ Forgets(c) \/ Announces(c)
      BY <3>2 DEF Returns, Forgets, Announces, Ends
    <3>3. CASE Passes(c) \/ Restores(c)
      BY <3>3 DEF Passes, Restores, Follows, Goes, Ends
    <3>4. CASE Cancels(c) \/ Binds(c) \/ Expires(c) \/ Invalidates(c)
      BY <3>4 DEF Cancels, Binds, Expires, Invalidates, Goes, FirstStep, Supersedes
    <3>5. CASE Picks(c) \/ Deletes(c) \/ Checks(c) \/ Begins(c) \/ Connects(c) \/ Claims(c) \/ Drops(c)
      BY <3>5 DEF Picks, Deletes, Checks, Begins, Connects, Claims, Drops, Goes
    <3> QED BY <3>1, <3>2, <3>3, <3>4, <3>5 DEF Effect, Deed
  <2> QED BY <1>2, <1>3, <1>4, <1>5, <2>1, <2>2, NoneIsNoCommand DEF SerialInv, Held, Stages, Stops
<1>6. CASE cmd[c].pc \notin Held
  <2>1. lock # c
    BY <1>6, NoneIsNoCommand DEF SerialInv
  <2>2. /\ cmd[c].pc \in {"expire", "number", "cancel"}
        /\ lock' = lock /\ (cmd'[c].pc \in {"lock", "number", "cancel"} \/ ~ Serial(c))
    <3> USE <1>6, <1>1 DEF Held, Stages, Stops, Course
    <3>1. CASE Simple(c)
      BY <3>1 DEF Simple, SimpleArcs, Goes
    <3>2. CASE Returns(c) \/ Forgets(c) \/ Announces(c)
      BY <3>2 DEF Returns, Forgets, Announces, Ends
    <3>3. CASE Passes(c) \/ Restores(c)
      BY <3>3 DEF Passes, Restores, Follows, Goes, Ends
    <3>4. CASE Cancels(c) \/ Binds(c) \/ Expires(c) \/ Invalidates(c)
      BY <3>4 DEF Cancels, Binds, Expires, Invalidates, Goes, FirstStep, Supersedes, Serial, Unserialised
    <3>5. CASE Picks(c) \/ Deletes(c) \/ Checks(c) \/ Begins(c) \/ Connects(c) \/ Claims(c) \/ Drops(c)
      BY <3>5 DEF Picks, Deletes, Checks, Begins, Connects, Claims, Drops, Goes
    <3> QED BY <3>1, <3>2, <3>3, <3>4, <3>5 DEF Effect, Deed
  <2>3. Serial(c) => cmd[c].pc = "expire"
    BY <1>1, <2>2 DEF Course, Serial, Unserialised
  <2> QED BY <1>2, <1>3, <1>4, <1>6, <2>1, <2>2, <2>3, NoneIsNoCommand DEF SerialInv, Held, Stages, Stops
<1> QED BY <1>5, <1>6

LEMMA SerialStep == Types /\ CourseInv /\ SerialInv /\ [Next]_vars => SerialInv'
<1> SUFFICES ASSUME Types, CourseInv, SerialInv, [Next]_vars PROVE SerialInv'
  OBVIOUS
<1>1. ASSUME NEW c \in Commands, NEW kind \in Kinds, Submitted(c, kind) PROVE SerialInv'
  <2>1. kind \notin Unserialised => EntryPoint(kind) \notin Held
    BY KindsAssumption DEF EntryPoint, Unserialised, Preempting, Held, Stages, Stops
  <2>2. lock # c /\ lock' = lock
    BY <1>1, NoneIsNoCommand DEF Submitted, SerialInv, Held, Stages, Stops, control
  <2> QED BY <1>1, <2>1, <2>2 DEF Submitted, SerialInv, Serial
<1>2. ASSUME NEW c \in Commands, AcquireLock(c) PROVE SerialInv'
  <2>1. Serial(c)
    BY <1>2, AcquireEffect DEF CourseInv, Course, Serial
  <2>2. \A d \in Commands : d # c => ~ (Serial(d) /\ cmd[d].pc \in Held)
    BY <1>2, AcquireEffect, NoneIsNoCommand DEF SerialInv
  <2> QED BY <1>2, <2>1, <2>2, AcquireEffect DEF SerialInv, Serial, Held
<1>3. ASSUME NEW c \in Commands, Effect(c) PROVE SerialInv'
  BY <1>3, SerialRun
<1>4. ASSUME EndSwitch PROVE SerialInv'
  BY <1>4 DEF EndSwitch, SerialInv, Serial, control
<1>5. CASE UNCHANGED vars
  BY <1>5 DEF vars, SerialInv, Serial, control
<1> QED BY <1>1, <1>2, <1>3, <1>4, <1>5, Cases

-----------------------------------------------------------------------------
(* No claim by a start that has been overtaken, while nobody restarts.     *)

Early == Unconnected \ {"prepare", "start", "connect", "tunnel", "error", "fail"}

ClaimInv ==
  /\ \A c \in Commands : cmd[c].pc \in Early => ~ cmd[c].superseded
  /\ NoRestart =>
       \A c \in Commands : InFlight(c) =>
         /\ cmd[c].epoch <= slot.epoch
         /\ cmd[c].superseded => cmd[c].epoch < slot.epoch
  /\ ClaimIsCurrent

(* A step marks what is in flight when it invalidates the slot, and that   *)
(* only.                                                                   *)
LEMMA MarksInFlight ==
  ASSUME NEW c \in Commands, Effect(c)
  PROVE  /\ \A d \in Commands : d # c /\ ~ Supersedes(c) =>
              cmd'[d].superseded = cmd[d].superseded
         /\ \A d \in Commands : d # c /\ Supersedes(c) =>
              cmd'[d].superseded = (cmd[d].superseded \/ InFlight(d))
         /\ \A d \in Commands : cmd[d].superseded => cmd'[d].superseded
         /\ \A d \in Commands : ~ cmd[d].superseded /\ cmd'[d].superseded =>
              InFlight(d) /\ d # c
<1>1. \A d \in Commands : d # c =>
        \/ cmd'[d].superseded = cmd[d].superseded
        \/ Supersedes(c) /\ cmd'[d].superseded = (cmd[d].superseded \/ InFlight(d))
  BY DEF Effect, Deed, Simple, Returns, Cancels, Binds, Expires, Invalidates, Picks, Passes,
    Deletes, Restores, Checks, Begins, Connects, Claims, Forgets, Drops, Announces, Supersedes,
    Goes, Ends, Follows, Spares
<1> QED BY <1>1 DEF Effect, Supersedes

(* When nobody restarts, the starts are those of the mutex's holder.       *)
LEMMA StartsAreSerial ==
  ASSUME CourseInv, SerialInv, NoRestart, NEW c \in Commands, cmd[c].pc \in Stages
  PROVE  lock = c
BY DEF CourseInv, Course, SerialInv, Serial, NoRestart, Unserialised, Preempting, Held

LEMMA ClaimRun ==
  ASSUME Types, TunnelInv, CourseInv, SerialInv, ClaimInv, NEW c \in Commands, Effect(c)
  PROVE  ClaimInv'
<1>1. ASSUME NEW d \in Commands, cmd'[d].pc \in Early PROVE ~ cmd'[d].superseded
  <2>1. cmd'[c].pc \in Early => cmd[c].pc \in Early
    BY DEF Effect, Deed, Simple, SimpleArcs, Returns, Cancels, Binds, Expires, Invalidates, Picks, Passes,
      Deletes, Restores, Checks, Begins, Connects, Claims, Forgets, Drops, Announces,
      Goes, Ends, Follows, Early, Unconnected
  <2>2. cmd[d].pc \in Early
    BY <1>1, <2>1 DEF Effect
  <2> QED BY <2>2, MarksInFlight DEF ClaimInv, Early, Unconnected, InFlight
<1>2. ASSUME NoRestart', NEW d \in Commands, InFlight(d)'
      PROVE  /\ cmd'[d].epoch <= slot'.epoch
             /\ cmd'[d].superseded => cmd'[d].epoch < slot'.epoch
  <2>1. NoRestart /\ Course(cmd[c].pc, cmd[c].kind)
    BY <1>2, KindsKept DEF CourseInv
  <2>2. slot.epoch \in Nat /\ \A e \in Commands : cmd[e].epoch \in Nat
    BY DEF Types, Slots, Records, Record
  <2>3. CASE InFlight(d) /\ cmd'[d].epoch = cmd[d].epoch
    <3>1. CASE Supersedes(c)
      BY <2>1, <2>2, <2>3, <3>1 DEF ClaimInv, Supersedes
    <3>2. CASE ~ Supersedes(c) /\ slot'.epoch = slot.epoch
      BY <2>1, <2>2, <2>3, <3>2, MarksInFlight DEF ClaimInv, Effect
    <3>3. CASE Forgets(c) \/ Drops(c)
      <4>1. lock = c /\ lock = d /\ d # c
        BY <2>1, <2>3, <3>3, StartsAreSerial DEF Forgets, Drops, Stages, InFlight
      <4> QED BY <4>1
    <3>4. \/ slot'.epoch = slot.epoch \/ Supersedes(c) \/ Forgets(c) \/ Drops(c)
      BY DEF Effect, Deed, Simple, SimpleArcs, Returns, Cancels, Binds, Expires, Invalidates, Picks, Passes,
        Deletes, Restores, Checks, Begins, Connects, Claims, Announces, SameEpoch, Frame
    <3> QED BY <3>1, <3>2, <3>3, <3>4
  <2>4. CASE d = c /\ Begins(c)
    BY <2>2, <2>4 DEF ClaimInv, Early, Unconnected, Begins, Effect, Frame, SameEpoch
  <2>5. CASE d # c
    BY <1>2, <2>3, <2>5 DEF Effect, InFlight
  <2>6. CASE d = c /\ ~ Begins(c)
    <3>1. InFlight(c) /\ cmd'[c].epoch = cmd[c].epoch
      BY <1>2, <2>6 DEF Effect, Deed, Simple, SimpleArcs, Returns, Cancels, Binds, Expires, Invalidates, Picks, Passes,
        Deletes, Restores, Checks, Connects, Claims, Forgets, Drops, Announces,
        Goes, Ends, Follows, FirstStep, InFlight
    <3> QED BY <2>3, <2>6, <3>1
  <2> QED BY <2>4, <2>5, <2>6
<1>3. ASSUME NoRestart', slot'.inst # None PROVE ~ cmd'[slot'.inst].superseded
  <2>1. NoRestart
    BY <1>3, KindsKept
  <2>2. CASE Claims(c)
    <3>1. ~ cmd[c].superseded
      BY <2>1, <2>2 DEF ClaimInv, Claims, InFlight, Types, Slots
    <3> QED BY <2>2, <3>1 DEF Claims, Effect
  <2>3. CASE ~ Claims(c)
    <3>1. slot'.inst = slot.inst
      BY <1>3, <2>3 DEF Effect, Deed, Simple, SimpleArcs, Returns, Cancels, Binds, Expires, Invalidates, Picks, Passes,
        Deletes, Restores, Checks, Begins, Connects, Forgets, Drops, Announces, SameEpoch, Frame, Clears, Supersedes
    <3>2. slot.inst \in Commands /\ ~ InFlight(slot.inst) /\ ~ cmd[slot.inst].superseded
      BY <1>3, <2>1, <3>1 DEF Types, Slots, TunnelInv, Owned, InFlight, ClaimInv, ClaimIsCurrent, NoStaleClaim
    <3> QED BY <3>1, <3>2, MarksInFlight
  <2> QED BY <2>2, <2>3
<1> QED BY <1>1, <1>2, <1>3 DEF ClaimInv, ClaimIsCurrent, NoStaleClaim

(* A submission restarts, or leaves the kinds of all other commands alone. *)
LEMMA SubmittedKinds ==
  ASSUME CourseInv, NEW c \in Commands, NEW kind \in Kinds, Submitted(c, kind)
  PROVE  /\ NoRestart' => NoRestart
         /\ \A d \in Commands : d # c => cmd'[d] = cmd[d] /\ InFlight(d)' = InFlight(d)
         /\ Serial(c) /\ cmd[c].kind = "enable"
         /\ cmd'[c].pc \in {"expire", "invalidate", "number", "lock"}
         /\ ~ InFlight(c) /\ ~ InFlight(c)'
BY DEF Submitted, EntryPoint, CourseInv, Course, Serial, Unserialised, Preempting, NoRestart, InFlight

LEMMA ClaimStep ==
  Types /\ TunnelInv /\ CourseInv /\ SerialInv /\ ClaimInv /\ [Next]_vars => ClaimInv'
<1> SUFFICES ASSUME Types, TunnelInv, CourseInv, SerialInv, ClaimInv, [Next]_vars PROVE ClaimInv'
  OBVIOUS
<1>0. slot.inst # None => slot.inst \in Commands /\ cmd[slot.inst].pc \in Owned
  BY DEF Types, Slots, TunnelInv
<1>1. ASSUME NEW c \in Commands, NEW kind \in Kinds, Submitted(c, kind) PROVE ClaimInv'
  <2>1. cmd[c].pc = "unused" /\ slot' = slot /\ cmd'[c].superseded = cmd[c].superseded
    BY <1>1 DEF Submitted
  <2>2. slot.inst # c
    BY <1>0, <2>1, NoneIsNoCommand DEF Owned
  <2> QED BY <1>0, <1>1, <2>1, <2>2, SubmittedKinds DEF ClaimInv, ClaimIsCurrent, NoStaleClaim, Early, Unconnected
<1>2. ASSUME NEW c \in Commands, AcquireLock(c) PROVE ClaimInv'
  <2>1. /\ cmd[c].pc = "lock" /\ slot' = slot /\ cmd'[c].superseded = cmd[c].superseded
        /\ cmd'[c].kind = cmd[c].kind /\ cmd'[c].pc = "admit"
        /\ \A d \in Commands : d # c => cmd'[d] = cmd[d]
    BY <1>2, AcquireEffect
  <2>2. slot.inst # c
    BY <1>0, <2>1, NoneIsNoCommand DEF Owned
  <2>3. NoRestart' <=> NoRestart
    BY <2>1 DEF NoRestart
  <2> QED BY <1>0, <2>1, <2>2, <2>3 DEF ClaimInv, ClaimIsCurrent, NoStaleClaim, Early, Unconnected, InFlight
<1>3. ASSUME NEW c \in Commands, Effect(c) PROVE ClaimInv'
  BY <1>3, ClaimRun
<1>4. CASE UNCHANGED <<slot, cmd>>
  BY <1>4 DEF ClaimInv, ClaimIsCurrent, NoStaleClaim, NoRestart, InFlight
<1> QED BY <1>1, <1>2, <1>3, <1>4, Cases DEF EndSwitch, vars

-----------------------------------------------------------------------------
(* The order of the switches.                                              *)

SwitchKinds == {"switchBegin", "switchEnd"}
Switching(c) == cmd[c].kind \in SwitchKinds /\ Running(c)

(* Commands are submitted in order; one switch runs at a time, while the   *)
(* device is marked; an end that runs is the end of the latest switch.     *)
OrderInv ==
  /\ switching \in BOOLEAN
  /\ \A c, d \in Commands : c < d /\ At(c, "unused") => At(d, "unused")
  /\ ~ switching => \A c \in Commands : ~ Switching(c)
  /\ \A c, d \in Commands : Switching(c) /\ Switching(d) => c = d
  /\ \A e \in Commands : cmd[e].kind = "switchEnd" /\ Running(e) =>
       \A b \in Commands : b > e => cmd[b].kind # "switchBegin"

LEMMA RunsOn ==
  ASSUME Types, CourseInv, NEW c \in Commands, Effect(c)
  PROVE  Running(c) /\ cmd'[c].pc # "unused"
BY DEF Effect, Deed, Simple, SimpleArcs, Returns, Cancels, Binds, Expires, Invalidates, Picks, Passes,
  Deletes, Restores, Checks, Begins, Connects, Claims, Forgets, Drops, Announces,
  Goes, Ends, Follows, FirstStep, Running

LEMMA OrderStep == Types /\ CourseInv /\ OrderInv /\ [Next]_vars => OrderInv'
<1> SUFFICES ASSUME Types, CourseInv, OrderInv, [Next]_vars PROVE OrderInv'
  OBVIOUS
<1>0. \A c \in Commands : c \in Nat /\ c >= 1
  BY DEF Commands
<1>1. ASSUME NEW c \in Commands, NEW kind \in Kinds, Submitted(c, kind) PROVE OrderInv'
  <2>1. /\ cmd[c].pc = "unused" /\ cmd'[c].pc # "unused" /\ cmd'[c].kind = kind
        /\ switching' = (switching \/ kind = "switchBegin")
        /\ \A d \in Commands : d # c => cmd'[d] = cmd[d]
    BY <1>1, SubmittedKinds DEF Submitted
  <2>2. \A d \in Commands : (d < c => ~ At(d, "unused")) /\ (d > c => At(d, "unused"))
    BY <1>0, <1>1, <2>1 DEF Submitted, OrderInv, At
  <2>3. (\A d, e \in Commands : d < e /\ At(d, "unused") => At(e, "unused"))'
    <3> SUFFICES ASSUME NEW d \in Commands, NEW e \in Commands, d < e, cmd'[d].pc = "unused"
                 PROVE  cmd'[e].pc = "unused"
      BY DEF At
    <3>1. d # c /\ At(d, "unused") /\ At(e, "unused")
      BY <2>1 DEF OrderInv, At
    <3>2. e # c
      BY <3>1, <2>2
    <3> QED BY <2>1, <3>1, <3>2 DEF At
  <2>4. \A d \in Commands : d > c => cmd'[d].kind = "enable"
    BY <2>1, <2>2 DEF CourseInv, Course, At
  <2>5. kind \in SwitchKinds => \A d \in Commands : ~ Switching(d)
    BY <1>1 DEF Submitted, SwitchKinds, OrderInv, SwitchBegun, Switching, Running
  <2>6. \A d \in Commands : d # c => Switching(d)' = Switching(d)
    BY <2>1 DEF Switching, Running
  <2>7. Switching(c)' => kind \in SwitchKinds
    BY <2>1 DEF Switching
  <2>8. /\ (~ switching => \A d \in Commands : ~ Switching(d))'
        /\ (\A d, e \in Commands : Switching(d) /\ Switching(e) => d = e)'
    <3>1. kind \in SwitchKinds => switching'
      BY <1>1, <2>1 DEF Submitted, SwitchKinds, SwitchBegun
    <3> QED BY <2>1, <2>5, <2>6, <2>7, <3>1 DEF OrderInv
  <2>9. (\A e \in Commands : cmd[e].kind = "switchEnd" /\ Running(e) =>
           \A b \in Commands : b > e => cmd[b].kind # "switchBegin")'
    <3> SUFFICES ASSUME NEW e \in Commands, cmd'[e].kind = "switchEnd", Running(e)',
                        NEW b \in Commands, b > e
                 PROVE  cmd'[b].kind # "switchBegin"
      OBVIOUS
    <3>1. CASE e = c
      BY <2>4, <3>1
    <3>2. CASE e # c
      <4>1. Switching(e) /\ kind # "switchBegin"
        BY <2>1, <2>5, <3>2 DEF Switching, SwitchKinds, Running
      <4>2. cmd[e].kind = "switchEnd" /\ Running(e) /\ cmd[b].kind # "switchBegin"
        BY <2>1, <3>2 DEF OrderInv, Running
      <4> QED BY <2>1, <4>1, <4>2
    <3> QED BY <3>1, <3>2
  <2> QED BY <2>1, <2>3, <2>8, <2>9 DEF OrderInv
<1>2. ASSUME NEW c \in Commands, AcquireLock(c) PROVE OrderInv'
  <2>1. /\ \A d \in Commands : At(d, "unused")' = At(d, "unused") /\ Running(d)' = Running(d)
                               /\ cmd'[d].kind = cmd[d].kind /\ Switching(d)' = Switching(d)
        /\ switching' = switching
    BY <1>2, AcquireEffect DEF At, Running, Switching
  <2> QED BY <2>1 DEF OrderInv
<1>3. ASSUME NEW c \in Commands, Effect(c) PROVE OrderInv'
  <2>1. /\ \A d \in Commands : At(d, "unused")' = At(d, "unused") /\ (Running(d)' => Running(d))
        /\ switching' = switching
    BY <1>3, RunsOn DEF At, Running, Effect
  <2>2. \A d \in Commands : \A k \in SwitchKinds : cmd'[d].kind = k <=> cmd[d].kind = k
    BY <1>3, KindsKept DEF SwitchKinds, Unserialised, Preempting
  <2>3. \A d \in Commands : Switching(d)' => Switching(d)
    BY <2>1, <2>2 DEF Switching
  <2> QED BY <2>1, <2>2, <2>3 DEF OrderInv, SwitchKinds
<1>4. ASSUME EndSwitch PROVE OrderInv'
  <2>1. UNCHANGED cmd /\ switching' = FALSE /\ \A d \in Commands : ~ Switching(d)
    BY <1>4 DEF EndSwitch, SwitchBegun, Switching, SwitchKinds, Running
  <2> QED BY <2>1 DEF OrderInv, At, Running, Switching
<1>5. CASE UNCHANGED vars
  BY <1>5 DEF vars, radio, OrderInv, At, Running, Switching
<1> QED BY <1>1, <1>2, <1>3, <1>4, <1>5, Cases

-----------------------------------------------------------------------------
(* Whom a switch reaches.                                                  *)

NoSwitchAt(P) == \A b \in Commands : cmd[b].kind = "switchBegin" => cmd[b].pc \notin P

(* A switch is on and has cancelled the run it found.                      *)
Cancelled == switching /\ NoSwitchAt({"number", "cancel"})

Escapes(c) == c \in escaped \/ cmd[c].cancelled

Bound == Held \ {"admit", "bind"}

(* Until a switch cancels it, a bound run is one that runCancel names, or  *)
(* has escaped an earlier switch.                                          *)
ReachInv ==
  NoRestart =>
    \/ Cancelled
    \/ \A c \in Commands : Serial(c) /\ cmd[c].pc \in Bound => runCancel = c \/ Escapes(c)

(* What the steps of a command do to the places of the switches.           *)
LEMMA SwitchPlaces ==
  ASSUME Types, CourseInv, OrderInv, NoRestart, NEW c \in Commands, Effect(c)
  PROVE  /\ Cancelled => Cancelled'
         /\ Cancelled' => Cancelled \/ Cancels(c)
         /\ Cancels(c) => Cancelled' /\ ~ Cancelled /\ cmd[c].kind = "switchBegin"
         /\ Restoring' <=> Restoring
<1>1. Course(cmd[c].pc, cmd[c].kind) /\ cmd[c].kind # "restart"
  BY DEF CourseInv, NoRestart
<1>2. \A d \in Commands : \A k \in SwitchKinds : cmd'[d].kind = k <=> cmd[d].kind = k
  BY KindsKept DEF SwitchKinds, Unserialised, Preempting
<1>3. switching' = switching /\ \A d \in Commands : d # c => cmd'[d].pc = cmd[d].pc
  BY DEF Effect
<1>4. /\ cmd'[c].pc \in {"number", "cancel"} => cmd[c].pc \in {"expire", "number"}
      /\ cmd[c].pc \in {"number", "cancel"} => cmd'[c].pc \in {"number", "cancel"} \/ Cancels(c)
  BY <1>1 DEF Effect, Deed, Simple, SimpleArcs, Returns, Binds, Expires, Invalidates, Picks, Passes,
    Deletes, Restores, Checks, Begins, Connects, Claims, Forgets, Drops, Announces, Cancels,
    Goes, Ends, Follows, FirstStep
<1>5. Cancelled => Cancelled'
  BY <1>1, <1>2, <1>3, <1>4 DEF Cancelled, NoSwitchAt, SwitchKinds, Course
<1>6. Cancelled' => Cancelled \/ Cancels(c)
  BY <1>1, <1>2, <1>3, <1>4 DEF Cancelled, NoSwitchAt, SwitchKinds, Course
<1>7. ASSUME Cancels(c) PROVE Cancelled' /\ ~ Cancelled /\ cmd[c].kind = "switchBegin"
  <2>1. cmd[c].kind = "switchBegin" /\ cmd[c].pc = "cancel" /\ cmd'[c].pc = "bind"
    BY <1>1, <1>7 DEF Cancels, Course, Preempting
  <2>2. Switching(c) /\ switching
    BY <2>1 DEF Switching, SwitchKinds, Running, OrderInv
  <2>3. \A b \in Commands : cmd[b].kind = "switchBegin" /\ b # c => cmd[b].pc \notin {"number", "cancel"}
    BY <2>2 DEF OrderInv, Switching, SwitchKinds, Running
  <2> QED BY <1>2, <1>3, <2>1, <2>2, <2>3 DEF Cancelled, NoSwitchAt, SwitchKinds
<1> QED BY <1>2, <1>5, <1>6, <1>7 DEF Restoring, SwitchKinds

LEMMA ReachRun ==
  ASSUME Types, CourseInv, SerialInv, OrderInv, ReachInv, NEW c \in Commands, Effect(c),
         UNCHANGED escaped
  PROVE  ReachInv'
<1> SUFFICES ASSUME NoRestart', ~ Cancelled',
                    NEW d \in Commands, Serial(d)', cmd'[d].pc \in Bound
             PROVE  runCancel' = d \/ Escapes(d)'
  BY DEF ReachInv
<1>1. NoRestart /\ Course(cmd[c].pc, cmd[c].kind) /\ cmd[c].kind # "restart"
  BY KindsKept DEF CourseInv, NoRestart
<1>2. ~ Cancelled /\ ~ Cancels(c)
  BY <1>1, SwitchPlaces
<1>3. \A e \in Commands : Serial(e) /\ cmd[e].pc \in Bound => runCancel = e \/ Escapes(e)
  BY <1>1, <1>2 DEF ReachInv
<1>4. Serial(d)
  BY KindsKept
<1>5. CASE Binds(c)
  <2>1. Serial(c)
    <3>1. cmd[c].pc = "bind" /\ (cmd[c].kind = "switchBegin" => Cancelled)
      <4>1. cmd[c].kind = "switchBegin" /\ cmd[c].pc = "bind" => Switching(c)
        BY DEF Switching, SwitchKinds, Running
      <4>2. Switching(c) => switching /\ \A b \in Commands : Switching(b) => b = c
        BY DEF OrderInv
      <4>3. \A b \in Commands : cmd[b].kind = "switchBegin" /\ cmd[b].pc \in {"number", "cancel"} => Switching(b)
        BY DEF Switching, SwitchKinds, Running
      <4> QED BY <1>5, <4>1, <4>2, <4>3 DEF Binds, Cancelled, NoSwitchAt
    <3> QED BY <1>1, <1>2, <3>1 DEF Course, Serial, Unserialised, Preempting
  <2>2. lock = c
    BY <1>5, <2>1 DEF SerialInv, Binds, Held
  <2>3. d = c
    BY <1>4, <2>2 DEF SerialInv, Bound, Effect
  <2> QED BY <1>5, <2>3 DEF Binds
<1>6. CASE ~ Binds(c)
  <2>1. runCancel' = runCancel \/ (runCancel = c /\ cmd'[c].pc = "done")
    BY <1>2, <1>6 DEF Effect, Deed, Simple, Returns, Expires, Invalidates, Picks, Passes,
      Deletes, Restores, Checks, Begins, Connects, Claims, Forgets, Drops, Announces,
      Goes, Ends, Follows, Frame, Supersedes
  <2>2. cmd'[c].pc \in Bound => cmd[c].pc \in Bound /\ cmd'[c].cancelled = cmd[c].cancelled
    BY <1>1, <1>2, <1>6 DEF Effect, Deed, Simple, SimpleArcs, Returns, Expires, Invalidates, Picks, Passes,
      Deletes, Restores, Checks, Begins, Connects, Claims, Forgets, Drops, Announces,
      Goes, Ends, Follows, Supersedes, Bound, Held, Stages, Stops, Course
  <2>3. d # c => cmd'[d].cancelled = cmd[d].cancelled
    BY <1>2, <1>6 DEF Effect, Deed, Simple, Returns, Expires, Invalidates, Picks, Passes,
      Deletes, Restores, Checks, Begins, Connects, Claims, Forgets, Drops, Announces,
      Goes, Ends, Follows, Frame, Supersedes, Spares
  <2>4. cmd[d].pc \in Bound /\ cmd'[d].pc # "done" /\ cmd'[d].cancelled = cmd[d].cancelled
    BY <2>2, <2>3 DEF Effect, Bound, Held, Stages, Stops
  <2> QED BY <1>3, <1>4, <2>1, <2>4 DEF Escapes
<1> QED BY <1>5, <1>6

LEMMA SubmittedSwitches ==
  ASSUME CourseInv, OrderInv, NEW c \in Commands, NEW kind \in Kinds, Submitted(c, kind)
  PROVE  /\ kind # "switchBegin" => (Cancelled' <=> Cancelled) /\ (Restoring => Restoring')
         /\ kind = "switchBegin" => ~ Cancelled' /\ ~ Cancelled
         /\ kind # "switchBegin" => \A P \in SUBSET Held : NoSwitchAt(P)' = NoSwitchAt(P)
<1>1. cmd[c].kind = "enable" /\ \A d \in Commands : d # c => cmd'[d] = cmd[d]
  BY SubmittedKinds
<1>2. /\ cmd'[c].kind = kind /\ cmd'[c].pc = EntryPoint(kind)
      /\ switching' = (switching \/ kind = "switchBegin")
      /\ kind = "switchBegin" => ~ switching
  BY DEF Submitted
<1>3. CASE kind = "switchBegin"
  BY <1>1, <1>2, <1>3 DEF EntryPoint, Cancelled, NoSwitchAt
<1>4. CASE kind # "switchBegin"
  <2>1. \A P : NoSwitchAt(P)' <=> NoSwitchAt(P)
    BY <1>1, <1>2, <1>4 DEF NoSwitchAt
  <2>2. Restoring => Restoring'
    BY <1>1, <1>2, <1>4 DEF Restoring
  <2> QED BY <1>2, <1>4, <2>1, <2>2 DEF Cancelled, NoSwitchAt
<1> QED BY <1>3, <1>4

LEMMA ReachStep ==
  Types /\ CourseInv /\ SerialInv /\ OrderInv /\ ReachInv /\ [Next]_vars => ReachInv'
<1> SUFFICES ASSUME Types, CourseInv, SerialInv, OrderInv, ReachInv, [Next]_vars PROVE ReachInv'
  OBVIOUS
<1>1. ASSUME NEW c \in Commands, NEW kind \in Kinds, Submitted(c, kind) PROVE ReachInv'
  <2> SUFFICES ASSUME NoRestart', ~ Cancelled',
                      NEW d \in Commands, Serial(d)', cmd'[d].pc \in Bound
               PROVE  runCancel' = d \/ Escapes(d)'
    BY DEF ReachInv
  <2>1. NoRestart /\ ~ Cancelled
    BY <1>1, SubmittedKinds, SubmittedSwitches
  <2>2. d # c
    BY <1>1 DEF Submitted, EntryPoint, Bound, Held, Stages, Stops, Serial, Unserialised
  <2>3. cmd'[d] = cmd[d] /\ runCancel' = runCancel /\ escaped' = escaped
    BY <1>1, <2>2 DEF Submitted, control
  <2> QED BY <2>1, <2>3 DEF ReachInv, Serial, Escapes
<1>2. ASSUME NEW c \in Commands, AcquireLock(c), UNCHANGED escaped PROVE ReachInv'
  <2>1. /\ cmd'[c].pc = "admit" /\ cmd'[c].kind = cmd[c].kind /\ cmd[c].pc = "lock"
        /\ \A d \in Commands : d # c => cmd'[d] = cmd[d]
        /\ runCancel' = runCancel /\ switching' = switching
    BY <1>2, AcquireEffect
  <2>2. (NoRestart' <=> NoRestart) /\ (Cancelled' <=> Cancelled)
    BY <2>1 DEF NoRestart, Cancelled, NoSwitchAt
  <2> QED BY <1>2, <2>1, <2>2 DEF ReachInv, Serial, Escapes, Bound
<1>3. ASSUME NEW c \in Commands, Effect(c), UNCHANGED escaped PROVE ReachInv'
  BY <1>3, ReachRun
<1>4. ASSUME EndSwitch PROVE ReachInv'
  <2> SUFFICES ASSUME NoRestart', NEW c \in Commands, Serial(c)', cmd'[c].pc \in Bound
               PROVE  runCancel' = c \/ Escapes(c)'
    BY DEF ReachInv
  <2>1. /\ UNCHANGED <<cmd, runCancel, lock>>
        /\ escaped' = escaped \cup {d \in Commands : Uncancellable(d)}
    BY <1>4 DEF EndSwitch, control
  <2>2. lock = c /\ cmd[c].pc \in Bound
    BY <2>1 DEF SerialInv, Serial, Bound
  <2>3. runCancel = c \/ cmd[c].cancelled \/ Uncancellable(c)
    BY <2>2 DEF Uncancellable, At, Bound
  <2> QED BY <2>1, <2>3 DEF Escapes
<1>5. CASE UNCHANGED vars
  BY <1>5 DEF vars, control, radio, ReachInv, NoRestart, Cancelled, NoSwitchAt, Serial, Escapes
<1> QED BY <1>1, <1>2, <1>3, <1>4, <1>5, Cases

-----------------------------------------------------------------------------
(* What is left to start once a switch has cancelled what it found.        *)

QuietInv ==
  NoRestart /\ Cancelled /\ ~ Restoring =>
    /\ \A c \in Commands : cmd[c].pc \in {"begin", "prepare", "start", "connect"} => Escapes(c)
    /\ NoSwitchAt({"bind", "invalidate"}) =>
         \A c \in Commands : cmd[c].pc \in {"tunnel", "claim"} =>
           c \in escaped \/ cmd[c].superseded
    /\ \A b \in Commands : cmd[b].kind = "switchBegin" /\ cmd[b].pc \in Stopping =>
         slot.inst \in {None, cmd[b].victim} \cup escaped
    /\ NoSwitchAt({"bind", "invalidate", "teardown"} \cup Stopping) =>
         slot.inst \in {None} \cup escaped

(* A claim is one by a run that has escaped, unless a switch has yet to    *)
(* invalidate the slot.                                                    *)
LEMMA LateClaim ==
  ASSUME ClaimInv, QuietInv, NoRestart, Cancelled, ~ Restoring,
         NoSwitchAt({"bind", "invalidate"}), Types, NEW c \in Commands, Claims(c)
  PROVE  c \in escaped
<1>1. cmd[c].pc = "claim" /\ cmd[c].epoch = slot.epoch /\ slot.epoch \in Nat
  BY DEF Claims, Types, Slots
<1>2. ~ cmd[c].superseded
  BY <1>1 DEF ClaimInv, InFlight
<1> QED BY <1>1, <1>2 DEF QuietInv

LEMMA QuietRun ==
  ASSUME Types, CourseInv, SerialInv, ClaimInv, OrderInv, ReachInv, QuietInv,
         NEW c \in Commands, Effect(c), UNCHANGED escaped
  PROVE  QuietInv'
<1> SUFFICES ASSUME NoRestart', Cancelled', ~ Restoring'
             PROVE  QuietInv'
  BY DEF QuietInv
<1>0. Course(cmd[c].pc, cmd[c].kind)
  BY DEF CourseInv
<1>1. NoRestart /\ ~ Restoring /\ (Cancelled \/ Cancels(c))
  BY KindsKept, SwitchPlaces
<1>2. /\ \A d \in Commands : cmd'[d].kind = "switchBegin" <=> cmd[d].kind = "switchBegin"
      /\ \A d \in Commands : d # c => cmd'[d].pc = cmd[d].pc /\ cmd'[d].victim = cmd[d].victim
      /\ switching' = switching
  BY KindsKept DEF Effect, Unserialised, Preempting
<1>3. \A b, d \in Commands :
        /\ cmd[b].kind = "switchBegin" /\ cmd[b].pc \in Held
        /\ cmd[d].kind = "switchBegin" /\ cmd[d].pc \in Held \cup {"number", "cancel"}
        => b = d
  <2>1. \A b \in Commands : cmd[b].kind = "switchBegin" /\ cmd[b].pc \in Held \cup {"number", "cancel"}
           => Switching(b)
    BY DEF Switching, SwitchKinds, Running, Held, Stages, Stops
  <2>2. \A b, d \in Commands : Switching(b) /\ Switching(d) => b = d
    BY DEF OrderInv
  <2> QED BY <2>1, <2>2
<1>4. CASE Cancels(c)
  <2>1. cmd[c].kind = "switchBegin" /\ cmd'[c].pc = "bind" /\ cmd[c].pc = "cancel"
    BY <1>1, <1>4, SwitchPlaces DEF Cancels
  <2>2. \A b \in Commands : cmd[b].kind = "switchBegin" /\ cmd[b].pc \in Stopping => FALSE
    BY <1>3, <2>1 DEF Held, Stops, Stopping
  <2>3. ~ NoSwitchAt({"bind", "invalidate"})' /\ ~ NoSwitchAt({"bind", "invalidate", "teardown"} \cup Stopping)'
    BY <1>2, <2>1 DEF NoSwitchAt
  <2>4. ASSUME NEW d \in Commands, cmd'[d].pc \in {"begin", "prepare", "start", "connect"}
        PROVE  Escapes(d)'
    <3>1. d # c /\ cmd[d].pc \in {"begin", "prepare", "start", "connect"}
      BY <1>2, <2>1, <2>4
    <3>2. Serial(d)
      BY <1>1, <3>1 DEF CourseInv, Course, Stages, Serial, Unserialised, Preempting, NoRestart
    <3>3. runCancel = d \/ Escapes(d)
      <4>1. ~ Cancelled
        BY <1>1, <1>4, SwitchPlaces
      <4> QED BY <1>1, <3>1, <3>2, <4>1 DEF ReachInv, Bound, Held, Stages
    <3> QED BY <1>4, <3>1, <3>3 DEF Cancels, Escapes
  <2>5. ASSUME NEW b \in Commands, cmd'[b].kind = "switchBegin", cmd'[b].pc \in Stopping
        PROVE  FALSE
    BY <1>2, <2>1, <2>2, <2>5 DEF Stopping
  <2> QED BY <2>3, <2>4, <2>5 DEF QuietInv
<1>5. CASE Cancelled /\ ~ Cancels(c)
  <2>0. switching /\ cmd[c].kind # "restart"
    BY <1>1, <1>5 DEF Cancelled, NoRestart
  <2>1. ASSUME NEW d \in Commands, cmd'[d].pc \in {"begin", "prepare", "start", "connect"}
        PROVE  Escapes(d)'
    <3>1. /\ cmd'[c].pc \in {"begin", "prepare", "start", "connect"} =>
               \/ cmd[c].pc \in {"begin", "prepare", "start", "connect"}
               \/ Checks(c)
          /\ \A e \in Commands : cmd[e].cancelled /\ (e = c => cmd'[c].pc \in {"begin", "prepare", "start", "connect"})
               => cmd'[e].cancelled
      <4>1. cmd'[c].pc \in {"begin", "prepare", "start", "connect"} =>
              /\ cmd[c].pc \in {"begin", "prepare", "start", "connect"} \/ Checks(c)
              /\ cmd'[c].cancelled = cmd[c].cancelled
        <5>1. CASE Simple(c)
          BY <5>1 DEF Simple, SimpleArcs, Goes
        <5>2. CASE Begins(c) \/ Checks(c)
          BY <5>2 DEF Begins, Checks, Goes
        <5>3. CASE Passes(c) \/ Restores(c)
          BY <5>3 DEF Passes, Restores, Follows, Goes, Ends
        <5>4. CASE Binds(c) \/ Expires(c) \/ Invalidates(c) \/ Picks(c) \/ Deletes(c)
          BY <5>4 DEF Binds, Expires, Invalidates, Picks, Deletes, Goes, FirstStep
        <5>5. CASE Returns(c) \/ Connects(c) \/ Claims(c) \/ Forgets(c) \/ Drops(c) \/ Announces(c)
          BY <5>5 DEF Returns, Connects, Claims, Forgets, Drops, Announces, Goes, Ends
        <5> QED BY <1>5, <5>1, <5>2, <5>3, <5>4, <5>5 DEF Effect, Deed
      <4>2. \A e \in Commands : e # c => cmd'[e].cancelled = cmd[e].cancelled
        BY <1>5 DEF Effect, Deed, Simple, Returns, Binds, Expires, Invalidates, Picks, Passes,
          Deletes, Restores, Begins, Connects, Checks, Claims, Forgets, Drops, Announces,
          Goes, Ends, Follows, Supersedes, Spares
      <4> QED BY <4>1, <4>2
    <3>2. ~ Checks(c)
      <4> SUFFICES ASSUME Checks(c) PROVE FALSE
        OBVIOUS
      <4>1. cmd[c].kind = "switchEnd" /\ Running(c)
        BY <2>0 DEF Checks, Running
      <4>2. Restoring
        BY <4>1 DEF OrderInv, Restoring
      <4> QED BY <1>1, <4>2
    <3>3. cmd[d].pc \in {"begin", "prepare", "start", "connect"}
      BY <1>2, <2>1, <3>1, <3>2
    <3>4. Escapes(d)
      BY <1>1, <1>5, <3>3 DEF QuietInv
    <3> QED BY <2>1, <3>1, <3>4 DEF Escapes
  <2>2. ASSUME NoSwitchAt({"bind", "invalidate"})',
               NEW d \in Commands, cmd'[d].pc \in {"tunnel", "claim"}
        PROVE  d \in escaped \/ cmd'[d].superseded
    <3>1. \A e \in Commands : cmd[e].superseded => cmd'[e].superseded
      BY MarksInFlight
    <3>2. CASE Connects(c) /\ d = c
      BY <1>1, <1>5, <3>2 DEF Connects, QuietInv, Escapes
    <3>3. CASE ~ (Connects(c) /\ d = c)
      <4>1. cmd[d].pc \in {"tunnel", "claim"}
        BY <1>2, <1>5, <2>2, <3>3 DEF Effect, Deed, Simple, SimpleArcs, Returns, Binds, Expires, Invalidates, Picks, Passes,
          Deletes, Restores, Begins, Checks, Claims, Forgets, Drops, Announces, Goes, Ends, Follows, FirstStep
      <4>2. CASE NoSwitchAt({"bind", "invalidate"})
        BY <1>1, <1>5, <3>1, <4>1, <4>2 DEF QuietInv
      <4>3. CASE ~ NoSwitchAt({"bind", "invalidate"})
        <5>1. PICK b \in Commands : cmd[b].kind = "switchBegin" /\ cmd[b].pc \in {"bind", "invalidate"}
          BY <4>3 DEF NoSwitchAt
        <5>2. b = c
          BY <1>2, <2>2, <5>1 DEF NoSwitchAt
        <5>3. cmd'[c].pc \notin {"bind", "invalidate"}
          BY <1>2, <2>2, <5>1, <5>2 DEF NoSwitchAt
        <5>4. Invalidates(c)
          BY <1>5, <5>1, <5>2, <5>3 DEF Effect, Deed, Simple, SimpleArcs, Returns, Binds, Expires, Picks, Passes,
            Deletes, Restores, Begins, Checks, Claims, Connects, Forgets, Drops, Announces, Goes, FirstStep
        <5>5. d # c /\ InFlight(d)
          BY <4>1, <5>1, <5>2 DEF InFlight
        <5> QED BY <5>4, <5>5 DEF Invalidates, Supersedes
      <4> QED BY <4>2, <4>3
    <3> QED BY <3>2, <3>3
  <2>3. \/ slot'.inst = slot.inst
        \/ Claims(c) /\ slot'.inst = c
        \/ Deletes(c) /\ slot'.inst \in {None, slot.inst}
    BY <1>5 DEF Effect, Deed, Simple, Returns, Binds, Expires, Invalidates, Picks, Passes,
      Deletes, Restores, Begins, Connects, Checks, Claims, Forgets, Drops, Announces,
      SameEpoch, Frame, Clears, Supersedes
  <2>4. ASSUME NEW b \in Commands, cmd'[b].kind = "switchBegin", cmd'[b].pc \in Stopping
        PROVE  slot'.inst \in {None, cmd'[b].victim} \cup escaped
    <3>1. CASE b = c /\ Picks(c)
      BY <3>1 DEF Picks, Frame, SameEpoch
    <3>2. CASE ~ (b = c /\ Picks(c))
      <4>1. cmd[b].kind = "switchBegin" /\ cmd[b].pc \in Stopping /\ cmd'[b].victim = cmd[b].victim
        BY <1>2, <1>5, <2>4, <3>2 DEF Effect, Deed, Simple, SimpleArcs, Returns, Binds, Expires, Invalidates, Picks, Passes,
          Deletes, Restores, Begins, Checks, Claims, Connects, Forgets, Drops, Announces, Goes, Ends, Follows, FirstStep, Stopping
      <4>2. slot.inst \in {None, cmd[b].victim} \cup escaped
        BY <1>1, <1>5, <4>1 DEF QuietInv
      <4>3. NoSwitchAt({"bind", "invalidate"})
        BY <1>3, <4>1 DEF NoSwitchAt, Held, Stops, Stopping
      <4> QED BY <1>1, <1>5, <2>3, <4>1, <4>2, <4>3, LateClaim
    <3> QED BY <3>1, <3>2
  <2>5. ASSUME NoSwitchAt({"bind", "invalidate", "teardown"} \cup Stopping)'
        PROVE  slot'.inst \in {None} \cup escaped
    <3>1. CASE NoSwitchAt({"bind", "invalidate", "teardown"} \cup Stopping)
      <4>1. NoSwitchAt({"bind", "invalidate"})
        BY <3>1 DEF NoSwitchAt
      <4> QED BY <1>1, <1>5, <2>3, <3>1, <4>1, LateClaim DEF QuietInv
    <3>2. CASE ~ NoSwitchAt({"bind", "invalidate", "teardown"} \cup Stopping)
      <4>1. PICK b \in Commands : /\ cmd[b].kind = "switchBegin"
                                  /\ cmd[b].pc \in {"bind", "invalidate", "teardown"} \cup Stopping
        BY <3>2 DEF NoSwitchAt
      <4>2. b = c
        BY <1>2, <2>5, <4>1 DEF NoSwitchAt
      <4>3. cmd[c].kind = "switchBegin" /\ cmd'[c].pc \notin {"bind", "invalidate", "teardown"} \cup Stopping
        BY <1>2, <2>5, <4>1, <4>2 DEF NoSwitchAt
      <4>4. Deletes(c) \/ Passes(c)
        BY <1>5, <4>1, <4>2, <4>3 DEF Effect, Deed, Simple, SimpleArcs, Returns, Binds, Expires, Invalidates, Picks,
          Restores, Begins, Checks, Claims, Connects, Forgets, Drops, Announces, Goes, Ends, Follows, FirstStep, Stopping
      <4>5. CASE Passes(c)
        BY <4>5 DEF Passes, SameEpoch
      <4>6. CASE Deletes(c)
        <5>1. slot.inst \in {None, cmd[c].victim} \cup escaped
          BY <1>1, <1>5, <4>3, <4>6 DEF QuietInv, Deletes, Stopping
        <5> QED BY <4>6, <5>1 DEF Deletes
      <4> QED BY <4>4, <4>5, <4>6
    <3> QED BY <3>1, <3>2
  <2> QED BY <2>1, <2>2, <2>4, <2>5 DEF QuietInv
<1> QED BY <1>1, <1>4, <1>5

LEMMA QuietStep ==
  Types /\ CourseInv /\ SerialInv /\ ClaimInv /\ OrderInv /\ ReachInv /\ QuietInv /\ [Next]_vars
    => QuietInv'
<1> SUFFICES ASSUME Types, CourseInv, SerialInv, ClaimInv, OrderInv, ReachInv, QuietInv, [Next]_vars
             PROVE  QuietInv'
  OBVIOUS
<1>1. ASSUME NEW c \in Commands, NEW kind \in Kinds, Submitted(c, kind) PROVE QuietInv'
  <2> SUFFICES ASSUME NoRestart', Cancelled', ~ Restoring' PROVE QuietInv'
    BY DEF QuietInv
  <2>1. /\ NoRestart /\ Cancelled /\ ~ Restoring /\ kind # "switchBegin"
        /\ \A P \in SUBSET Held : NoSwitchAt(P)' = NoSwitchAt(P)
    BY <1>1, SubmittedKinds, SubmittedSwitches
  <2>2. /\ cmd'[c].pc \in {"expire", "invalidate", "number", "lock"} /\ cmd'[c].kind # "switchBegin"
        /\ cmd[c].pc = "unused"
        /\ \A d \in Commands : d # c => cmd'[d] = cmd[d]
        /\ slot' = slot /\ escaped' = escaped
    BY <1>1, <2>1, SubmittedKinds DEF Submitted
  <2>3. /\ NoSwitchAt({"bind", "invalidate"})' => NoSwitchAt({"bind", "invalidate"})
        /\ NoSwitchAt({"bind", "invalidate", "teardown"} \cup Stopping)' =>
             NoSwitchAt({"bind", "invalidate", "teardown"} \cup Stopping)
    <3>1. {"bind", "invalidate"} \subseteq Held /\ {"bind", "invalidate", "teardown"} \cup Stopping \subseteq Held
      BY DEF Held, Stopping, Stops
    <3> QED BY <2>1, <3>1
  <2> QED BY <2>1, <2>2, <2>3 DEF QuietInv, Escapes, Stopping
<1>2. ASSUME NEW c \in Commands, AcquireLock(c), UNCHANGED escaped PROVE QuietInv'
  <2>1. /\ cmd'[c].pc = "admit" /\ cmd'[c].kind = cmd[c].kind /\ cmd[c].pc = "lock"
        /\ \A d \in Commands : d # c => cmd'[d] = cmd[d]
        /\ slot' = slot /\ switching' = switching
    BY <1>2, AcquireEffect
  <2>2. (NoRestart' <=> NoRestart) /\ (Cancelled' <=> Cancelled) /\ (Restoring' <=> Restoring)
    BY <2>1 DEF NoRestart, Cancelled, NoSwitchAt, Restoring
  <2>3. /\ NoSwitchAt({"bind", "invalidate"})' <=> NoSwitchAt({"bind", "invalidate"})
        /\ NoSwitchAt({"bind", "invalidate", "teardown"} \cup Stopping)' <=>
             NoSwitchAt({"bind", "invalidate", "teardown"} \cup Stopping)
    BY <2>1 DEF NoSwitchAt, Stopping
  <2> QED BY <1>2, <2>1, <2>2, <2>3 DEF QuietInv, Escapes, Stopping
<1>3. ASSUME NEW c \in Commands, Effect(c), UNCHANGED escaped PROVE QuietInv'
  BY <1>3, QuietRun
<1>4. ASSUME EndSwitch PROVE QuietInv'
  BY <1>4 DEF EndSwitch, QuietInv, Cancelled
<1>5. CASE UNCHANGED vars
  BY <1>5 DEF vars, radio, QuietInv, NoRestart, Cancelled, Restoring, NoSwitchAt, Escapes
<1> QED BY <1>1, <1>2, <1>3, <1>4, <1>5, Cases

-----------------------------------------------------------------------------
(* The SMS mode, while all commands go through the mutex.                  *)

Settled == smsMode = "vowifi" <=> slot.inst # None

SMSInv ==
  (\A c \in Commands : Serial(c)) =>
    /\ lock = None => Settled
    /\ \A c \in Commands : lock = c =>
         /\ cmd[c].pc \notin {"claimed", "mark", "sms"} => Settled
         /\ cmd[c].pc \in {"claimed", "mark"} => slot.inst = c
         /\ cmd[c].pc = "sms" => slot.inst = None
         /\ cmd[c].pc \in Stopping => slot.inst = cmd[c].victim

LEMMA SMSRun ==
  ASSUME Types, CourseInv, SerialInv, SMSInv, NEW c \in Commands, Effect(c)
  PROVE  SMSInv'
<1> SUFFICES ASSUME (\A d \in Commands : Serial(d))' PROVE SMSInv'
  BY DEF SMSInv
<1>1. \A d \in Commands : Serial(d)
  BY KindsKept
<1>2. \A d \in Commands : d # c => cmd'[d].pc = cmd[d].pc /\ cmd'[d].victim = cmd[d].victim
  BY DEF Effect
<1>3. (lock = c \/ cmd[c].pc = "expire") /\ SerialInv'
  BY <1>1, SerialRun
<1>4. CASE lock # c
  <2>1. Expires(c)
    BY <1>3, <1>4 DEF Effect, Deed, Simple, SimpleArcs, Returns, Cancels, Binds, Expires, Invalidates, Picks,
      Passes, Deletes, Restores, Begins, Connects, Checks, Claims, Forgets, Drops, Announces
  <2>2. lock' = lock /\ slot'.inst = slot.inst /\ smsMode' = smsMode
    BY <2>1 DEF Expires, Supersedes
  <2> QED BY <1>1, <1>2, <1>4, <2>2 DEF SMSInv, Settled
<1>5. CASE lock = c
  <2>0. c # None /\ cmd[c].pc \in Held /\ Course(cmd[c].pc, cmd[c].kind)
    BY <1>5, NoneIsNoCommand DEF SerialInv, CourseInv
  <2>1. /\ cmd[c].pc \notin {"claimed", "mark", "sms"} => Settled
        /\ cmd[c].pc \in {"claimed", "mark"} => slot.inst = c
        /\ cmd[c].pc = "sms" => slot.inst = None
        /\ cmd[c].pc \in Stopping => slot.inst = cmd[c].victim
    BY <1>1, <1>5 DEF SMSInv
  <2>2. ASSUME lock' = c,
               cmd'[c].pc \notin {"claimed", "mark", "sms"} => Settled',
               cmd'[c].pc \in {"claimed", "mark"} => slot'.inst = c,
               cmd'[c].pc = "sms" => slot'.inst = None,
               cmd'[c].pc \in Stopping => slot'.inst = cmd'[c].victim
        PROVE  SMSInv'
    BY <2>0, <2>2 DEF SMSInv
  <2>3. ASSUME lock' = None, Settled' PROVE SMSInv'
    BY <2>3, NoneIsNoCommand DEF SMSInv
  <2>4. CASE Simple(c)
    BY <1>5, <2>1, <2>2, <2>4 DEF Simple, SimpleArcs, Goes, Frame, SameEpoch, Settled, Stopping
  <2>5. CASE Returns(c)
    BY <1>5, <2>1, <2>3, <2>5 DEF Returns, Ends, SameEpoch, Settled
  <2>6. CASE Binds(c) \/ Cancels(c)
    BY <1>5, <2>1, <2>2, <2>6 DEF Binds, Cancels, Goes, Frame, SameEpoch, Settled, Stopping, FirstStep
  <2>7. CASE Expires(c) \/ Invalidates(c)
    BY <1>5, <2>0, <2>1, <2>2, <2>7 DEF Expires, Invalidates, Supersedes, Settled, Stopping, Held, Stages, Stops
  <2>8. CASE Picks(c)
    BY <1>5, <2>1, <2>2, <2>8 DEF Picks, Frame, SameEpoch, Settled, Stopping
  <2>9. CASE Passes(c)
    <3>1. Settled /\ Settled' /\ slot'.inst = None
      BY <2>1, <2>9 DEF Passes, SameEpoch, Settled
    <3>2. CASE cmd[c].kind \in {"disable", "restart"}
      BY <1>5, <2>2, <2>9, <3>1, <3>2 DEF Passes, Goes, Stopping
    <3>3. CASE cmd[c].kind \notin {"disable", "restart"} /\ cmd[c].kind = "recover"
      BY <1>5, <2>2, <2>9, <3>1, <3>3 DEF Passes, Follows, Goes, Stopping
    <3>4. CASE cmd[c].kind \notin {"disable", "restart", "recover"}
      BY <1>5, <2>3, <2>9, <3>1, <3>4 DEF Passes, Follows, Ends
    <3> QED BY <3>2, <3>3, <3>4
  <2>10. CASE Deletes(c)
    BY <1>5, <2>1, <2>2, <2>10 DEF Deletes, Goes, Settled, Stopping
  <2>11. CASE Restores(c)
    <3>1. Settled'
      BY <2>1, <2>11 DEF Restores, SameEpoch, Settled
    <3>2. CASE cmd[c].kind \in {"restart", "recover"}
      BY <1>5, <2>2, <2>11, <3>1, <3>2 DEF Restores, Follows, Goes, Stopping
    <3>3. CASE cmd[c].kind \notin {"restart", "recover"}
      BY <1>5, <2>3, <2>11, <3>1, <3>3 DEF Restores, Follows, Ends
    <3> QED BY <3>2, <3>3
  <2>12. CASE Checks(c) \/ Begins(c) \/ Connects(c)
    BY <1>5, <2>1, <2>2, <2>12 DEF Checks, Begins, Connects, Goes, Frame, SameEpoch, Settled, Stopping
  <2>13. CASE Claims(c)
    BY <1>5, <2>1, <2>2, <2>13 DEF Claims, Goes, Stopping
  <2>14. CASE Forgets(c)
    BY <1>5, <2>1, <2>3, <2>14 DEF Forgets, Ends, Clears, Settled
  <2>15. CASE Drops(c)
    BY <1>5, <2>1, <2>2, <2>15 DEF Drops, Goes, Clears, Settled, Stopping
  <2>16. CASE Announces(c)
    BY <1>5, <2>0, <2>1, <2>3, <2>16 DEF Announces, Ends, SameEpoch, Settled
  <2> QED BY <2>4, <2>5, <2>6, <2>7, <2>8, <2>9, <2>10, <2>11, <2>12, <2>13, <2>14, <2>15, <2>16 DEF Effect, Deed
<1> QED BY <1>4, <1>5

LEMMA SMSStep == Types /\ CourseInv /\ SerialInv /\ SMSInv /\ [Next]_vars => SMSInv'
<1> SUFFICES ASSUME Types, CourseInv, SerialInv, SMSInv, [Next]_vars PROVE SMSInv'
  OBVIOUS
<1>1. ASSUME NEW c \in Commands, NEW kind \in Kinds, Submitted(c, kind) PROVE SMSInv'
  <2>1. /\ cmd[c].pc = "unused" /\ Serial(c) /\ UNCHANGED <<lock, slot, smsMode>>
        /\ \A d \in Commands : d # c => cmd'[d] = cmd[d]
    BY <1>1, SubmittedKinds DEF Submitted, control
  <2>2. lock # c
    BY <2>1, NoneIsNoCommand DEF SerialInv, Held, Stages, Stops
  <2> QED BY <2>1, <2>2 DEF SMSInv, Serial, Settled
<1>2. ASSUME NEW c \in Commands, AcquireLock(c) PROVE SMSInv'
  <2>1. /\ lock = None /\ lock' = c /\ cmd'[c].pc = "admit" /\ UNCHANGED <<slot, smsMode>>
        /\ \A d \in Commands : cmd'[d].kind = cmd[d].kind
    BY <1>2, AcquireEffect
  <2> QED BY <2>1, NoneIsNoCommand DEF SMSInv, Serial, Settled, Stopping
<1>3. ASSUME NEW c \in Commands, Effect(c) PROVE SMSInv'
  BY <1>3, SMSRun
<1>4. CASE UNCHANGED <<lock, slot, cmd, smsMode>>
  BY <1>4 DEF SMSInv, Serial, Settled
<1> QED BY <1>1, <1>2, <1>3, <1>4, Cases DEF EndSwitch, vars, control, radio

-----------------------------------------------------------------------------
CommandInv == CourseInv /\ SerialInv /\ ClaimInv /\ OrderInv /\ ReachInv /\ QuietInv /\ SMSInv

LEMMA CommandInit == Init => CommandInv
<1> SUFFICES ASSUME Init PROVE CommandInv
  OBVIOUS
<1>1. /\ lock = None /\ slot.inst = None /\ switching = FALSE /\ smsMode = "modem"
      /\ \A c \in Commands : /\ cmd[c].pc = "unused" /\ cmd[c].kind = "enable"
                             /\ ~ cmd[c].superseded
  BY DEF Init, ZeroSlot, NotSubmitted
<1>2. CourseInv /\ SerialInv
  BY <1>1, NoneIsNoCommand DEF CourseInv, Course, SerialInv, Stages, Stops, Held
<1>3. ClaimInv
  BY <1>1 DEF ClaimInv, ClaimIsCurrent, NoStaleClaim, InFlight
<1>4. OrderInv
  BY <1>1 DEF OrderInv, At, Switching, Running
<1>5. ReachInv /\ QuietInv
  BY <1>1 DEF ReachInv, QuietInv, Cancelled, Bound, Held, Stages, Stops
<1>6. SMSInv
  BY <1>1, NoneIsNoCommand DEF SMSInv, Settled
<1> QED BY <1>2, <1>3, <1>4, <1>5, <1>6 DEF CommandInv

LEMMA CommandStep == LifecycleInv /\ CommandInv /\ [Next]_vars => CommandInv'
BY CourseStep, SerialStep, ClaimStep, OrderStep, ReachStep, QuietStep, SMSStep DEF CommandInv, LifecycleInv

LEMMA CommandInvHolds == Spec => []CommandInv
<1>1. LifecycleInv /\ CommandInv /\ [Next]_vars => (LifecycleInv /\ CommandInv)'
  BY LifecycleStep, CommandStep
<1> QED BY <1>1, LifecycleInit, CommandInit, PTL DEF Spec

(* For any number of commands of any kind but Restart: a start that an     *)
(* invalidation has overtaken is never the current instance (the epoch     *)
(* comparison of claimStartedRuntime).                                     *)
THEOREM ClaimIsCurrentHolds == Spec => []ClaimIsCurrent
<1>1. CommandInv => ClaimIsCurrent
  BY DEF CommandInv, ClaimInv
<1> QED BY <1>1, CommandInvHolds, PTL

(* For any number of commands and switches: between SwitchBegin's return   *)
(* and the restore nothing is current but what a run has started that an   *)
(* earlier switch could not cancel.                                        *)
THEOREM SwitchQuietHolds == Spec => []SwitchQuiet
<1>1. CommandInv => SwitchQuiet
  <2> SUFFICES ASSUME CommandInv, SwitchBegun, NoRestart, ~ Restoring
               PROVE  slot.inst \in {None} \cup escaped
    BY DEF SwitchQuiet
  <2>1. Cancelled /\ NoSwitchAt({"bind", "invalidate", "teardown"} \cup Stopping)
    BY DEF SwitchBegun, Cancelled, NoSwitchAt, Stopping
  <2> QED BY <2>1 DEF CommandInv, QuietInv
<1> QED BY <1>1, CommandInvHolds, PTL

(* For any number of commands that go through the mutex: at rest, the SMS  *)
(* mode says whether VoWiFi is active.                                     *)
THEOREM SMSModeHolds == Spec => []SMSModeFollowsRuntime
<1>1. CommandInv => SMSModeFollowsRuntime
  <2> SUFFICES ASSUME CommandInv, \A c \in Commands : ~ Running(c) /\ cmd[c].kind \notin Unserialised
               PROVE  Settled
    BY DEF SMSModeFollowsRuntime, Settled
  <2>1. lock = None
    BY DEF CommandInv, SerialInv, Running, Held, Stages, Stops
  <2> QED BY <2>1 DEF CommandInv, SMSInv, Serial
<1> QED BY <1>1, CommandInvHolds, PTL

-----------------------------------------------------------------------------
(* How far the counters go.                                                *)

Numbering == {"cancel", "bind", "inactive", "ready", "invalidate"} \cup Stops \cup Stages

(* Numbers are taken once, and retries are for numbers that were taken.    *)
GenInv ==
  /\ busy \subseteq 1 .. generation
  /\ \A c \in Commands : cmd[c].gen <= generation
  /\ \A c \in Commands :
       cmd[c].kind # "reconnect" /\ cmd[c].pc \in Numbering => cmd[c].gen >= 1
  /\ \A c \in Commands :
       cmd[c].kind = "disable" /\ cmd[c].pc \in {"expire", "lock", "admit"} => cmd[c].gen = 0

LEMMA GenStep == Types /\ CourseInv /\ GenInv /\ [Next]_vars => GenInv'
<1> SUFFICES ASSUME Types, CourseInv, GenInv, [Next]_vars PROVE GenInv'
  OBVIOUS
<1>0. generation \in Nat /\ \A c \in Commands : cmd[c].gen \in Nat
  BY DEF Types, Records, Record
<1>9. \A g \in busy : g \in Nat /\ g >= 1 /\ g <= generation
  BY <1>0 DEF GenInv
<1>1. ASSUME NEW c \in Commands, NEW kind \in Kinds, Submitted(c, kind) PROVE GenInv'
  <2>1. /\ busy' = busy /\ generation' = generation /\ cmd'[c].kind = kind
        /\ \A d \in Commands : d # c => cmd'[d] = cmd[d]
        /\ cmd'[c].gen \in busy \cup {0} /\ (cmd'[c].gen # 0 => kind = "recover")
    BY <1>1 DEF Submitted, control
  <2>2. cmd'[c].gen <= generation
    <3>1. cmd'[c].gen = 0 \/ cmd'[c].gen \in busy
      BY <2>1
    <3> QED BY <1>0, <1>9, <3>1
  <2>3. cmd'[c].kind # "reconnect" => cmd'[c].pc \notin Numbering
    BY <1>1, KindsAssumption DEF Submitted, EntryPoint, Numbering, Stops, Stages
  <2> QED BY <2>1, <2>2, <2>3 DEF GenInv
<1>2. ASSUME NEW c \in Commands, AcquireLock(c) PROVE GenInv'
  <2>1. /\ busy' = busy /\ generation' = generation
        /\ cmd[c].pc = "lock" /\ cmd'[c].pc = "admit" /\ cmd'[c].kind = cmd[c].kind
        /\ cmd'[c].gen = cmd[c].gen
        /\ \A d \in Commands : d # c => cmd'[d] = cmd[d]
    BY <1>2, AcquireEffect
  <2> QED BY <2>1 DEF GenInv, Numbering, Stops, Stages
<1>3. ASSUME NEW c \in Commands, Effect(c), Counts(c) PROVE GenInv'
  <2>0. /\ generation' \in Nat /\ generation' >= generation
        /\ \A d \in Commands : d # c => /\ cmd'[d].gen = cmd[d].gen /\ cmd'[d].kind = cmd[d].kind
                                       /\ cmd'[d].pc = cmd[d].pc
    BY <1>0, <1>3 DEF Counts, Effect
  <2>1. cmd'[c].gen <= generation'
    BY <1>0, <1>3, <2>0 DEF Counts, GenInv
  <2>2. cmd'[c].kind = cmd[c].kind \/ cmd'[c].pc = "done"
    BY <1>3, KindsKept
  <2>3. Course(cmd[c].pc, cmd[c].kind)
    BY DEF CourseInv
  <2>4. cmd[c].pc = "error" => cmd[c].gen >= 1
    BY <2>3 DEF GenInv, Course, Numbering, Stages
  <2>5. busy' \subseteq 1 .. generation'
    <3>1. \A g \in busy' : g \in busy \/ (g = cmd[c].gen /\ cmd[c].pc = "error")
      BY <1>3 DEF Counts
    <3>2. cmd[c].gen \in Nat /\ cmd[c].gen <= generation
      BY <1>0 DEF GenInv
    <3>3. \A g \in busy' : g \in Nat /\ g >= 1 /\ g <= generation'
      BY <1>0, <1>9, <2>0, <2>4, <3>1, <3>2
    <3> QED BY <2>0, <3>3
  <2>6. cmd'[c].pc \in Numbering =>
          cmd[c].pc \in Numbering \/ cmd[c].pc \in {"admit", "number"}
    BY <1>3, <2>3 DEF Effect, Deed, Simple, SimpleArcs, Returns, Cancels, Binds, Expires, Invalidates,
      Picks, Passes, Deletes, Restores, Begins, Connects, Checks, Claims, Forgets, Drops, Announces,
      Goes, Ends, Follows, FirstStep, Numbering, Stops, Stages
  <2>7. ASSUME cmd'[c].kind # "reconnect", cmd'[c].pc \in Numbering PROVE cmd'[c].gen >= 1
    <3>1. cmd'[c].kind = cmd[c].kind /\ cmd'[c].pc # "done"
      BY <2>2, <2>7 DEF Numbering, Stops, Stages
    <3>2. CASE cmd[c].pc \in Numbering
      <4>1. cmd[c].gen >= 1
        BY <2>7, <3>1, <3>2 DEF GenInv
      <4> QED BY <1>0, <1>3, <3>1, <4>1 DEF Counts
    <3>3. CASE cmd[c].pc \in {"admit", "number"}
      BY <1>0, <1>3, <3>1, <3>3 DEF Counts
    <3> QED BY <2>6, <2>7, <3>2, <3>3
  <2>8. ASSUME cmd'[c].kind = "disable", cmd'[c].pc \in {"expire", "lock", "admit"}
        PROVE  cmd'[c].gen = 0
    <3>1. cmd[c].pc = "expire"
      BY <1>3, <2>8 DEF Effect, Deed, Simple, SimpleArcs, Returns, Cancels, Binds, Expires, Invalidates,
        Picks, Passes, Deletes, Restores, Begins, Connects, Checks, Claims, Forgets, Drops, Announces,
        Goes, Ends, Follows, FirstStep
    <3> QED BY <1>3, <2>2, <2>8, <3>1 DEF Counts, GenInv
  <2> QED BY <2>0, <2>1, <2>5, <2>7, <2>8, <1>0 DEF GenInv
<1>4. CASE UNCHANGED <<generation, busy, cmd>>
  BY <1>4 DEF GenInv
<1> QED BY <1>1, <1>2, <1>3, <1>4, Cases DEF EndSwitch, vars, control, radio

Numbered == {c \in Commands : cmd[c].pc \notin {"unused", "expire", "lock", "admit", "number"}}
Expired == {c \in Commands : cmd[c].pc \notin {"unused", "expire"}}
Invalidated ==
  {c \in Commands : cmd[c].pc \notin {"unused", "expire", "lock", "admit", "number", "cancel",
                                      "bind", "inactive", "invalidate"}}

(* A command takes one number and invalidates the slot twice at most.      *)
CountInv ==
  /\ generation <= Cardinality(Numbered)
  /\ slot.epoch <= Cardinality(Expired) + Cardinality(Invalidated)
  /\ runCancel # None => runCancel \in Commands /\ Running(runCancel)
  /\ smsMode \in {"modem", "vowifi"} /\ escaped \subseteq Commands

LEMMA CommandSets ==
  ASSUME NEW A, NEW B, A \subseteq B, B \subseteq Commands
  PROVE  /\ Cardinality(A) \in Nat /\ Cardinality(B) \in Nat /\ Cardinality(A) <= Cardinality(B)
         /\ Cardinality(B) <= MaxCommands
         /\ \A c \in B \ A : Cardinality(A) + 1 <= Cardinality(B)
<1>1. IsFiniteSet(Commands) /\ Cardinality(Commands) = MaxCommands
  BY FS_Interval, CommandsAssumption DEF Commands
<1>2. /\ IsFiniteSet(B) /\ IsFiniteSet(A) /\ Cardinality(A) <= Cardinality(B)
      /\ Cardinality(B) <= MaxCommands
  BY <1>1, FS_Subset
<1>3. ASSUME NEW c \in B \ A PROVE Cardinality(A) + 1 <= Cardinality(B)
  <2>1. Cardinality(A \cup {c}) = Cardinality(A) + 1
    BY <1>2, FS_AddElement
  <2>2. A \cup {c} \subseteq B
    OBVIOUS
  <2> QED BY <1>2, <2>1, <2>2, FS_Subset
<1> QED BY <1>2, <1>3, FS_CardinalityType

LEMMA CountStep == Types /\ CourseInv /\ CountInv /\ [Next]_vars => CountInv'
<1> SUFFICES ASSUME Types, CourseInv, CountInv, [Next]_vars PROVE CountInv'
  OBVIOUS
<1>0. generation \in Nat /\ slot.epoch \in Nat
  BY DEF Types, Slots
<1>1. /\ Numbered \subseteq Commands /\ Numbered' \subseteq Commands
      /\ Expired \subseteq Commands /\ Expired' \subseteq Commands
      /\ Invalidated \subseteq Commands /\ Invalidated' \subseteq Commands
  BY DEF Numbered, Expired, Invalidated
<1>2. ASSUME Numbered \subseteq Numbered', Expired \subseteq Expired', Invalidated \subseteq Invalidated'
      PROVE  /\ Cardinality(Numbered) <= Cardinality(Numbered') /\ Cardinality(Numbered) \in Nat
             /\ Cardinality(Numbered') \in Nat
             /\ Cardinality(Expired) + Cardinality(Invalidated)
                  <= Cardinality(Expired') + Cardinality(Invalidated')
             /\ Cardinality(Expired) + Cardinality(Invalidated) \in Nat
             /\ Cardinality(Expired') + Cardinality(Invalidated') \in Nat
             /\ \A c \in Numbered' \ Numbered : Cardinality(Numbered) + 1 <= Cardinality(Numbered')
             /\ \A c \in Commands :
                  c \in Expired' \ Expired \/ c \in Invalidated' \ Invalidated =>
                  Cardinality(Expired) + Cardinality(Invalidated) + 1
                    <= Cardinality(Expired') + Cardinality(Invalidated')
  <2>1. /\ Cardinality(Numbered) <= Cardinality(Numbered') /\ Cardinality(Numbered) \in Nat
        /\ Cardinality(Numbered') \in Nat
        /\ \A c \in Numbered' \ Numbered : Cardinality(Numbered) + 1 <= Cardinality(Numbered')
    BY <1>1, <1>2, CommandSets
  <2>2. /\ Cardinality(Expired) <= Cardinality(Expired') /\ Cardinality(Expired) \in Nat
        /\ Cardinality(Expired') \in Nat
        /\ \A c \in Expired' \ Expired : Cardinality(Expired) + 1 <= Cardinality(Expired')
    BY <1>1, <1>2, CommandSets
  <2>3. /\ Cardinality(Invalidated) <= Cardinality(Invalidated') /\ Cardinality(Invalidated) \in Nat
        /\ Cardinality(Invalidated') \in Nat
        /\ \A c \in Invalidated' \ Invalidated : Cardinality(Invalidated) + 1 <= Cardinality(Invalidated')
    BY <1>1, <1>2, CommandSets
  <2> QED BY <2>1, <2>2, <2>3
<1>3. ASSUME NEW c \in Commands, NEW kind \in Kinds, Submitted(c, kind) PROVE CountInv'
  <2>1. /\ generation' = generation /\ slot' = slot /\ runCancel' = runCancel /\ smsMode' = smsMode
        /\ escaped' = escaped
        /\ cmd[c].pc = "unused" /\ cmd'[c].pc \in {"expire", "invalidate", "number", "lock"}
        /\ \A d \in Commands : d # c => cmd'[d] = cmd[d]
    BY <1>3, SubmittedKinds DEF Submitted, control
  <2>2. Numbered \subseteq Numbered' /\ Expired \subseteq Expired' /\ Invalidated \subseteq Invalidated'
    BY <2>1 DEF Numbered, Expired, Invalidated
  <2> QED BY <1>0, <1>2, <2>1, <2>2 DEF CountInv, Running
<1>4. ASSUME NEW c \in Commands, AcquireLock(c), UNCHANGED escaped PROVE CountInv'
  <2>1. /\ generation' = generation /\ slot' = slot /\ runCancel' = runCancel /\ smsMode' = smsMode
        /\ cmd[c].pc = "lock" /\ cmd'[c].pc = "admit"
        /\ \A d \in Commands : d # c => cmd'[d] = cmd[d]
    BY <1>4, AcquireEffect
  <2>2. Numbered \subseteq Numbered' /\ Expired \subseteq Expired' /\ Invalidated \subseteq Invalidated'
    BY <2>1 DEF Numbered, Expired, Invalidated
  <2> QED BY <1>0, <1>2, <1>4, <2>1, <2>2 DEF CountInv, Running
<1>5. ASSUME NEW c \in Commands, Effect(c), Counts(c), UNCHANGED escaped PROVE CountInv'
  <2>0. /\ \A d \in Commands : d # c => cmd'[d].pc = cmd[d].pc
        /\ Course(cmd[c].pc, cmd[c].kind)
    BY <1>5 DEF Effect, CourseInv
  <2>1. /\ cmd'[c].pc \in {"unused", "expire", "lock", "admit", "number"} => cmd[c].pc = "expire"
        /\ cmd'[c].pc \notin {"unused", "expire"}
        /\ cmd'[c].pc \in {"cancel", "bind", "inactive", "invalidate"}
             => cmd[c].pc \in {"admit", "number", "cancel", "bind", "inactive"}
    BY <1>5 DEF Effect, Deed, Simple, SimpleArcs, Returns, Cancels, Binds, Expires, Invalidates,
      Picks, Passes, Deletes, Restores, Begins, Connects, Checks, Claims, Forgets, Drops, Announces,
      Goes, Ends, Follows, FirstStep
  <2>2. Numbered \subseteq Numbered' /\ Expired \subseteq Expired' /\ Invalidated \subseteq Invalidated'
    BY <2>0, <2>1 DEF Numbered, Expired, Invalidated
  <2>3. generation' <= Cardinality(Numbered')
    <3>1. CASE generation' = generation
      BY <1>0, <1>2, <2>2, <3>1 DEF CountInv
    <3>2. CASE /\ cmd[c].pc \in {"admit", "number"} /\ cmd'[c].pc \in {"bind", "cancel"}
               /\ generation' = generation + 1
      <4>1. c \in Numbered' \ Numbered
        BY <3>2 DEF Numbered
      <4> QED BY <1>0, <1>2, <2>2, <3>2, <4>1 DEF CountInv
    <3> QED BY <1>5, <3>1, <3>2 DEF Counts
  <2>4. slot'.epoch <= Cardinality(Expired') + Cardinality(Invalidated')
    <3>1. CASE slot'.epoch \in {0, slot.epoch}
      BY <1>0, <1>2, <2>2, <3>1 DEF CountInv
    <3>2. CASE Expires(c) \/ Invalidates(c)
      <4>1. slot'.epoch = slot.epoch + 1
        BY <3>2 DEF Expires, Invalidates, Supersedes
      <4>2. c \in Expired' \ Expired \/ c \in Invalidated' \ Invalidated
        BY <2>1, <3>2 DEF Expires, Invalidates, Expired, Invalidated
      <4> QED BY <1>0, <1>2, <2>2, <4>1, <4>2 DEF CountInv
    <3> QED BY <1>5, <3>1, <3>2 DEF Effect, Deed, Simple, Returns, Cancels, Binds, Picks, Passes,
      Deletes, Restores, Begins, Connects, Checks, Claims, Forgets, Drops, Announces,
      SameEpoch, Frame, Clears
  <2>5. (runCancel # None => runCancel \in Commands /\ Running(runCancel))'
    <3>1. \/ Binds(c) /\ runCancel' = c
          \/ runCancel' = runCancel /\ cmd'[c].pc # "done"
          \/ runCancel' = (IF runCancel = c THEN None ELSE runCancel)
      BY <1>5 DEF Effect, Deed, Simple, SimpleArcs, Returns, Cancels, Binds, Expires, Invalidates,
        Picks, Passes, Deletes, Restores, Begins, Connects, Checks, Claims, Forgets, Drops, Announces,
        Goes, Ends, Follows, Supersedes, Frame
    <3>2. CASE Binds(c) /\ runCancel' = c
      BY <3>2 DEF Binds, Goes, FirstStep, Running
    <3>3. CASE runCancel' = runCancel /\ cmd'[c].pc # "done"
      BY <2>0, <2>1, <3>3 DEF CountInv, Running
    <3>4. CASE runCancel' = (IF runCancel = c THEN None ELSE runCancel)
      BY <2>0, <3>4 DEF CountInv, Running
    <3> QED BY <3>1, <3>2, <3>3, <3>4
  <2>6. smsMode' \in {"modem", "vowifi"}
    BY <1>5 DEF Effect, Deed, Simple, Returns, Cancels, Binds, Expires, Invalidates, Picks, Passes,
      Deletes, Restores, Begins, Connects, Checks, Claims, Forgets, Drops, Announces,
      Frame, Supersedes, CountInv
  <2> QED BY <1>5, <2>3, <2>4, <2>5, <2>6 DEF CountInv
<1>6. CASE EndSwitch
  <2>1. UNCHANGED <<generation, runCancel, slot, smsMode, cmd>> /\ escaped' \subseteq escaped \cup Commands
    BY <1>6 DEF EndSwitch, control
  <2> QED BY <2>1 DEF CountInv, Numbered, Expired, Invalidated, Running
<1>7. CASE UNCHANGED vars
  BY <1>7 DEF vars, control, radio, CountInv, Numbered, Expired, Invalidated, Running
<1> QED BY <1>3, <1>4, <1>5, <1>6, <1>7, Cases

-----------------------------------------------------------------------------
(* A disable that stays.                                                   *)

DesiredTypes ==
  /\ wanted \in BOOLEAN /\ asked \in {"none", "enable", "disable"}
  /\ decided \subseteq {"schedule", "clear"}
  /\ inFlight \in BOOLEAN /\ waiting \in BOOLEAN
  /\ followUp \in [Commands -> {"nothing", "record", "policy"}]
  /\ failed \subseteq Commands /\ off \in {"no", "begun", "done"}

(* The last disable that a user asked for is followed while it is wanted.  *)
PolicyInv ==
  /\ asked = "disable" => ~ wanted
  /\ off # "no" => ~ wanted /\ asked = "none"
  /\ \A c \in Commands : followUp[c] = "policy" =>
       cmd[c].pc # "unused" /\ (Running(c) => cmd[c].kind = "disable")
  /\ off = "begun" => \E c \in Commands : LastDisable(c) /\ Running(c)

(* Nobody is about to start VoWiFi but retries of earlier starts, ...      *)
Alone ==
  /\ "schedule" \notin decided
  /\ \A d \in Commands : Running(d) =>
       /\ cmd[d].kind # "restart"
       /\ cmd[d].kind \in Starts => cmd[d].pc \in {"lock", "admit"} /\ cmd[d].gen # 0

(* ... whose numbers are out of date.                                      *)
Fresh ==
  /\ \A g \in busy : g < generation
  /\ \A d \in Commands : Running(d) /\ cmd[d].kind \in Starts => cmd[d].gen < generation

AloneInv ==
  /\ \A c \in Commands : LastDisable(c) /\ cmd[c].pc \in Held =>
       /\ Alone /\ (~ At(c, "admit") => Fresh)
       /\ cmd[c].pc \in Stopping => slot.inst \in {None, cmd[c].victim}
       /\ At(c, "sms") => slot.inst = None
  /\ off = "done" => Alone /\ Fresh /\ slot.inst = None

LEMMA DesiredTypesStep ==
  DesiredTypes /\ [DesiredNext]_allVars => DesiredTypes'
<1> SUFFICES ASSUME DesiredTypes, [DesiredNext]_allVars PROVE DesiredTypes'
  OBVIOUS
<1>1. asked' \in {"none", "enable", "disable"} /\ off' \in {"no", "begun", "done"}
  BY DEF DesiredTypes, DesiredNext, allVars, desiredVars, recordVars, SetWanted, RefuseAsked, Consider,
    Schedule, NextAttemptDue, ClearRecord, ForgetRecord, SubmitAsked, ApplyPolicy, MarkResult,
    SubmitOther, SIMRemoved, Retry, Locks, Runs, NoRecord
<1>4. wanted' \in BOOLEAN
  BY DEF DesiredTypes, DesiredNext, allVars, desiredVars, recordVars, SetWanted, RefuseAsked, Consider,
    Schedule, NextAttemptDue, ClearRecord, ForgetRecord, SubmitAsked, ApplyPolicy, MarkResult,
    SubmitOther, SIMRemoved, Retry, Locks, Runs, NoRecord
<1>5. inFlight' \in BOOLEAN /\ waiting' \in BOOLEAN
  BY DEF DesiredTypes, DesiredNext, allVars, desiredVars, recordVars, SetWanted, RefuseAsked, Consider,
    Schedule, NextAttemptDue, ClearRecord, ForgetRecord, SubmitAsked, ApplyPolicy, MarkResult,
    SubmitOther, SIMRemoved, Retry, Locks, Runs, NoRecord
<1>2. decided' \subseteq {"schedule", "clear"} /\ failed' \subseteq Commands
  BY DEF DesiredTypes, DesiredNext, allVars, desiredVars, recordVars, SetWanted, RefuseAsked, Consider,
    Schedule, NextAttemptDue, ClearRecord, ForgetRecord, SubmitAsked, ApplyPolicy, MarkResult,
    SubmitOther, SIMRemoved, Retry, Locks, Runs
<1>3. followUp' \in [Commands -> {"nothing", "record", "policy"}]
  BY DEF DesiredTypes, DesiredNext, allVars, desiredVars, recordVars, SetWanted, RefuseAsked, Consider,
    Schedule, NextAttemptDue, ClearRecord, ForgetRecord, SubmitAsked, ApplyPolicy, MarkResult,
    SubmitOther, SIMRemoved, Retry, Locks, Runs
<1> QED BY <1>1, <1>2, <1>3, <1>4, <1>5 DEF DesiredTypes

LEMMA SubmitNext ==
  ASSUME Types, NEW c \in Commands, NEW kind \in Kinds, NEW gen \in busy \cup {0}, Submit(c, kind, gen)
  PROVE  /\ Submitted(c, kind) /\ cmd'[c].gen = gen
         /\ cmd[c].pc = "unused" /\ cmd'[c].pc = EntryPoint(kind) /\ cmd'[c].kind = kind
         /\ cmd'[c].pc \notin {"unused", "done"}
         /\ \A d \in Commands : d # c => cmd'[d] = cmd[d]
         /\ slot' = slot /\ busy' = busy /\ generation' = generation
BY SubmitEffect DEF Submitted, control, EntryPoint

(* What becomes of the last disable when the actions around it change who  *)
(* follows up what.                                                        *)
LEMMA FollowUps ==
  ASSUME DesiredTypes, PolicyInv, NEW c \in Commands, NEW v \in {"nothing", "record"},
         followUp' = [followUp EXCEPT ![c] = v], UNCHANGED off,
         off = "begun" => ~ Running(c)
  PROVE  \A d \in Commands : LastDisable(d)' => LastDisable(d) /\ d # c
<1> SUFFICES ASSUME NEW d \in Commands, LastDisable(d)' PROVE LastDisable(d) /\ d # c
  OBVIOUS
<1>1. followUp'[c] = v /\ \A e \in Commands : e # c => followUp'[e] = followUp[e]
  BY DEF DesiredTypes
<1>2. off = "begun" /\ d # c /\ followUp[d] = "policy"
  BY <1>1 DEF LastDisable
<1>3. PICK m \in Commands : LastDisable(m) /\ Running(m)
  BY <1>2 DEF PolicyInv
<1>4. m # c /\ followUp'[m] = "policy"
  BY <1>1, <1>2, <1>3 DEF LastDisable
<1>5. ~ m > d /\ ~ d > m /\ m \in Nat /\ d \in Nat
  BY <1>2, <1>3, <1>4 DEF LastDisable, Commands
<1>6. m = d
  BY <1>5
<1> QED BY <1>2, <1>3, <1>6

LEMMA FollowedOn ==
  ASSUME DesiredTypes, NEW c \in Commands, NEW v \in {"nothing", "record"},
         followUp' = [followUp EXCEPT ![c] = v], UNCHANGED off
  PROVE  /\ \A d \in Commands : LastDisable(d) /\ d # c => LastDisable(d)'
         /\ \A d \in Commands : followUp'[d] = "policy" => d # c /\ followUp[d] = "policy"
BY DEF DesiredTypes, LastDisable

LEMMA SubmitAskedPolicy ==
  ASSUME Types, OrderInv, DesiredTypes, PolicyInv, asked # "none",
         NEW c \in Commands, SubmitAsked(c)
  PROVE  /\ PolicyInv'
         /\ off' # "done"
         /\ \A d \in Commands : LastDisable(d)' => d = c /\ cmd'[c].pc = "expire"
<1>0. asked \in {"enable", "disable"} /\ asked \in Kinds /\ off = "no"
  BY DesiredAssumption DEF DesiredTypes, PolicyInv
<1>1. /\ cmd[c].pc = "unused" /\ cmd'[c].pc = EntryPoint(asked) /\ cmd'[c].kind = asked
      /\ \A d \in Commands : d # c => cmd'[d] = cmd[d]
  BY <1>0, SubmitNext DEF SubmitAsked
<1>2. /\ followUp'[c] = (IF asked = "disable" THEN "policy" ELSE "nothing")
      /\ \A d \in Commands : d # c => followUp'[d] = followUp[d]
      /\ off' = (IF asked = "disable" THEN "begun" ELSE "no") /\ asked' = "none" /\ wanted' = wanted
  BY <1>0 DEF SubmitAsked, DesiredTypes
<1>3. \A d \in Commands : d > c => followUp[d] # "policy"
  BY <1>1 DEF OrderInv, At, PolicyInv
<1>4. asked = "disable" => cmd'[c].pc = "expire"
  BY <1>1 DEF EntryPoint
<1>5. \A d \in Commands : LastDisable(d)' => d = c /\ cmd'[c].pc = "expire"
  <2> SUFFICES ASSUME NEW d \in Commands, LastDisable(d)' PROVE d = c /\ cmd'[c].pc = "expire"
    OBVIOUS
  <2>1. off' = "begun" /\ followUp'[c] = "policy" /\ asked = "disable"
    BY <1>2 DEF LastDisable
  <2>2. ~ c > d /\ ~ d > c /\ c \in Nat /\ d \in Nat
    BY <1>2, <1>3, <2>1 DEF LastDisable, Commands
  <2> QED BY <1>4, <2>1, <2>2
<1>6. off' = "begun" => LastDisable(c)' /\ Running(c)'
  BY <1>2, <1>3, <1>4 DEF LastDisable, Running, Commands
<1>7. (\A d \in Commands : followUp[d] = "policy" =>
         cmd[d].pc # "unused" /\ (Running(d) => cmd[d].kind = "disable"))'
  BY <1>1, <1>2, <1>4 DEF PolicyInv, Running
<1> QED BY <1>0, <1>2, <1>5, <1>6, <1>7 DEF PolicyInv

LEMMA PolicyStep ==
  Types /\ CourseInv /\ OrderInv /\ DesiredTypes /\ PolicyInv /\ [DesiredNext]_allVars => PolicyInv'
<1> SUFFICES ASSUME Types, CourseInv, OrderInv, DesiredTypes, PolicyInv, [DesiredNext]_allVars
             PROVE  PolicyInv'
  OBVIOUS
<1>0. Others \subseteq Kinds /\ {"enable", "disable", "recover"} \subseteq Kinds
  BY DesiredAssumption DEF Others
<1>1. ASSUME NEW on \in BOOLEAN, SetWanted(on) PROVE PolicyInv'
  BY <1>1 DEF SetWanted, PolicyInv, Running, vars
<1>2. CASE UNCHANGED <<cmd, wanted, followUp, off>> /\ asked' \in {asked, "none"}
  BY <1>2 DEF PolicyInv, Running, LastDisable
<1>3. ASSUME NEW c \in Commands, NEW kind \in Kinds, NEW gen \in busy \cup {0}, Submit(c, kind, gen),
             UNCHANGED <<wanted, asked, off>>,
             followUp' = followUp \/ followUp' = [followUp EXCEPT ![c] = "record"]
      PROVE  PolicyInv'
  <2>1. cmd[c].pc = "unused" /\ ~ Running(c) /\ \A d \in Commands : d # c => cmd'[d] = cmd[d]
    BY <1>3, SubmitNext DEF Running
  <2>2. followUp[c] # "policy"
    BY <2>1 DEF PolicyInv
  <2>3. /\ \A d \in Commands : LastDisable(d) /\ d # c => LastDisable(d)'
        /\ \A d \in Commands : followUp'[d] = "policy" => d # c /\ followUp[d] = "policy"
    BY <1>3, <2>2, FollowedOn DEF LastDisable
  <2> QED BY <1>3, <2>1, <2>3 DEF PolicyInv, Running
<1>4. ASSUME NEW c \in Commands, At(c, "done"), UNCHANGED <<cmd, wanted, asked, off>>,
             followUp' = [followUp EXCEPT ![c] = "nothing"]
      PROVE  PolicyInv'
  <2>1. /\ \A d \in Commands : LastDisable(d) /\ d # c => LastDisable(d)'
        /\ \A d \in Commands : followUp'[d] = "policy" => d # c /\ followUp[d] = "policy"
    BY <1>4, FollowedOn
  <2> QED BY <1>4, <2>1 DEF PolicyInv, Running, At
<1>5. ASSUME NEW c \in Commands, asked # "none", SubmitAsked(c) PROVE PolicyInv'
  BY <1>5, SubmitAskedPolicy
<1>6. ASSUME NEW c \in Commands, Locks(c) PROVE PolicyInv'
  <2>1. /\ \A d \in Commands : Running(d)' = Running(d) /\ cmd'[d].kind = cmd[d].kind
        /\ \A d \in Commands : cmd'[d].pc = "unused" => cmd[d].pc = "unused"
    BY <1>6, AcquireEffect DEF Locks, Running
  <2>2. off' \in {"no", off} /\ UNCHANGED <<wanted, asked, followUp>>
    BY <1>6 DEF Locks
  <2> QED BY <2>1, <2>2 DEF PolicyInv, LastDisable
<1>7. ASSUME NEW c \in Commands, Runs(c) PROVE PolicyInv'
  <2>1. Effect(c)
    BY <1>7, Effects DEF Runs
  <2>2. /\ \A d \in Commands : d # c => Running(d)' = Running(d) /\ cmd'[d].kind = cmd[d].kind
                                       /\ cmd'[d].pc = cmd[d].pc
        /\ cmd'[c].pc # "unused" /\ Running(c)
        /\ Running(c)' => cmd'[c].kind = cmd[c].kind
    BY <2>1, RunsOn, KindsKept DEF Effect, Running
  <2>3. /\ UNCHANGED <<wanted, asked, followUp>>
        /\ off' = (IF cmd'[c].pc = "done" /\ LastDisable(c) THEN "done" ELSE off)
    BY <1>7 DEF Runs
  <2>4. off' = "begun" => \E d \in Commands : LastDisable(d)' /\ Running(d)'
    <3> SUFFICES ASSUME off' = "begun" PROVE \E d \in Commands : LastDisable(d)' /\ Running(d)'
      OBVIOUS
    <3>1. off = "begun"
      BY <2>3
    <3>2. PICK m \in Commands : LastDisable(m) /\ Running(m)
      BY <3>1 DEF PolicyInv
    <3>3. Running(m)'
      BY <2>2, <2>3, <3>2 DEF Running
    <3> QED BY <2>3, <3>1, <3>2, <3>3 DEF LastDisable
  <2>5. off' # "no" => off # "no"
    BY <2>3 DEF LastDisable
  <2> QED BY <2>2, <2>3, <2>4, <2>5 DEF PolicyInv
<1>8. CASE Schedule
  <2>1. CASE UNCHANGED <<vars, inFlight, followUp>>
    BY <1>2, <1>8, <2>1 DEF Schedule, vars
  <2>2. ASSUME NEW c \in Commands, Submit(c, "recover", 0), followUp' = [followUp EXCEPT ![c] = "record"]
        PROVE  PolicyInv'
    BY <1>0, <1>3, <1>8, <2>2 DEF Schedule
  <2> QED BY <1>8, <2>1, <2>2 DEF Schedule
<1>9. ASSUME NEW c \in Commands, ApplyPolicy(c) \/ MarkResult(c) PROVE PolicyInv'
  BY <1>4, <1>9 DEF ApplyPolicy, MarkResult, vars
<1>10. ASSUME NEW c \in Commands, NEW kind \in Others, SubmitOther(c, kind) PROVE PolicyInv'
  BY <1>0, <1>3, <1>10 DEF SubmitOther
<1>11. ASSUME NEW c \in Commands, SIMRemoved(c) PROVE PolicyInv'
  BY <1>0, <1>3, <1>11 DEF SIMRemoved
<1>12. ASSUME NEW c \in Commands, NEW gen \in busy, Retry(c, gen) PROVE PolicyInv'
  BY <1>0, <1>3, <1>12 DEF Retry, desiredVars
<1>13. CASE RefuseAsked \/ Consider \/ NextAttemptDue \/ ClearRecord \/ ForgetRecord
  BY <1>2, <1>13 DEF RefuseAsked, Consider, NextAttemptDue, ClearRecord, ForgetRecord, vars
<1>14. CASE EndSwitch /\ UNCHANGED desiredVars
  BY <1>2, <1>14 DEF EndSwitch, desiredVars
<1>15. CASE UNCHANGED allVars
  BY <1>2, <1>15 DEF allVars, vars, desiredVars
<1> QED BY <1>1, <1>5, <1>6, <1>7, <1>8, <1>9, <1>10, <1>11, <1>12, <1>13, <1>14, <1>15 DEF DesiredNext

-----------------------------------------------------------------------------
(* While only overtaken retries are left, whatever runs claims nothing.    *)
LEMMA AloneRun ==
  ASSUME Types, CourseInv, GenInv, Alone, NEW e \in Commands, Effect(e), Counts(e),
         UNCHANGED decided, Fresh \/ cmd[e].kind \notin Starts
  PROVE  Alone' /\ (Fresh => Fresh') /\ slot'.inst \in {slot.inst, None}
<1>0. /\ generation \in Nat /\ \A d \in Commands : cmd[d].gen \in Nat
      /\ cmd[e].kind \in Kinds \cup {"enable"} /\ \A g \in busy : g \in Nat
  BY DEF Types, Records, Record
<1>1. /\ Running(e) /\ Course(cmd[e].pc, cmd[e].kind)
      /\ \A d \in Commands : d # e => /\ cmd'[d].pc = cmd[d].pc /\ cmd'[d].kind = cmd[d].kind
                                     /\ cmd'[d].gen = cmd[d].gen
      /\ cmd'[e].kind = cmd[e].kind \/ cmd'[e].pc = "done"
      /\ cmd[e].pc # "lock"
  BY RunsOn, KindsKept DEF Effect, Counts, CourseInv, Deed, Simple, SimpleArcs, Returns, Cancels, Binds,
    Expires, Invalidates, Picks, Passes, Deletes, Restores, Begins, Connects, Checks, Claims, Forgets,
    Drops, Announces
<1>2. cmd[e].pc \notin Stages
  BY <1>0, <1>1, KindsAssumption DEF Alone, Course, Starts, Stages, Stops
<1>3. busy' = busy /\ slot'.inst \in {slot.inst, None}
  <2>1. ~ Claims(e) /\ cmd[e].pc # "error"
    BY <1>2 DEF Claims, Stages
  <2> QED BY <2>1 DEF Counts, Effect, Deed, Simple, Returns, Cancels, Binds, Expires, Invalidates,
      Picks, Passes, Deletes, Restores, Begins, Connects, Checks, Forgets, Drops, Announces,
      Frame, SameEpoch, Supersedes, Clears
<1>4. cmd[e].kind \in Starts => cmd'[e].pc = "done"
  <2> SUFFICES ASSUME cmd[e].kind \in Starts, Fresh PROVE cmd'[e].pc = "done"
    OBVIOUS
  <2>1. cmd[e].pc = "admit" /\ cmd[e].gen # 0 /\ cmd[e].gen < generation
    BY <1>1 DEF Alone, Fresh
  <2>2. Stale(e)
    BY <1>0, <2>1 DEF Stale
  <2> QED BY <2>1, <2>2 DEF Counts
<1>5. Alone'
  BY <1>1, <1>4 DEF Alone, Running
<1>6. generation' >= generation /\ generation' \in Nat
  BY <1>0 DEF Counts
<1>7. ASSUME Fresh PROVE Fresh'
  BY <1>0, <1>1, <1>3, <1>4, <1>6, <1>7 DEF Fresh, Running
<1> QED BY <1>3, <1>5, <1>7

LEMMA AloneSubmit ==
  ASSUME Types, Alone, NEW c \in Commands, NEW kind \in Kinds, NEW gen \in busy \cup {0},
         Submit(c, kind, gen), UNCHANGED decided,
         kind \notin Starts \cup {"restart"} \/ (kind = "recover" /\ gen # 0)
  PROVE  Alone' /\ (Fresh => Fresh') /\ slot' = slot
<1>1. /\ cmd'[c].gen = gen /\ cmd'[c].pc = EntryPoint(kind) /\ cmd'[c].kind = kind
      /\ \A d \in Commands : d # c => cmd'[d] = cmd[d]
      /\ slot' = slot /\ busy' = busy /\ generation' = generation
  BY SubmitNext
<1>2. kind = "recover" => EntryPoint(kind) = "lock"
  BY DEF EntryPoint
<1>3. kind # "restart"
  BY DEF Starts
<1>4. Alone'
  BY <1>1, <1>2, <1>3 DEF Alone, Running
<1>5. ASSUME Fresh PROVE Fresh'
  BY <1>1, <1>5 DEF Fresh, Running, Starts
<1> QED BY <1>1, <1>4, <1>5

LEMMA OneLast ==
  ASSUME NEW c \in Commands, NEW d \in Commands, LastDisable(c), LastDisable(d)
  PROVE  c = d
<1>1. ~ c > d /\ ~ d > c /\ c \in Nat /\ d \in Nat
  BY DEF LastDisable, Commands
<1> QED BY <1>1

LEMMA AloneKept ==
  ASSUME AloneInv, off' = off, slot'.inst \in {slot.inst, None},
         off # "no" /\ Alone => Alone' /\ (Fresh => Fresh'),
         \A d \in Commands : LastDisable(d)' /\ cmd'[d].pc \in Held =>
           /\ LastDisable(d) /\ cmd'[d].pc = cmd[d].pc /\ cmd'[d].victim = cmd[d].victim
  PROVE  AloneInv'
BY DEF AloneInv, At, LastDisable

(* The mutex lets the last disable in: whatever it does not see is stale.  *)
LEMMA AloneLocks ==
  ASSUME Types, CourseInv, SerialInv, DesiredTypes, PolicyInv, AloneInv, NEW c \in Commands, Locks(c)
  PROVE  AloneInv'
<1>0. /\ cmd[c].pc = "lock" /\ lock = None /\ cmd'[c].pc = "admit" /\ cmd'[c].kind = cmd[c].kind
      /\ cmd'[c].gen = cmd[c].gen
      /\ \A d \in Commands : d # c => cmd'[d] = cmd[d]
      /\ UNCHANGED <<generation, slot, busy, decided, followUp>>
      /\ off' = IF LastDisable(c) /\ Unseen(c) THEN "no" ELSE off
  BY AcquireEffect DEF Locks
<1>1. \A d \in Commands : LastDisable(d) => cmd[d].pc \notin Held
  <2> SUFFICES ASSUME NEW d \in Commands, LastDisable(d), cmd[d].pc \in Held PROVE FALSE
    OBVIOUS
  <2>1. cmd[d].kind = "disable"
    BY DEF PolicyInv, LastDisable, Running, Held, Stages, Stops
  <2>2. d # None
    BY NoneIsNoCommand
  <2> QED BY <1>0, <2>1, <2>2 DEF SerialInv, Serial, Unserialised, Preempting
<1>2. (\A d \in Commands : Running(d) /\ cmd[d].kind \in Starts => cmd[d].pc = "lock")
  <2> SUFFICES ASSUME NEW d \in Commands, Running(d), cmd[d].kind \in Starts PROVE cmd[d].pc = "lock"
    OBVIOUS
  <2>1. cmd[d].pc \notin Held
    BY <1>0, NoneIsNoCommand DEF SerialInv, Serial, Unserialised, Preempting, Starts
  <2>2. Course(cmd[d].pc, cmd[d].kind) /\ cmd[d].pc \in Places
    BY DEF CourseInv, Types, Records, Record
  <2> QED BY <2>1, <2>2 DEF Running, Places, Unconnected, Owned, Held, Stages, Stops, Course, Starts, Preempting
<1>3. CASE LastDisable(c) /\ Unseen(c)
  BY <1>0, <1>3 DEF AloneInv, LastDisable
<1>4. CASE LastDisable(c) /\ ~ Unseen(c)
  <2>1. off' = off /\ off = "begun" /\ cmd[c].kind = "disable"
    BY <1>0, <1>4 DEF LastDisable, PolicyInv, Running
  <2>2. Alone'
    <3>1. "schedule" \notin decided
      BY <1>4 DEF Unseen
    <3>2. \A d \in Commands : Running(d) => cmd[d].kind # "restart" /\ cmd[d].kind \notin Starts
      BY <1>2, <1>4, <2>1 DEF Unseen, At, Starts
    <3> QED BY <1>0, <3>1, <3>2 DEF Alone, Running
  <2>3. \A d \in Commands : LastDisable(d)' /\ cmd'[d].pc \in Held => d = c
    BY <1>0, <1>1, <2>1 DEF LastDisable
  <2> QED BY <1>0, <2>1, <2>2, <2>3 DEF AloneInv, At, Stopping
<1>5. CASE ~ LastDisable(c)
  <2>1. \A d \in Commands : ~ (LastDisable(d)' /\ cmd'[d].pc \in Held)
    <3> SUFFICES ASSUME NEW d \in Commands, LastDisable(d)', cmd'[d].pc \in Held PROVE FALSE
      OBVIOUS
    <3>1. LastDisable(d) /\ d # c
      BY <1>0, <1>5 DEF LastDisable
    <3> QED BY <1>0, <1>1, <3>1
  <2>2. Alone => Alone' /\ (Fresh => Fresh')
    BY <1>0 DEF Alone, Fresh, Running
  <2> QED BY <1>0, <1>5, <2>1, <2>2, AloneKept
<1> QED BY <1>3, <1>4, <1>5

(* The last disable itself runs.                                           *)
LEMMA AloneDisables ==
  ASSUME Types, CourseInv, SerialInv, GenInv, DesiredTypes, PolicyInv, AloneInv,
         NEW c \in Commands, LastDisable(c), Runs(c), Effect(c), Counts(c)
  PROVE  AloneInv'
<1>0. /\ Running(c) /\ cmd[c].kind = "disable" /\ Course(cmd[c].pc, "disable")
      /\ UNCHANGED <<decided, followUp>>
      /\ off' = IF cmd'[c].pc = "done" THEN "done" ELSE off
      /\ off = "begun"
      /\ cmd'[c].pc # "done" => cmd'[c].kind = "disable"
      /\ generation \in Nat /\ \A g \in busy : g \in Nat /\ g <= generation
  BY RunsOn, KindsKept DEF PolicyInv, LastDisable, CourseInv, Runs, Types, GenInv
<1>1. \A d \in Commands : LastDisable(d)' => d = c
  <2> SUFFICES ASSUME NEW d \in Commands, LastDisable(d)' PROVE d = c
    OBVIOUS
  <2>1. LastDisable(d)
    BY <1>0 DEF LastDisable
  <2> QED BY <2>1, OneLast
<1>2. /\ cmd[c].pc \in {"expire", "admit", "bind", "teardown", "stop", "down", "delete", "sms"}
      /\ cmd[c].pc = "expire" => cmd'[c].pc = "lock"
      /\ cmd[c].pc = "admit" => cmd'[c].pc \in {"bind", "done"}
      /\ cmd[c].pc = "bind" => cmd'[c].pc = "teardown"
      /\ cmd[c].pc = "teardown" =>
           \/ Picks(c) /\ cmd'[c].pc = "stop" /\ cmd'[c].victim = slot.inst /\ slot'.inst = slot.inst
           \/ cmd'[c].pc = "sms" /\ slot'.inst = None
      /\ cmd[c].pc = "stop" => cmd'[c].pc \in {"down", "delete"} /\ cmd'[c].victim = cmd[c].victim
      /\ cmd[c].pc = "down" => cmd'[c].pc = "delete" /\ cmd'[c].victim = cmd[c].victim
      /\ cmd[c].pc = "delete" =>
           cmd'[c].pc = "sms" /\ slot'.inst = IF slot.inst = cmd[c].victim THEN None ELSE slot.inst
      /\ cmd[c].pc = "sms" => cmd'[c].pc = "done" /\ slot'.inst = slot.inst
  <2> USE <1>0 DEF Course, Stages, Stops, Preempting
  <2>1. CASE Simple(c)
    BY <2>1 DEF Simple, SimpleArcs, Goes
  <2>2. CASE Returns(c) \/ Cancels(c) \/ Forgets(c) \/ Drops(c) \/ Announces(c) \/ Claims(c)
    BY <2>2 DEF Returns, Ends, Cancels, Forgets, Drops, Announces, Claims
  <2>3. CASE Binds(c) \/ Expires(c) \/ Invalidates(c)
    BY <2>3 DEF Binds, Expires, Invalidates, Goes, FirstStep
  <2>4. CASE Picks(c) \/ Passes(c)
    BY <2>4 DEF Picks, Passes, Goes, Frame, SameEpoch
  <2>5. CASE Deletes(c) \/ Restores(c)
    BY <2>5 DEF Deletes, Restores, Follows, Goes, Ends, SameEpoch
  <2>6. CASE Checks(c) \/ Begins(c) \/ Connects(c)
    BY <2>6 DEF Checks, Begins, Connects
  <2> QED BY <2>1, <2>2, <2>3, <2>4, <2>5, <2>6 DEF Effect, Deed
<1>3. CASE cmd[c].pc = "expire"
  BY <1>0, <1>1, <1>2, <1>3 DEF AloneInv, Held, Stages, Stops
<1>4. ASSUME cmd[c].pc \in Held
      PROVE  /\ Alone' /\ (Fresh => Fresh') /\ slot'.inst \in {slot.inst, None}
             /\ cmd[c].pc # "admit" => Fresh'
             /\ cmd[c].pc \in Stopping => slot.inst \in {None, cmd[c].victim}
             /\ cmd[c].pc = "sms" => slot.inst = None
  <2>1. /\ Alone /\ (cmd[c].pc # "admit" => Fresh)
        /\ cmd[c].pc \in Stopping => slot.inst \in {None, cmd[c].victim}
        /\ cmd[c].pc = "sms" => slot.inst = None
    BY <1>4 DEF AloneInv, At
  <2>2. Alone' /\ (Fresh => Fresh') /\ slot'.inst \in {slot.inst, None}
    BY <1>0, <2>1, AloneRun DEF Starts
  <2> QED BY <2>1, <2>2
<1>5. CASE cmd[c].pc = "admit"
  <2>1. cmd[c].gen = 0
    BY <1>0, <1>5 DEF GenInv
  <2>2. /\ cmd'[c].pc = "bind" /\ generation' = generation + 1 /\ busy' = busy
        /\ \A d \in Commands : d # c => cmd'[d].gen = cmd[d].gen
    BY <1>0, <1>2, <1>5, <2>1 DEF Counts, Stale
  <2>3. \A d \in Commands : cmd[d].gen \in Nat /\ cmd[d].gen <= generation
    BY DEF GenInv, Types, Records, Record
  <2>4. Fresh'
    BY <1>0, <2>2, <2>3 DEF Fresh, Starts
  <2>5. Alone'
    BY <1>4, <1>5 DEF Held
  <2> QED BY <1>0, <1>1, <2>2, <2>4, <2>5 DEF AloneInv, Stopping, At
<1>6. CASE cmd[c].pc \in {"bind", "teardown", "stop", "down", "delete", "sms"}
  <2>1. /\ Alone' /\ Fresh' /\ slot'.inst \in {slot.inst, None}
        /\ cmd[c].pc \in Stopping => slot.inst \in {None, cmd[c].victim}
        /\ cmd[c].pc = "sms" => slot.inst = None
    BY <1>4, <1>6 DEF Held, Stops
  <2>2. /\ cmd'[c].pc \in Stopping => slot'.inst \in {None, cmd'[c].victim}
        /\ cmd'[c].pc \in {"sms", "done"} => slot'.inst = None
    BY <1>2, <1>6, <2>1 DEF Stopping
  <2> QED BY <1>0, <1>1, <2>1, <2>2 DEF AloneInv, At
<1> QED BY <1>2, <1>3, <1>5, <1>6

LEMMA AloneRuns ==
  ASSUME Types, CourseInv, SerialInv, GenInv, DesiredTypes, PolicyInv, AloneInv,
         NEW c \in Commands, Runs(c)
  PROVE  AloneInv'
<1>0. Effect(c) /\ Counts(c) /\ UNCHANGED <<decided, followUp>>
      /\ off' = IF cmd'[c].pc = "done" /\ LastDisable(c) THEN "done" ELSE off
  BY Effects, CountsRun DEF Runs
<1>1. CASE LastDisable(c)
  BY <1>0, <1>1, AloneDisables
<1>2. CASE ~ LastDisable(c)
  <2>0. /\ off' = off /\ \A d \in Commands : LastDisable(d)' => LastDisable(d) /\ d # c
        /\ \A d \in Commands : d # c => cmd'[d].pc = cmd[d].pc /\ cmd'[d].victim = cmd[d].victim
    BY <1>0, <1>2 DEF LastDisable, Effect
  <2>1. ASSUME NEW d \in Commands, LastDisable(d), cmd[d].pc \in Held PROVE Alone /\ cmd[c].kind \notin Starts
    <3>1. Alone /\ d # c /\ cmd[d].kind = "disable" /\ off = "begun"
      BY <1>2, <2>1 DEF AloneInv, PolicyInv, LastDisable, Running, Held, Stages, Stops
    <3>2. lock = d
      BY <2>1, <3>1 DEF SerialInv, Serial, Unserialised, Preempting
    <3>3. ASSUME cmd[c].kind \in Starts PROVE FALSE
      <4>1. cmd[c].pc \in {"lock", "admit"}
        BY <1>0, <3>1, <3>3, RunsOn DEF Alone
      <4>2. cmd[c].pc # "lock"
        BY <1>0 DEF Effect, Deed, Simple, SimpleArcs, Returns, Cancels, Binds,
          Expires, Invalidates, Picks, Passes, Deletes, Restores, Begins, Connects, Checks, Claims,
          Forgets, Drops, Announces
      <4>3. lock = c
        BY <3>3, <4>1, <4>2 DEF SerialInv, Serial, Unserialised, Preempting, Starts, Held
      <4> QED BY <3>1, <3>2, <4>3
    <3> QED BY <3>1, <3>3
  <2>2. ASSUME NEW d \in Commands, LastDisable(d), cmd[d].pc \in Held
        PROVE  Alone' /\ (Fresh => Fresh') /\ slot'.inst \in {slot.inst, None}
    BY <1>0, <2>1, <2>2, AloneRun
  <2>3. ASSUME off = "done" PROVE Alone' /\ Fresh' /\ slot'.inst = None
    <3>1. Alone /\ Fresh /\ slot.inst = None
      BY <2>3 DEF AloneInv
    <3> QED BY <1>0, <3>1, AloneRun
  <2> QED BY <2>0, <2>2, <2>3 DEF AloneInv, At
<1> QED BY <1>1, <1>2

LEMMA AloneStep ==
  /\ Types /\ CourseInv /\ SerialInv /\ OrderInv /\ GenInv /\ DesiredTypes /\ PolicyInv /\ AloneInv
  /\ [DesiredNext]_allVars
  => AloneInv'
<1> SUFFICES ASSUME Types, CourseInv, SerialInv, OrderInv, GenInv, DesiredTypes, PolicyInv, AloneInv,
                    [DesiredNext]_allVars
             PROVE  AloneInv'
  OBVIOUS
<1>0. Others \subseteq Kinds /\ {"enable", "disable", "recover"} \subseteq Kinds
      /\ \A g \in busy : g # 0
  BY DesiredAssumption DEF Others, GenInv
<1>1. ASSUME NEW on \in BOOLEAN, SetWanted(on) PROVE AloneInv'
  BY <1>1 DEF SetWanted, AloneInv, LastDisable
<1>2. ASSUME UNCHANGED <<generation, slot, busy, cmd, followUp, off>>,
             off # "no" => decided' \subseteq decided \cup {"clear"}
      PROVE  AloneInv'
  <2>1. off # "no" /\ Alone => Alone' /\ (Fresh => Fresh')
    BY <1>2 DEF Alone, Fresh, Running
  <2> QED BY <1>2, <2>1, AloneKept DEF LastDisable
<1>3. ASSUME NEW c \in Commands, At(c, "done"), UNCHANGED <<generation, slot, busy, cmd, off>>,
             off # "no" => decided' \subseteq decided \cup {"clear"},
             followUp' = [followUp EXCEPT ![c] = "nothing"]
      PROVE  AloneInv'
  <2>1. off # "no" /\ Alone => Alone' /\ (Fresh => Fresh')
    BY <1>3 DEF Alone, Fresh, Running
  <2>2. \A d \in Commands : LastDisable(d)' => LastDisable(d) /\ d # c
    BY <1>3, FollowUps DEF At, Running
  <2> QED BY <1>3, <2>1, <2>2, AloneKept
<1>4. ASSUME NEW c \in Commands, NEW kind \in Kinds, NEW gen \in busy \cup {0}, Submit(c, kind, gen),
             UNCHANGED <<off, followUp, decided>>,
             off # "no" => kind \notin Starts \cup {"restart"} \/ (kind = "recover" /\ gen # 0)
      PROVE  AloneInv'
  <2>1. cmd[c].pc = "unused" /\ slot' = slot /\ \A d \in Commands : d # c => cmd'[d] = cmd[d]
    BY <1>4, SubmitNext
  <2>2. off # "no" /\ Alone => Alone' /\ (Fresh => Fresh')
    BY <1>4, AloneSubmit
  <2>3. \A d \in Commands : LastDisable(d)' => LastDisable(d) /\ d # c
    BY <1>4, <2>1 DEF LastDisable, PolicyInv
  <2> QED BY <1>4, <2>1, <2>2, <2>3, AloneKept
<1>5. ASSUME NEW c \in Commands, asked # "none", SubmitAsked(c) PROVE AloneInv'
  <2>1. off' # "done" /\ \A d \in Commands : LastDisable(d)' => cmd'[d].pc \notin Held
    BY <1>5, SubmitAskedPolicy DEF Held, Stages, Stops
  <2> QED BY <2>1 DEF AloneInv
<1>6. CASE Schedule
  <2>0. "schedule" \in decided /\ off' = off
    BY <1>6 DEF Schedule
  <2>1. off # "done" /\ \A d \in Commands : LastDisable(d) => cmd[d].pc \notin Held
    BY <2>0 DEF AloneInv, Alone
  <2>2. CASE UNCHANGED <<vars, followUp>>
    BY <2>0, <2>1, <2>2 DEF AloneInv, LastDisable, vars
  <2>3. ASSUME NEW c \in Commands, Submit(c, "recover", 0), followUp' = [followUp EXCEPT ![c] = "record"]
        PROVE  AloneInv'
    <3>1. cmd[c].pc = "unused" /\ \A d \in Commands : d # c => cmd'[d] = cmd[d]
      BY <1>0, <2>3, SubmitNext
    <3>2. \A d \in Commands : LastDisable(d)' => LastDisable(d) /\ d # c
      BY <2>0, <2>3, <3>1, FollowUps DEF Running
    <3> QED BY <2>0, <2>1, <3>1, <3>2 DEF AloneInv
  <2> QED BY <1>6, <2>2, <2>3 DEF Schedule
<1>7. ASSUME NEW c \in Commands, ApplyPolicy(c) \/ MarkResult(c) PROVE AloneInv'
  <2>1. off # "no" => ~ wanted
    BY DEF PolicyInv
  <2> QED BY <1>3, <1>7, <2>1 DEF ApplyPolicy, MarkResult, vars, control, radio
<1>8. ASSUME NEW c \in Commands, NEW kind \in Others, SubmitOther(c, kind) PROVE AloneInv'
  <2>1. off # "no" => kind \notin Starts \cup {"restart"}
    BY <1>8 DEF PolicyInv, SubmitOther, Others, Starts
  <2> QED BY <1>0, <1>4, <1>8, <2>1 DEF SubmitOther
<1>9. ASSUME NEW c \in Commands, SIMRemoved(c) PROVE AloneInv'
  <2>1. "disable" \notin Starts \cup {"restart"}
    BY DEF Starts
  <2> QED BY <1>0, <1>4, <1>9, <2>1 DEF SIMRemoved
<1>10. ASSUME NEW c \in Commands, NEW gen \in busy, Retry(c, gen) PROVE AloneInv'
  BY <1>0, <1>4, <1>10 DEF Retry, desiredVars
<1>11. ASSUME NEW c \in Commands, Locks(c) PROVE AloneInv'
  BY <1>11, AloneLocks
<1>12. ASSUME NEW c \in Commands, Runs(c) PROVE AloneInv'
  BY <1>12, AloneRuns
<1>13. CASE RefuseAsked \/ Consider \/ NextAttemptDue \/ ClearRecord \/ ForgetRecord
  <2>1. off # "no" => ~ wanted
    BY DEF PolicyInv
  <2> QED BY <1>2, <1>13, <2>1 DEF RefuseAsked, Consider, NextAttemptDue, ClearRecord, ForgetRecord,
      vars, control, radio
<1>14. CASE EndSwitch /\ UNCHANGED desiredVars
  BY <1>2, <1>14 DEF EndSwitch, desiredVars, control
<1>15. CASE UNCHANGED allVars
  BY <1>2, <1>15 DEF allVars, vars, desiredVars, control, radio
<1> QED BY <1>1, <1>5, <1>6, <1>7, <1>8, <1>9, <1>10, <1>11, <1>12, <1>13, <1>14, <1>15 DEF DesiredNext

-----------------------------------------------------------------------------
(* The inductive invariant of the desired-state layer.                     *)
DesiredInv ==
  /\ LifecycleInv /\ CommandInv /\ GenInv /\ CountInv
  /\ DesiredTypes /\ PolicyInv /\ AloneInv

LEMMA DesiredInitHolds == DesiredInit => DesiredInv
<1> SUFFICES ASSUME DesiredInit PROVE DesiredInv
  OBVIOUS
<1>1. LifecycleInv /\ CommandInv
  BY LifecycleInit, CommandInit DEF DesiredInit
<1>2. /\ generation = 0 /\ runCancel = None /\ slot.epoch = 0 /\ smsMode = "modem" /\ busy = {}
      /\ escaped = {}
      /\ \A c \in Commands : cmd[c].pc = "unused" /\ cmd[c].kind = "enable" /\ cmd[c].gen = 0
  BY DEF DesiredInit, Init, ZeroSlot, NotSubmitted
<1>3. GenInv
  BY <1>2 DEF GenInv, Numbering, Stops, Stages
<1>4. CountInv
  <2>1. Cardinality(Numbered) \in Nat /\ Cardinality(Expired) \in Nat /\ Cardinality(Invalidated) \in Nat
    BY CommandSets DEF Numbered, Expired, Invalidated
  <2> QED BY <1>2, <2>1 DEF CountInv
<1>5. DesiredTypes /\ PolicyInv /\ AloneInv
  BY <1>2 DEF DesiredInit, DesiredTypes, PolicyInv, AloneInv, LastDisable
<1> QED BY <1>1, <1>3, <1>4, <1>5 DEF DesiredInv

LEMMA DesiredStep == DesiredInv /\ [DesiredNext]_allVars /\ [Next]_vars => DesiredInv'
<1> SUFFICES ASSUME DesiredInv, [DesiredNext]_allVars, [Next]_vars PROVE DesiredInv'
  OBVIOUS
<1>1. Types /\ CourseInv /\ SerialInv /\ OrderInv
  BY DEF DesiredInv, LifecycleInv, CommandInv
<1>2. LifecycleInv' /\ CommandInv'
  BY LifecycleStep, CommandStep DEF DesiredInv
<1>3. GenInv' /\ CountInv'
  BY <1>1, GenStep, CountStep DEF DesiredInv
<1>4. DesiredTypes' /\ PolicyInv' /\ AloneInv'
  BY <1>1, DesiredTypesStep, PolicyStep, AloneStep DEF DesiredInv
<1> QED BY <1>2, <1>3, <1>4 DEF DesiredInv

LEMMA DesiredInvHolds == DesiredSpec => []DesiredInv
<1>1. DesiredSpec => [][Next]_vars
  BY DesiredImplementsLifecycle, PTL DEF Spec
<1> QED BY <1>1, DesiredInitHolds, DesiredStep, PTL DEF DesiredSpec

(* For any number of commands: the types of the two layers, with the       *)
(* mutex's owner and runCancel's a command that has not returned; a command *)
(* takes one generation number and invalidates the slot at most twice      *)
(* (nextGeneration, runMu and clearRun, controller.go).                    *)
THEOREM DesiredTypeHolds == DesiredSpec => []DesiredTypeOK
<1>1. DesiredInv => DesiredTypeOK
  <2> SUFFICES ASSUME DesiredInv PROVE DesiredTypeOK
    OBVIOUS
  <2>1. Types /\ SerialInv /\ OrderInv /\ CountInv /\ DesiredTypes
    BY DEF DesiredInv, LifecycleInv, CommandInv
  <2>2. /\ Numbered \subseteq Commands /\ Expired \subseteq Commands /\ Invalidated \subseteq Commands
    BY DEF Numbered, Expired, Invalidated
  <2>3. /\ Cardinality(Numbered) \in Nat /\ Cardinality(Numbered) <= MaxCommands
        /\ Cardinality(Expired) \in Nat /\ Cardinality(Expired) <= MaxCommands
        /\ Cardinality(Invalidated) \in Nat /\ Cardinality(Invalidated) <= MaxCommands
    BY <2>2, CommandSets
  <2>4. generation \in 0 .. MaxCommands /\ slot.epoch \in 0 .. 2 * MaxCommands
    BY <2>1, <2>3, CommandsAssumption DEF Types, Slots, CountInv
  <2>5. lock # None => lock \in Commands /\ Running(lock)
    BY <2>1 DEF SerialInv, Running, Held, Stages, Stops
  <2>6. slot \in [inst : Commands \cup {None}, starting : BOOLEAN,
                  epoch : 0 .. 2 * MaxCommands, hasState : BOOLEAN, failed : BOOLEAN]
    BY <2>1, <2>4 DEF Types, Slots
  <2>7. runCancel # None => runCancel \in Commands /\ Running(runCancel)
    BY <2>1 DEF CountInv
  <2>8. TypeOK
    BY <2>1, <2>4, <2>5, <2>6, <2>7 DEF TypeOK, Types, OrderInv, CountInv
  <2> QED BY <2>1, <2>8 DEF DesiredTypeOK, DesiredTypes
<1> QED BY <1>1, DesiredInvHolds, PTL

(* For any number of commands: VoWiFi that a user has disabled stays down  *)
(* until it is enabled again, since whatever the disable did not see when  *)
(* it took the mutex is a retry of a start whose number is out of date     *)
(* (Manager.Disable, submitRun's stale check, scheduleVoWiFiAPDUBusyRecover). *)
THEOREM DisabledStaysOffHolds == DesiredSpec => []DisabledStaysOff
<1>1. DesiredInv => DisabledStaysOff
  BY DEF DesiredInv, AloneInv, DisabledStaysOff
<1> QED BY <1>1, DesiredInvHolds, PTL

-----------------------------------------------------------------------------
(* What keeps the reconciler away.                                         *)

(* A start between BeginStart and its claim or failure.                    *)
MayClear == {"prepare", "start", "connect", "tunnel", "claim", "error", "fail"}

(* Whatever keeps the reconciler from starting a missing VoWiFi is in the  *)
(* hands of a command: the starting flag in those of a start that has not  *)
(* ended and whose epoch, being the slot's, lets its claim succeed or its  *)
(* failure take the flag back; the recovery in flight in those of one that *)
(* was submitted and whose result has not been recorded.                   *)
StartIsOwned ==
  slot.starting =>
    slot.inst = None /\ \E c \in Commands : cmd[c].pc \in MayClear /\ cmd[c].epoch = slot.epoch

RecoveryIsOwned ==
  inFlight => \E c \in Commands : followUp[c] = "record" /\ ~ At(c, "unused")

FlagsHaveOwners == StartIsOwned /\ RecoveryIsOwned

LEMMA StartingKept ==
  ASSUME Types, NEW c \in Commands, Run(c), slot'.starting
  PROVE  \/ cmd[c].pc = "begin" /\ slot.inst = None /\ SameEpoch /\ cmd'[c].pc = "prepare"
            /\ cmd'[c].epoch = slot.epoch
         \/ slot.starting /\ SameEpoch
<1>0. slot \in Slots /\ cmd[c] \in Record
  BY DEF Types, Records
<1>1. CASE UNCHANGED slot
  BY <1>0, <1>1 DEF SameEpoch
<1>2. CASE Expire(c) \/ Invalidate(c) \/ DeleteInstance(c)
  BY <1>0, <1>2 DEF Expire, Invalidate, DeleteInstance, InvalidateSlot, ZeroSlot, Slots, SameEpoch
<1>3. CASE EndStop(c) \/ Prepare(c) \/ StartInstance(c) \/ Discard(c)
  BY <1>0, <1>3 DEF EndStop, Prepare, StartInstance, Discard, Observed, RecordStartupState, Slots, SameEpoch
<1>4. CASE Forget(c) \/ ClearStartupState(c) \/ HandleStartupError(c)
  BY <1>0, <1>4 DEF Forget, ClearStartupState, HandleStartupError, Cleared, ZeroSlot, Slots, SameEpoch
<1>5. CASE ClaimStarted(c)
  BY <1>0, <1>5 DEF ClaimStarted, ZeroSlot, Slots, SameEpoch
<1>6. CASE FailStart(c)
  BY <1>0, <1>6 DEF FailStart, Slots, SameEpoch
<1>7. CASE BeginStart(c)
  <2>1. CASE slot' = slot
    BY <1>1, <2>1
  <2>2. CASE /\ slot.inst = None
             /\ slot' = [slot EXCEPT !.starting = TRUE, !.failed = FALSE]
             /\ cmd' = [cmd EXCEPT ![c].pc = "prepare", ![c].epoch = slot.epoch]
    <3>1. cmd'[c].pc = "prepare" /\ cmd'[c].epoch = slot.epoch
      <4> DEFINE new == [cmd[c] EXCEPT !.pc = "prepare", !.epoch = slot.epoch]
      <4>1. cmd' = [cmd EXCEPT ![c] = new]
        BY <2>2
      <4>2. new.pc = "prepare" /\ new.epoch = slot.epoch
        BY <1>0 DEF Record
      <4> HIDE DEF new
      <4> QED BY <4>1, <4>2 DEF Types, Records
    <3>2. SameEpoch
      BY <1>0, <2>2 DEF Slots, SameEpoch
    <3> QED BY <1>7, <2>2, <3>1, <3>2 DEF BeginStart, At
  <2> QED BY <1>7, <2>1, <2>2 DEF BeginStart
<1> QED BY <1>1, <1>2, <1>3, <1>4, <1>5, <1>6, <1>7 DEF Run, Admit, Number, CancelActiveRun,
  BindRunContext, ReadInstance, BeginStop, RestoreSMSMode, WaitReady, SkipActive, CheckSwitching,
  ConnectInstance, Establish, MarkRuntimeStarted

(* The owner lets go of the flag with its own hand only: where its epoch   *)
(* is the slot's its claim succeeds, and so does taking the flag back.     *)
LEMMA OwnerClears ==
  ASSUME Types, NEW c \in Commands, Run(c), slot'.starting, slot.inst = None,
         cmd[c].pc \in MayClear, cmd[c].epoch = slot.epoch
  PROVE  cmd'[c].pc \in MayClear /\ cmd'[c].epoch = cmd[c].epoch
<1>0. slot \in Slots /\ Effect(c)
  BY Effects DEF Types
<1>1. ~ ClaimStarted(c)
  BY <1>0 DEF ClaimStarted, Claimable, ZeroSlot
<1>2. ~ FailStart(c)
  BY <1>0 DEF FailStart, Slots
<1>3. cmd[c].pc \notin {"claim", "fail"}
  BY <1>1, <1>2 DEF Run, MayClear, At, Admit, Number, CancelActiveRun,
    BindRunContext, ReadInstance, BeginStop, RestoreSMSMode, WaitReady, SkipActive, CheckSwitching,
    ConnectInstance, Establish, MarkRuntimeStarted, Expire, Invalidate, DeleteInstance, EndStop,
    Prepare, StartInstance, Discard, Forget, ClearStartupState, HandleStartupError, BeginStart
<1> QED BY <1>0, <1>3 DEF MayClear, Effect, Deed, Simple, SimpleArcs, Returns, Cancels, Binds,
  Expires, Invalidates, Picks, Passes, Deletes, Restores, Checks, Begins, Connects, Claims,
  Forgets, Drops, Announces, Goes

LEMMA StartRun ==
  ASSUME Types, StartIsOwned, NEW c \in Commands, Run(c)
  PROVE  StartIsOwned'
<1> SUFFICES ASSUME slot'.starting
             PROVE  /\ slot'.inst = None
                    /\ \E d \in Commands : cmd'[d].pc \in MayClear /\ cmd'[d].epoch = slot'.epoch
  BY DEF StartIsOwned
<1>1. CASE cmd[c].pc = "begin" /\ slot.inst = None /\ SameEpoch /\ cmd'[c].pc = "prepare"
           /\ cmd'[c].epoch = slot.epoch
  BY <1>1 DEF SameEpoch, MayClear
<1>2. CASE slot.starting /\ SameEpoch
  <2>1. PICK d \in Commands : cmd[d].pc \in MayClear /\ cmd[d].epoch = slot.epoch
    BY <1>2 DEF StartIsOwned
  <2>2. slot.inst = None
    BY <1>2 DEF StartIsOwned
  <2>3. cmd'[d].pc \in MayClear /\ cmd'[d].epoch = cmd[d].epoch
    <3>1. CASE d = c
      BY <2>1, <2>2, <3>1, OwnerClears
    <3>2. CASE d # c
      BY <2>1, <3>2, Effects DEF Effect
    <3> QED BY <3>1, <3>2
  <2> QED BY <1>2, <2>1, <2>2, <2>3 DEF SameEpoch
<1> QED BY <1>1, <1>2, StartingKept

LEMMA StartIsOwnedStep == Types /\ StartIsOwned /\ [Next]_vars => StartIsOwned'
<1> SUFFICES ASSUME Types, StartIsOwned, [Next]_vars PROVE StartIsOwned'
  OBVIOUS
<1>1. ASSUME NEW c \in Commands, NEW kind \in Kinds, NEW gen \in busy \cup {0}, Submit(c, kind, gen)
      PROVE  StartIsOwned'
  <2>1. /\ slot' = slot /\ cmd[c].pc = "unused"
        /\ \A d \in Commands : d # c => cmd'[d] = cmd[d]
    BY <1>1, SubmitNext
  <2> QED BY <2>1 DEF StartIsOwned, MayClear
<1>2. ASSUME NEW c \in Commands, AcquireLock(c) PROVE StartIsOwned'
  <2>1. /\ slot' = slot /\ cmd[c].pc = "lock"
        /\ \A d \in Commands : d # c => cmd'[d] = cmd[d]
    BY <1>2, AcquireEffect
  <2> QED BY <2>1 DEF StartIsOwned, MayClear
<1>3. ASSUME NEW c \in Commands, Run(c) PROVE StartIsOwned'
  BY <1>3, StartRun
<1>4. CASE UNCHANGED <<slot, cmd>>
  BY <1>4 DEF StartIsOwned
<1> QED BY <1>1, <1>2, <1>3, <1>4 DEF Next, EndSwitch, vars

(* No step un-submits a command.                                           *)
LEMMA SubmittedStays ==
  ASSUME Types, [Next]_vars, NEW d \in Commands, cmd[d].pc # "unused"
  PROVE  cmd'[d].pc # "unused"
<1>1. ASSUME NEW c \in Commands, NEW kind \in Kinds, NEW gen \in busy \cup {0}, Submit(c, kind, gen)
      PROVE  cmd'[d].pc # "unused"
  BY <1>1, SubmitNext
<1>2. ASSUME NEW c \in Commands, AcquireLock(c) PROVE cmd'[d].pc # "unused"
  BY <1>2, AcquireEffect
<1>3. ASSUME NEW c \in Commands, Run(c) PROVE cmd'[d].pc # "unused"
  <2>1. cmd'[c].pc # "unused"
    BY <1>3, Effects DEF Effect, Deed, Simple, SimpleArcs, Returns, Cancels, Binds, Expires,
      Invalidates, Picks, Passes, Deletes, Restores, Checks, Begins, Connects, Claims, Forgets,
      Drops, Announces, Goes, Ends, Follows, FirstStep
  <2> QED BY <1>3, <2>1, Effects DEF Effect
<1>4. CASE UNCHANGED cmd
  BY <1>4
<1> QED BY <1>1, <1>2, <1>3, <1>4 DEF Next, EndSwitch, vars

LEMMA RecoveryIsOwnedStep ==
  Types /\ DesiredTypes /\ RecoveryIsOwned /\ [DesiredNext]_allVars /\ [Next]_vars
  => RecoveryIsOwned'
<1> SUFFICES ASSUME Types, DesiredTypes, RecoveryIsOwned, [DesiredNext]_allVars, [Next]_vars, inFlight'
             PROVE  \E d \in Commands : followUp'[d] = "record" /\ cmd'[d].pc # "unused"
  BY DEF RecoveryIsOwned, At
<1>1. CASE inFlight /\ UNCHANGED followUp
  <2>1. PICK d \in Commands : followUp[d] = "record" /\ cmd[d].pc # "unused"
    BY <1>1 DEF RecoveryIsOwned, At
  <2> QED BY <1>1, <2>1, SubmittedStays
<1>2. ASSUME NEW c \in Commands, asked # "none", SubmitAsked(c)
      PROVE  \E d \in Commands : followUp'[d] = "record" /\ cmd'[d].pc # "unused"
  <2>1. PICK d \in Commands : followUp[d] = "record" /\ cmd[d].pc # "unused"
    BY <1>2 DEF SubmitAsked, RecoveryIsOwned, At, recordVars
  <2>2. followUp'[d] = "record"
    BY <1>2, <2>1 DEF SubmitAsked, Submit, At, DesiredTypes
  <2> QED BY <2>1, <2>2, SubmittedStays
<1>3. ASSUME NEW c \in Commands, ApplyPolicy(c)
      PROVE  \E d \in Commands : followUp'[d] = "record" /\ cmd'[d].pc # "unused"
  <2>1. PICK d \in Commands : followUp[d] = "record" /\ cmd[d].pc # "unused"
    BY <1>3 DEF ApplyPolicy, RecoveryIsOwned, At, recordVars
  <2>2. followUp'[d] = "record"
    BY <1>3, <2>1 DEF ApplyPolicy, DesiredTypes
  <2> QED BY <2>1, <2>2, SubmittedStays
<1>4. ASSUME Schedule, ~ (inFlight /\ UNCHANGED followUp)
      PROVE  \E d \in Commands : followUp'[d] = "record" /\ cmd'[d].pc # "unused"
  <2>1. PICK c \in Commands : Submit(c, "recover", 0) /\ followUp' = [followUp EXCEPT ![c] = "record"]
    BY <1>4 DEF Schedule
  <2>2. cmd'[c].pc # "unused"
    BY <2>1, SubmitNext, DesiredAssumption
  <2> QED BY <2>1, <2>2 DEF DesiredTypes
<1> QED BY <1>1, <1>2, <1>3, <1>4 DEF DesiredNext, allVars, desiredVars, recordVars, SetWanted,
  RefuseAsked, Consider, NextAttemptDue, ClearRecord, ForgetRecord, MarkResult, SubmitOther,
  SIMRemoved, Retry, Locks, Runs, NoRecord

(* For any number of commands: what keeps the reconciler from starting a   *)
(* wanted VoWiFi that is down, the starting flag and the recovery in       *)
(* flight, always belongs to a command that has still to give it back,     *)
(* through preemptions, invalidations and epochs that are taken anew       *)
(* (Store.FailStart and ClaimStarted, BeginDesiredRecover and              *)
(* markDesiredVoWiFiRecoverResult).                                        *)
THEOREM FlagsHaveOwnersHolds == DesiredSpec => []FlagsHaveOwners
<1>1. DesiredInit => FlagsHaveOwners
  BY DEF DesiredInit, Init, ZeroSlot, FlagsHaveOwners, StartIsOwned, RecoveryIsOwned
<1>2. DesiredInv /\ FlagsHaveOwners /\ [DesiredNext]_allVars /\ [Next]_vars => FlagsHaveOwners'
  BY StartIsOwnedStep, RecoveryIsOwnedStep DEF FlagsHaveOwners, DesiredInv, LifecycleInv
<1>3. DesiredSpec => [][Next]_vars
  BY DesiredImplementsLifecycle, PTL DEF Spec
<1> QED BY <1>1, <1>2, <1>3, DesiredInvHolds, PTL DEF DesiredSpec
=============================================================================
