-------------------------- MODULE QmiManagerProofs --------------------------
(***************************************************************************)
(* What the QMI connection manager keeps for any number of handles, any    *)
(* capacity of its channel and any number of commands, resets and retries: *)
(* no call is forgotten, no dial meets a closed service, nothing comes     *)
(* back after Stop and no retry outlives its recovery.                     *)
(***************************************************************************)
EXTENDS QmiManager, SequenceTheorems, TLAPS

Loop == pc["loop"]
User == pc["user"]

Queued(e) == \E i \in DOMAIN queue : queue[i] = e

(* The core's life: nothing runs before it is opened, it is ready only     *)
(* with services, and Stop lets no other command in.                       *)
CoreInv ==
  /\ ctx = "none" => /\ inds = "ended" /\ ~coreReady
                     /\ User \in {"idle", "starting", "opened"}
                     /\ (User # "opened" => services = "closed")
  /\ User = "opened" => services # "closed"
  /\ coreReady => services # "closed"
  /\ Loop = "opening" => services = "closed"
  /\ Loop \in {"quiet", "identity"} => services # "closed"
  /\ stop # "none" => User \in {"idle", "hangup", "settle"} /\ ctx = "done"
  /\ Queued("stop") => stop # "none"

(* What Stop has left.                                                     *)
StopInv ==
  stop = "returned" =>
    /\ Loop = "ended" /\ inds = "ended" /\ ~notice
    /\ state = "disconnected" /\ services = "closed" /\ handle = 0
    /\ ~coreReady /\ calls = {} /\ timers = {}

(* Who dials, and which call is up.                                        *)
CallInv ==
  /\ calls \subseteq {handle} /\ (calls # {} => services = "data")
  /\ \A l \in {Loop, User} : l \in {"ensure", "call"} => calls = {} /\ state # "connected"
  /\ \A l \in {Loop, User} : l \in Dialing => desired
  /\ \A l \in {Loop, User} : l \in {"call", "configure"} => services = "data"
  /\ Loop \in Dialing => User \notin Dialing /\ state = "connecting"
  /\ User \in {"hangup", "settle"} => ~desired
  /\ User \in {"opened", "settle"} => calls = {}
  /\ ~desired /\ stop = "none" => calls = {} \/ User = "hangup"
  /\ state = "disconnected" /\ calls # {} => User = "configure" \/ Loop = "teardown"
  /\ \/ Loop = "query" /\ seen.state = "connected"
     \/ Loop \in {"hangup", "settle"} /\ seen.next # "teardown"
     => User \notin {"ensure", "call"}
  /\ Loop = "settle" /\ seen.next # "teardown" => calls = {}
  /\ Loop \in {"opening", "quiet", "identity"} => calls = {} /\ User \notin Dialing

(* An eventStart, or what will become one, finds services.                 *)
HasStart == sender \/ "start" \in timers \/ Queued("start")

StartInv ==
  services = "closed" /\ stop # "returned" =>
    /\ ~HasStart /\ Loop \notin Dialing \cup {"sendStart"} /\ seen.next # "sendStart"
    /\ User \notin Dialing \cup {"connect"}

(* The loop runs only on an opened core; what it does after hanging up is  *)
(* settled before it hangs up.                                             *)
NextInv ==
  /\ User \in {"starting", "opened"} => ctx = "none"
  /\ ctx = "none" => Loop = "ended"
  /\ seen.next # "idle" => Loop \in {"hangup", "settle"}

RetryInv ==
  /\ Loop \in {"opening", "quiet", "identity"} => "retry" \notin timers /\ ~coreReady
  /\ RetryOnlyWhileDown

ManagerInv ==
  /\ TypeOK /\ NextInv /\ RetryInv
  /\ "overlapped" \notin marks => CoreInv /\ StopInv /\ CallInv
  /\ marks \cap {"overlapped", "lateStart"} = {} => StartInv
-----------------------------------------------------------------------------
(* Types *)

LEMMA TypesInit == Init => TypeOK
<1> SUFFICES ASSUME Init PROVE TypeOK
  OBVIOUS
<1>1. pc \in [Processes -> LoopPCs \cup UserPCs] /\ Loop = "ended" /\ User = "idle"
  BY DEF Init, Loop, User, Processes, LoopPCs, UserPCs
<1>2. queue \in Seq(Events) /\ Len(queue) <= QueueLimit
  BY ManagerAssumption DEF Init
<1>3. seen \in [state : States, desired : BOOLEAN, next : {"idle", "sendStart", "teardown"}]
  BY DEF Init, Nothing, States
<1>4. /\ Loop \in LoopPCs /\ User \in UserPCs /\ state \in States /\ attempts \in 0 .. MaxRetries
      /\ outside \in 0 .. MaxOutside
  BY <1>1, ManagerAssumption DEF Init, LoopPCs, UserPCs, States
<1>5. {pending, deferred, recent, exhausted, broken, notice} \subseteq BOOLEAN
  BY DEF Init
<1> QED BY <1>1, <1>2, <1>3, <1>4, <1>5 DEF Init, TypeOK, Loop, User

(* An event that is appended fits, one that is taken leaves room.          *)
LEMMA QueueAppends ==
  ASSUME TypeOK, ~Full, NEW e \in Events, queue' = Append(queue, e)
  PROVE  queue' \in Seq(Events) /\ Len(queue') <= QueueLimit
BY ManagerAssumption DEF TypeOK, Full

LEMMA QueueShrinks ==
  ASSUME TypeOK, queue # <<>>, queue' = Tail(queue)
  PROVE  queue' \in Seq(Events) /\ Len(queue') <= QueueLimit
BY ManagerAssumption DEF TypeOK

(* A step of one process.                                                  *)
LEMMA ProcessGoes ==
  ASSUME pc \in [Processes -> LoopPCs \cup UserPCs], NEW p \in Processes, NEW l, l \in LoopPCs \cup UserPCs, Goes(p, l)
  PROVE  /\ pc' \in [Processes -> LoopPCs \cup UserPCs] /\ pc'[p] = l
         /\ \A q \in Processes : q # p => pc'[q] = pc[q]
BY DEF Goes

(* The types in five parts, that a step changes one by one.               *)
QueueOK == queue \in Seq(Events) /\ Len(queue) <= QueueLimit
PlaceOK ==
  /\ pc \in [Processes -> LoopPCs \cup UserPCs] /\ Loop \in LoopPCs /\ User \in UserPCs
  /\ seen \in [state : States, desired : BOOLEAN, next : {"idle", "sendStart", "teardown"}]
EnumOK ==
  /\ state \in States /\ services \in {"closed", "control", "data"} /\ timers \subseteq Timers
  /\ inds \in {"reading", "blocked", "ended"}
  /\ ctx \in {"none", "live", "done"} /\ stop \in {"none", "waiting", "returned"}
  /\ handle \in Handles \cup {0} /\ calls \subseteq Handles
  /\ marks \subseteq {"overlapped", "lateStart", "swallowed"}
FlagOK ==
  /\ desired \in BOOLEAN /\ coreReady \in BOOLEAN /\ sender \in BOOLEAN
  /\ pending \in BOOLEAN /\ deferred \in BOOLEAN /\ recent \in BOOLEAN
  /\ exhausted \in BOOLEAN /\ broken \in BOOLEAN /\ notice \in BOOLEAN
CountOK == attempts \in 0 .. MaxRetries /\ outside \in 0 .. MaxOutside

LEMMA TypesAre == TypeOK <=> QueueOK /\ PlaceOK /\ EnumOK /\ FlagOK /\ CountOK
<1>1. {pending, deferred, recent, exhausted, broken, notice} \subseteq BOOLEAN
        <=> /\ pending \in BOOLEAN /\ deferred \in BOOLEAN /\ recent \in BOOLEAN
            /\ exhausted \in BOOLEAN /\ broken \in BOOLEAN /\ notice \in BOOLEAN
  OBVIOUS
<1> QED BY <1>1 DEF TypeOK, QueueOK, PlaceOK, EnumOK, FlagOK, CountOK, Loop, User

LEMMA QueueStep == TypeOK /\ [Next]_vars => QueueOK'
<1> SUFFICES ASSUME TypeOK, [Next]_vars PROVE QueueOK'
  OBVIOUS
<1>1. ASSUME queue' = queue
      PROVE  QueueOK'
  BY <1>1, TypesAre DEF QueueOK
<1>2. ASSUME queue # <<>>, queue' = Tail(queue)
      PROVE  QueueOK'
  BY <1>2, QueueShrinks DEF QueueOK
<1>3. ASSUME ~Full, NEW e \in Events, queue' = Append(queue, e)
      PROVE  QueueOK'
  BY <1>3, QueueAppends DEF QueueOK
<1>4. ASSUME NEW running, NEW waiting, NEW left, EnqueueModemReset(running, waiting, left)
      PROVE  QueueOK'
  BY <1>1, <1>3, <1>4 DEF EnqueueModemReset, Events
<1>5. ASSUME NEW left, RecoveryEnds(left)
      PROVE  QueueOK'
  BY <1>1, <1>4, <1>5 DEF RecoveryEnds
<1>6. CASE \E p \in Processes : Dialling(p)
  BY <1>1, <1>6 DEF Dialling, ServicesEnsured, CallStarts, Configured, DialFails, HangUp, Settle
<1>7. CASE UserDials \/ Starting
  BY <1>1, <1>7 DEF UserDials, Starting, CoreFails, CoreOpens, CoreStarts
<1>8. CASE TakeEvent
  BY <1>2, <1>8 DEF TakeEvent
<1>9. CASE CheckReturns \/ LoopEnds \/ RecoveryTearsDown \/ RecoveryOpens \/ QuietPasses
  BY <1>1, <1>9 DEF CheckReturns, LoopEnds, RecoveryTearsDown, RecoveryOpens, QuietPasses
<1>10. CASE LoopSends
  BY <1>3, <1>10 DEF LoopSends, Events
<1>11. CASE RecoveryFails \/ QuietBroken \/ RecoveryConverges
  BY <1>5, <1>11 DEF RecoveryFails, RetryOrGiveUp, QuietBroken, RecoveryConverges
<1>12. CASE StartFires \/ CheckFires \/ DeferredFires \/ AgainFires \/ SenderSends \/ HandlerSends
            \/ StatusIndicated
  BY <1>1, <1>3, <1>12 DEF StartFires, CheckFires, DeferredFires, AgainFires, SenderSends,
                           HandlerSends, StatusIndicated, Events
<1>13. CASE RetryFires \/ ResetIndicated \/ RequestCoreRecovery
  BY <1>4, <1>13 DEF RetryFires, ResetIndicated, RequestCoreRecovery
<1>14. CASE StopBegins
  BY <1>1, <1>3, <1>14 DEF StopBegins, Events
<1>15. CASE WindowCloses \/ HandlerEnds \/ StopReturns \/ StartCore \/ Connect \/ Disconnect
            \/ CheckDue \/ ModemResets \/ CallDrops \/ UNCHANGED vars
  BY <1>1, <1>15 DEF WindowCloses, HandlerEnds, StopReturns, StartCore, Connect, Disconnect,
                     CheckDue, ModemResets, CallDrops, vars
<1> QED BY <1>6, <1>7, <1>8, <1>9, <1>10, <1>11, <1>12, <1>13, <1>14, <1>15
        DEF Next, Looping, Firing, Outside

LEMMA PlaceStep == TypeOK /\ [Next]_vars => PlaceOK'
<1> SUFFICES ASSUME TypeOK, [Next]_vars PROVE PlaceOK'
  OBVIOUS
<1> PlaceOK /\ EnumOK /\ FlagOK
  BY TypesAre
<1>0. "loop" \in Processes /\ "user" \in Processes
  BY DEF Processes
<1>1. ASSUME UNCHANGED <<pc, seen>>
      PROVE  PlaceOK'
  BY <1>1 DEF PlaceOK, Loop, User
<1>2. ASSUME NEW l \in LoopPCs, Goes("loop", l),
             \/ seen' = seen \/ seen' = Nothing
             \/ /\ seen' \in [state : States, desired : BOOLEAN,
                              next : {"idle", "sendStart", "teardown"}]
      PROVE  PlaceOK'
  <2>1. Nothing \in [state : States, desired : BOOLEAN, next : {"idle", "sendStart", "teardown"}]
    BY DEF Nothing, States
  <2> QED BY <1>2, <2>1 DEF PlaceOK, Loop, User, Goes, Processes
<1>3. ASSUME NEW l \in UserPCs, Goes("user", l), seen' = seen
      PROVE  PlaceOK'
  BY <1>3 DEF PlaceOK, Loop, User, Goes, Processes
<1>4. ASSUME NEW p \in Processes, NEW l \in LoopPCs \cap UserPCs, Goes(p, l), seen' = seen
      PROVE  PlaceOK'
  BY <1>2, <1>3, <1>4 DEF Processes
<1>5. ASSUME NEW left, RecoveryEnds(left)
      PROVE  PlaceOK'
  BY <1>2, <1>5 DEF RecoveryEnds, LoopPCs
<1>6. ASSUME NEW p \in Processes, DialBegins(p), seen' = seen
      PROVE  PlaceOK'
  BY <1>4, <1>6 DEF DialBegins, LoopPCs, UserPCs, Dialing
<1>7. ASSUME NEW p \in Processes, Dialling(p)
      PROVE  PlaceOK'
  <2>1. CASE ServicesEnsured(p) \/ CallStarts(p) \/ Configured(p) \/ DialFails(p) \/ HangUp(p)
    BY <1>4, <2>1 DEF ServicesEnsured, CallStarts, Configured, DialFails, HangUp, LoopPCs,
                      UserPCs, Dialing
  <2>2. CASE Settle(p)
    <3>1. CASE p = "loop"
      <4>1. Goes("loop", seen.next) /\ seen' = [seen EXCEPT !.next = "idle"]
        BY <2>2, <3>1 DEF Settle
      <4>2. seen.next \in LoopPCs
        BY DEF PlaceOK, LoopPCs, Recovery
      <4>3. [seen EXCEPT !.next = "idle"]
              \in [state : States, desired : BOOLEAN, next : {"idle", "sendStart", "teardown"}]
        BY DEF PlaceOK
      <4> QED BY <1>2, <4>1, <4>2, <4>3
    <3>2. CASE p = "user"
      BY <1>3, <2>2, <3>2 DEF Settle, UserPCs
    <3> QED BY <3>1, <3>2 DEF Processes
  <2> QED BY <1>7, <2>1, <2>2 DEF Dialling
<1>8. CASE UserDials \/ Starting
  <2>1. CASE UserDials
    BY <1>0, <1>6, <2>1 DEF UserDials
  <2>2. CASE CoreFails \/ CoreOpens
    BY <1>3, <2>2 DEF CoreFails, CoreOpens, UserPCs
  <2>3. CASE CoreStarts
    BY <1>0, <2>3 DEF CoreStarts, PlaceOK, Loop, User, LoopPCs, UserPCs
  <2> QED BY <1>8, <2>1, <2>2, <2>3 DEF Starting
<1>9. CASE TakeEvent
  <2>1. CASE DialBegins("loop") /\ UNCHANGED seen
    BY <1>0, <1>6, <2>1
  <2>2. CASE Goes("loop", "hangup") /\ UNCHANGED seen
    BY <1>2, <2>2 DEF LoopPCs
  <2>3. CASE Goes("loop", "query") /\ seen' = [state |-> state, desired |-> desired, next |-> "idle"]
    BY <1>2, <2>3 DEF LoopPCs, EnumOK, FlagOK
  <2>4. CASE Goes("loop", "hangup")
             /\ seen' = [Nothing EXCEPT !.desired = desired, !.next = "teardown"]
    BY <1>2, <2>4 DEF LoopPCs, EnumOK, FlagOK, Nothing, States
  <2>5. \/ UNCHANGED <<pc, seen>>
        \/ DialBegins("loop") /\ UNCHANGED seen
        \/ Goes("loop", "hangup") /\ UNCHANGED seen
        \/ Goes("loop", "query") /\ seen' = [state |-> state, desired |-> desired, next |-> "idle"]
        \/ Goes("loop", "hangup")
             /\ seen' = [Nothing EXCEPT !.desired = desired, !.next = "teardown"]
    BY <1>9 DEF TakeEvent
  <2> QED BY <1>1, <2>1, <2>2, <2>3, <2>4, <2>5
<1>10. CASE CheckReturns
  <2>1. \/ seen' = Nothing
        \/ \E n \in {"sendStart", "idle"} : seen' = [Nothing EXCEPT !.next = n]
    BY <1>10 DEF CheckReturns
  <2>2. \/ seen' = Nothing
        \/ seen' \in [state : States, desired : BOOLEAN, next : {"idle", "sendStart", "teardown"}]
    BY <2>1 DEF Nothing, States
  <2>3. \E l \in {"idle", "hangup", "sendStart"} : Goes("loop", l)
    BY <1>10 DEF CheckReturns
  <2> QED BY <1>2, <2>2, <2>3 DEF LoopPCs
<1>11. CASE LoopSends \/ LoopEnds \/ RecoveryTearsDown \/ RecoveryOpens \/ QuietPasses \/ CheckDue
  BY <1>2, <1>11 DEF LoopSends, LoopEnds, RecoveryTearsDown, RecoveryOpens, QuietPasses, CheckDue,
                     LoopPCs, Recovery
<1>12. CASE RecoveryFails \/ QuietBroken \/ RecoveryConverges
  BY <1>5, <1>12 DEF RecoveryFails, RetryOrGiveUp, QuietBroken, RecoveryConverges
<1>13. CASE StartCore \/ Connect \/ Disconnect
  BY <1>1, <1>3, <1>13 DEF StartCore, Connect, Disconnect, UserPCs
<1>14. CASE Firing \/ SenderSends \/ WindowCloses \/ HandlerSends \/ ResetIndicated \/ HandlerEnds
            \/ StopReturns \/ StopBegins \/ StatusIndicated \/ ModemResets \/ CallDrops
            \/ RequestCoreRecovery \/ UNCHANGED vars
  BY <1>1, <1>14 DEF Firing, StartFires, CheckFires, RetryFires, DeferredFires, AgainFires,
       SenderSends, WindowCloses, HandlerSends, ResetIndicated, HandlerEnds, StopReturns, StopBegins,
       StatusIndicated, ModemResets, CallDrops, RequestCoreRecovery, vars
<1> QED BY <1>7, <1>8, <1>9, <1>10, <1>11, <1>12, <1>13, <1>14 DEF Next, Looping, Outside

LEMMA EnumStep == TypeOK /\ [Next]_vars => EnumOK'
<1> SUFFICES ASSUME TypeOK, [Next]_vars PROVE EnumOK'
  OBVIOUS
<1> EnumOK /\ seen.desired \in BOOLEAN
  BY TypesAre DEF PlaceOK
<1> USE DEF EnumOK
<1>1. ASSUME NEW running, NEW waiting, NEW left, left \subseteq Timers,
             EnqueueModemReset(running, waiting, left)
      PROVE  timers' \subseteq Timers /\ marks' \subseteq {"overlapped", "lateStart", "swallowed"}
  BY <1>1 DEF EnqueueModemReset, Timers
<1>2. ASSUME NEW left, left \subseteq Timers, RecoveryEnds(left)
      PROVE  timers' \subseteq Timers /\ marks' \subseteq {"overlapped", "lateStart", "swallowed"}
  BY <1>1, <1>2 DEF RecoveryEnds
<1>3. ASSUME NEW p, DialBegins(p)
      PROVE  state' \in States /\ marks' \subseteq {"overlapped", "lateStart", "swallowed"}
  BY <1>3 DEF DialBegins, States
<1>4. ASSUME NEW p \in Processes, Dialling(p)
      PROVE  EnumOK'
  BY <1>4 DEF Dialling, ServicesEnsured, CallStarts, Configured, DialFails, HangUp, Settle,
                States, Timers, FromOutside, modem, ending
<1>5. CASE UserDials \/ Starting
  BY <1>3, <1>5 DEF UserDials, Starting, CoreFails, CoreOpens, CoreStarts, States, modem, ending
<1>6. CASE TakeEvent
  BY <1>3, <1>6 DEF TakeEvent, modem, ending, Timers
<1>7. CASE CheckReturns
  BY <1>7 DEF CheckReturns, States, modem, ending
<1>8. CASE LoopSends \/ LoopEnds \/ RecoveryOpens \/ QuietPasses
  BY <1>8 DEF LoopSends, LoopEnds, RecoveryOpens, QuietPasses, core, modem, ending
<1>9. CASE RecoveryTearsDown
  BY <1>9 DEF RecoveryTearsDown, CleansUp, ending
<1>10. CASE RecoveryFails
  <2>1. timers \cup {"retry"} \subseteq Timers
    BY DEF Timers
  <2>2. state' \in States
    BY <1>10 DEF RecoveryFails, States
  <2>3. RecoveryEnds(timers) \/ RecoveryEnds(timers \cup {"retry"})
    BY <1>10 DEF RecoveryFails, RetryOrGiveUp
  <2> QED BY <1>2, <1>10, <2>1, <2>2, <2>3 DEF RecoveryFails, modem, ending
<1>11. CASE QuietBroken
  BY <1>2, <1>11 DEF QuietBroken, core, modem, ending
<1>12. CASE RecoveryConverges
  <2>1. timers \cup {"start"} \subseteq Timers
    BY DEF Timers
  <2>2. RecoveryEnds(timers) \/ RecoveryEnds(timers \cup {"start"})
    BY <1>12 DEF RecoveryConverges
  <2>3. /\ state' = "disconnected"
        /\ UNCHANGED <<services, handle, inds, calls, ctx, stop>>
    BY <1>12 DEF RecoveryConverges, modem, ending
  <2> QED BY <1>2, <2>1, <2>2, <2>3 DEF States
<1>13. CASE StartFires \/ CheckFires \/ SenderSends \/ WindowCloses \/ HandlerSends \/ HandlerEnds
  BY <1>13 DEF StartFires, CheckFires, SenderSends, WindowCloses, HandlerSends, HandlerEnds,
               core, modem, ending
<1>14. CASE DeferredFires \/ AgainFires
  BY <1>14 DEF DeferredFires, AgainFires, core, modem, ending, Timers
<1>15. CASE RetryFires \/ ResetIndicated \/ RequestCoreRecovery
  <2>1. EnqueueModemReset(Recovering, pending, timers)
          \/ EnqueueModemReset(Recovering, pending, timers \ {"retry"})
    BY <1>15 DEF RetryFires, ResetIndicated, RequestCoreRecovery
  <2>2. UNCHANGED <<core, inds, calls, ctx, stop>>
    BY <1>15 DEF RetryFires, ResetIndicated, RequestCoreRecovery, modem, ending
  <2> QED BY <1>1, <2>1, <2>2 DEF core
<1>16. CASE StopReturns \/ StopBegins
  BY <1>16 DEF StopReturns, StopBegins, CleansUp, States, modem
<1>17. CASE StartCore \/ Connect \/ Disconnect
  BY <1>17 DEF StartCore, Connect, Disconnect, States, modem, ending
<1>18. CASE CheckDue \/ StatusIndicated \/ ModemResets \/ CallDrops
  BY <1>18 DEF CheckDue, StatusIndicated, ModemResets, CallDrops, core, ending
<1>19. CASE UNCHANGED vars
  BY <1>19 DEF vars, core, modem, ending
<1> QED BY <1>4, <1>5, <1>6, <1>7, <1>8, <1>9, <1>10, <1>11, <1>12, <1>13, <1>14, <1>15, <1>16,
           <1>17, <1>18, <1>19 DEF Next, Looping, Firing, Outside

LEMMA CountStep == TypeOK /\ [Next]_vars => CountOK'
<1> SUFFICES ASSUME TypeOK, [Next]_vars PROVE CountOK'
  OBVIOUS
<1> CountOK
  BY TypesAre
<1>1. outside' = outside \/ FromOutside => outside' \in 0 .. MaxOutside
  BY ManagerAssumption DEF CountOK, FromOutside
<1>2. attempts' = attempts \/ RetryOrGiveUp \/ attempts' = 0 => attempts' \in 0 .. MaxRetries
  BY ManagerAssumption DEF CountOK, RetryOrGiveUp
<1>3. CASE \E p \in Processes : Dialling(p)
  BY <1>1, <1>2, <1>3 DEF CountOK, Dialling, ServicesEnsured, CallStarts, Configured, DialFails,
       HangUp, Settle, modem
<1>4. CASE UserDials \/ Starting
  BY <1>1, <1>2, <1>4 DEF CountOK, UserDials, Starting, CoreFails, CoreOpens, CoreStarts, modem
<1>5. CASE Looping
  BY <1>1, <1>2, <1>5 DEF CountOK, Looping, TakeEvent, CheckReturns, LoopSends, LoopEnds,
       RecoveryTearsDown, RecoveryOpens, RecoveryFails, QuietPasses, QuietBroken, RecoveryConverges,
       modem
<1>6. CASE Firing \/ SenderSends \/ WindowCloses \/ HandlerSends \/ ResetIndicated \/ HandlerEnds
           \/ StopReturns
  BY <1>1, <1>2, <1>6 DEF CountOK, Firing, StartFires, CheckFires, RetryFires, DeferredFires,
       AgainFires, SenderSends, WindowCloses, HandlerSends, ResetIndicated, HandlerEnds, StopReturns,
       modem
<1>7. CASE Outside
  BY <1>1, <1>2, <1>7 DEF CountOK, Outside, StartCore, Connect, Disconnect, StopBegins, CheckDue,
       StatusIndicated, ModemResets, CallDrops, RequestCoreRecovery, modem
<1>8. CASE UNCHANGED vars
  BY <1>8 DEF CountOK, vars, modem
<1> QED BY <1>3, <1>4, <1>5, <1>6, <1>7, <1>8 DEF Next

LEMMA FlagStep == TypeOK /\ [Next]_vars => FlagOK'
<1> SUFFICES ASSUME TypeOK, [Next]_vars PROVE FlagOK'
  OBVIOUS
<1> FlagOK
  BY TypesAre
<1> USE DEF FlagOK, core, resetVs, modem
<1>1. ASSUME NEW running, NEW waiting \in BOOLEAN, NEW left, EnqueueModemReset(running, waiting, left)
      PROVE  pending' \in BOOLEAN /\ deferred' \in BOOLEAN /\ recent' \in BOOLEAN
  BY <1>1 DEF EnqueueModemReset
<1>2. ASSUME NEW left, RecoveryEnds(left)
      PROVE  pending' \in BOOLEAN /\ deferred' \in BOOLEAN /\ recent' \in BOOLEAN
  BY <1>1, <1>2 DEF RecoveryEnds
<1>3. ASSUME NEW p \in Processes, Dialling(p)
      PROVE  FlagOK'
  <2>1. CASE ServicesEnsured(p)
    BY <2>1, Zenon DEF ServicesEnsured
  <2>2. CASE CallStarts(p)
    BY <2>2, Zenon DEF CallStarts
  <2>3. CASE Configured(p)
    BY <2>3, Zenon DEF Configured
  <2>4. CASE DialFails(p)
    BY <2>4, Zenon DEF DialFails
  <2>5. CASE HangUp(p)
    BY <2>5, Zenon DEF HangUp
  <2>6. CASE Settle(p)
    BY <2>6, Zenon DEF Settle
  <2> QED BY <1>3, <2>1, <2>2, <2>3, <2>4, <2>5, <2>6 DEF Dialling
<1>4. CASE UserDials \/ Starting
  <2>1. CASE UserDials
    BY <2>1, Zenon DEF UserDials
  <2>2. CASE CoreFails
    BY <2>2, Zenon DEF CoreFails
  <2>3. CASE CoreOpens
    BY <2>3, Zenon DEF CoreOpens
  <2>4. CASE CoreStarts
    BY <2>4, Zenon DEF CoreStarts
  <2> QED BY <1>4, <2>1, <2>2, <2>3, <2>4 DEF Starting
<1>5. CASE TakeEvent \/ CheckReturns
  BY <1>5 DEF TakeEvent, CheckReturns
<1>6. CASE LoopSends \/ LoopEnds \/ RecoveryTearsDown \/ RecoveryOpens \/ QuietPasses
  <2>1. CASE LoopSends
    BY <2>1, Zenon DEF LoopSends
  <2>2. CASE LoopEnds
    BY <2>2, Zenon DEF LoopEnds
  <2>3. CASE RecoveryTearsDown
    BY <2>3, Zenon DEF RecoveryTearsDown, CleansUp
  <2>4. CASE RecoveryOpens
    BY <2>4, Zenon DEF RecoveryOpens
  <2>5. CASE QuietPasses
    BY <2>5, Zenon DEF QuietPasses
  <2> QED BY <1>6, <2>1, <2>2, <2>3, <2>4, <2>5
<1>7. CASE RecoveryFails \/ QuietBroken \/ RecoveryConverges
  <2>1. \E left : RecoveryEnds(left)
    BY <1>7 DEF RecoveryFails, RetryOrGiveUp, QuietBroken, RecoveryConverges
  <2>2. UNCHANGED <<desired, sender, broken, notice>>
    BY <1>7 DEF RecoveryFails, QuietBroken, RecoveryConverges
  <2>3. (exhausted' = TRUE \/ exhausted' = exhausted) /\ (coreReady' = TRUE \/ coreReady' = coreReady)
    BY <1>7 DEF RecoveryFails, RetryOrGiveUp, QuietBroken, RecoveryConverges
  <2> QED BY <1>2, <2>1, <2>2, <2>3
<1>8. CASE Firing \/ ResetIndicated
  <2>1. CASE StartFires \/ CheckFires
    BY <2>1 DEF StartFires, CheckFires
  <2>3. CASE DeferredFires
    BY <2>3 DEF DeferredFires
  <2>4. CASE AgainFires
    BY <2>4 DEF AgainFires
  <2>2. CASE RetryFires \/ ResetIndicated
    BY <1>1, <2>2 DEF RetryFires, ResetIndicated
  <2> QED BY <1>8, <2>1, <2>2, <2>3, <2>4 DEF Firing
<1>9. CASE SenderSends \/ WindowCloses \/ HandlerSends \/ HandlerEnds \/ StopReturns
  <2>1. CASE SenderSends
    BY <2>1, Zenon DEF SenderSends
  <2>2. CASE WindowCloses
    BY <2>2, Zenon DEF WindowCloses
  <2>3. CASE HandlerSends
    BY <2>3, Zenon DEF HandlerSends
  <2>4. CASE HandlerEnds
    BY <2>4, Zenon DEF HandlerEnds
  <2>5. CASE StopReturns
    BY <2>5, Zenon DEF StopReturns, CleansUp
  <2> QED BY <1>9, <2>1, <2>2, <2>3, <2>4, <2>5
<1>10. CASE StartCore \/ Connect \/ Disconnect \/ StopBegins \/ CheckDue \/ StatusIndicated
            \/ CallDrops
  <2>1. CASE StartCore
    BY <2>1, Zenon DEF StartCore
  <2>2. CASE Connect
    BY <2>2, Zenon DEF Connect
  <2>3. CASE Disconnect
    BY <2>3, Zenon DEF Disconnect
  <2>4. CASE StopBegins
    BY <2>4, Zenon DEF StopBegins
  <2>5. CASE CheckDue
    BY <2>5, Zenon DEF CheckDue
  <2>6. CASE StatusIndicated
    BY <2>6, Zenon DEF StatusIndicated
  <2>7. CASE CallDrops
    BY <2>7, Zenon DEF CallDrops
  <2> QED BY <1>10, <2>1, <2>2, <2>3, <2>4, <2>5, <2>6, <2>7
<1>11. CASE ModemResets \/ RequestCoreRecovery
  BY <1>1, <1>11 DEF ModemResets, RequestCoreRecovery
<1>12. CASE UNCHANGED vars
  BY <1>12 DEF vars
<1> QED BY <1>3, <1>4, <1>5, <1>6, <1>7, <1>8, <1>9, <1>10, <1>11, <1>12 DEF Next, Looping, Outside

LEMMA TypesStep == TypeOK /\ [Next]_vars => TypeOK'
<1> SUFFICES ASSUME TypeOK, [Next]_vars PROVE TypeOK'
  OBVIOUS
<1>1. (QueueOK /\ PlaceOK /\ EnumOK /\ FlagOK /\ CountOK)' => TypeOK'
  <2>1. {pending', deferred', recent', exhausted', broken', notice'} \subseteq BOOLEAN
        <=> /\ pending' \in BOOLEAN /\ deferred' \in BOOLEAN /\ recent' \in BOOLEAN
            /\ exhausted' \in BOOLEAN /\ broken' \in BOOLEAN /\ notice' \in BOOLEAN
    OBVIOUS
  <2> QED BY <2>1 DEF TypeOK, QueueOK, PlaceOK, EnumOK, FlagOK, CountOK, Loop, User
<1> QED BY <1>1, QueueStep, PlaceStep, EnumStep, FlagStep, CountStep

(* The kinds, places and bounds of every variable; the event channel never *)
(* holds more than its capacity (manager.go:508).                          *)
THEOREM ManagerTypes == Spec => []TypeOK
<1> QED BY TypesInit, TypesStep, PTL DEF Spec

-----------------------------------------------------------------------------
(* What the loop does next, and retries *)

LEMMA MovesOf ==
  ASSUME TypeOK, NEW p \in Processes, NEW l, Goes(p, l)
  PROVE  /\ pc'[p] = l /\ \A q \in Processes : q # p => pc'[q] = pc[q]
         /\ p = "loop" => Loop' = l /\ User' = User
         /\ p = "user" => User' = l /\ Loop' = Loop
<1> pc \in [Processes -> LoopPCs \cup UserPCs]
  BY TypesAre DEF PlaceOK
<1> QED BY DEF Goes, Loop, User, Processes

LEMMA LoopGoes ==
  ASSUME TypeOK, NEW l, Goes("loop", l)
  PROVE  Loop' = l /\ User' = User
BY MovesOf DEF Processes

LEMMA UserGoes ==
  ASSUME TypeOK, NEW l, Goes("user", l)
  PROVE  User' = l /\ Loop' = Loop
BY MovesOf DEF Processes

LEMMA NextStep == TypeOK /\ NextInv /\ [Next]_vars => NextInv'
<1> SUFFICES ASSUME TypeOK, NextInv, [Next]_vars PROVE NextInv'
  OBVIOUS
<1> USE DEF NextInv, ending
<1>1. ASSUME UNCHANGED <<pc, seen, ctx>> PROVE NextInv'
  BY <1>1 DEF Loop, User
<1>2. ASSUME NEW l, Goes("user", l), UNCHANGED <<seen, ctx>>,
             l \in {"starting", "opened"} => ctx = "none"
      PROVE  NextInv'
  BY <1>2, UserGoes
<1>3. ASSUME NEW l, Goes("loop", l), l \in {"hangup", "settle"} \/ seen'.next = "idle", ctx' = ctx,
             Loop # "ended"
      PROVE  NextInv'
  BY <1>3, LoopGoes
<1>4. ASSUME NEW left, RecoveryEnds(left), ctx' = ctx, Loop # "ended" PROVE NextInv'
  BY <1>3, <1>4 DEF RecoveryEnds, Nothing
<1>5. ASSUME NEW p \in Processes, Dialling(p) PROVE NextInv'
  <2>0. p = "loop" => Loop # "ended"
    BY <1>5 DEF Dialling, ServicesEnsured, CallStarts, Configured, DialFails, HangUp, Settle, Loop
  <2>1. CASE HangUp(p)
    BY <1>2, <1>3, <2>0, <2>1 DEF HangUp, Processes
  <2>2. CASE Settle(p)
    <3>1. seen \in [state : States, desired : BOOLEAN, next : {"idle", "sendStart", "teardown"}]
      BY TypesAre DEF PlaceOK
    <3>2. [seen EXCEPT !.next = "idle"].next = "idle"
      BY <3>1
    <3> QED BY <1>2, <1>3, <2>0, <2>2, <3>2 DEF Settle, Processes
  <2>3. CASE ServicesEnsured(p) \/ CallStarts(p) \/ Configured(p) \/ DialFails(p)
    <3>1. seen' = seen /\ ctx' = ctx /\ \E l \in {"idle", "call", "configure"} : Goes(p, l)
      BY <2>3 DEF ServicesEnsured, CallStarts, Configured, DialFails
    <3>2. p = "loop" => Loop \notin {"hangup", "settle"}
      BY <2>3 DEF ServicesEnsured, CallStarts, Configured, DialFails, Loop
    <3> QED BY <1>2, <1>3, <2>0, <3>1, <3>2 DEF Processes
  <2> QED BY <1>5, <2>1, <2>2, <2>3 DEF Dialling
<1>6. CASE UserDials \/ CoreFails \/ CoreOpens \/ StartCore \/ Connect \/ Disconnect
  <2>1. UNCHANGED <<seen, ctx>>
    BY <1>6 DEF UserDials, CoreFails, CoreOpens, StartCore, Connect, Disconnect
  <2>2. \/ UNCHANGED pc
        \/ \E l : Goes("user", l) /\ (l \in {"starting", "opened"} => ctx = "none")
    BY <1>6 DEF UserDials, DialBegins, CoreFails, CoreOpens, StartCore, Connect, Disconnect, User
  <2> QED BY <1>1, <1>2, <2>1, <2>2
<1>7. CASE CoreStarts
  BY <1>7 DEF CoreStarts, User, Loop, Processes
<1>8. CASE TakeEvent \/ CheckReturns
  <2>1. ctx' = ctx /\ Loop # "ended" /\ Loop \notin {"hangup", "settle"}
    BY <1>8 DEF TakeEvent, CheckReturns, Loop
  <2>2. \/ UNCHANGED <<pc, seen>>
        \/ \E l : Goes("loop", l) /\ (l \in {"hangup", "settle"} \/ seen'.next = "idle")
    <3>1. CASE TakeEvent
      BY <2>1, <3>1 DEF TakeEvent, DialBegins, Nothing
    <3>2. CASE CheckReturns
      <4>1. \/ Goes("loop", "hangup")
            \/ seen' = Nothing /\ \E l : Goes("loop", l)
        BY <3>2 DEF CheckReturns
      <4> QED BY <4>1 DEF Nothing
    <3> QED BY <1>8, <3>1, <3>2
  <2> QED BY <1>1, <1>3, <2>1, <2>2
<1>9. CASE LoopSends \/ LoopEnds \/ RecoveryTearsDown \/ RecoveryOpens \/ QuietPasses \/ CheckDue
  <2>1. UNCHANGED <<seen, ctx>> /\ Loop # "ended" /\ Loop \notin {"hangup", "settle"}
    BY <1>9 DEF LoopSends, LoopEnds, RecoveryTearsDown, RecoveryOpens, QuietPasses, CheckDue, Loop
  <2>2. \E l : Goes("loop", l)
    BY <1>9 DEF LoopSends, LoopEnds, RecoveryTearsDown, RecoveryOpens, QuietPasses, CheckDue
  <2> QED BY <1>3, <2>1, <2>2
<1>10. CASE RecoveryFails \/ QuietBroken \/ RecoveryConverges
  <2>1. ctx' = ctx /\ Loop # "ended" /\ \E left : RecoveryEnds(left)
    BY <1>10 DEF RecoveryFails, RetryOrGiveUp, QuietBroken, RecoveryConverges, Loop
  <2> QED BY <1>4, <2>1
<1>11. CASE StopBegins
  BY <1>11 DEF StopBegins, Loop, User
<1>12. CASE Firing \/ SenderSends \/ WindowCloses \/ HandlerSends \/ ResetIndicated \/ HandlerEnds
            \/ StopReturns \/ StatusIndicated \/ ModemResets \/ CallDrops
            \/ RequestCoreRecovery \/ UNCHANGED vars
  BY <1>1, <1>12 DEF Firing, StartFires, CheckFires, RetryFires, DeferredFires, AgainFires,
       SenderSends, WindowCloses, HandlerSends, ResetIndicated, HandlerEnds, StopReturns,
       StatusIndicated, ModemResets, CallDrops, RequestCoreRecovery, vars
<1> QED BY <1>5, <1>6, <1>7, <1>8, <1>9, <1>10, <1>11, <1>12 DEF Next, Looping, Starting, Outside

LEMMA RetryStep == TypeOK /\ NextInv /\ RetryInv /\ [Next]_vars => RetryInv'
<1> SUFFICES ASSUME TypeOK, NextInv, RetryInv, [Next]_vars PROVE RetryInv'
  OBVIOUS
<1> USE DEF RetryInv, RetryOnlyWhileDown
<1>1. ASSUME timers' \subseteq timers \cup {"start", "check", "deferred", "again"},
             coreReady' = coreReady \/ (timers' = {} /\ ~coreReady'),
             Loop' = Loop \/ Loop' \notin {"opening", "quiet", "identity"}
      PROVE  RetryInv'
  BY <1>1
<1>2. ASSUME NEW running, NEW waiting, NEW left, EnqueueModemReset(running, waiting, left)
      PROVE  timers' \subseteq left \cup {"deferred"}
  BY <1>2 DEF EnqueueModemReset
<1>3. ASSUME NEW left, RecoveryEnds(left)
      PROVE  timers' \subseteq left \cup {"deferred"} /\ Loop' = "idle"
  BY <1>2, <1>3, LoopGoes DEF RecoveryEnds
<1>4. ASSUME NEW p \in Processes, Dialling(p) PROVE RetryInv'
  <2>1. timers' \subseteq timers \cup {"start"} /\ coreReady' = coreReady
    BY <1>4 DEF Dialling, ServicesEnsured, CallStarts, Configured, DialFails, HangUp, Settle
  <2>2. \E l \in {"idle", "call", "configure", "settle", "sendStart", "teardown"} : Goes(p, l)
    <3>1. seen.next \in {"idle", "sendStart", "teardown"}
      BY TypesAre DEF PlaceOK
    <3> QED BY <1>4, <3>1 DEF Dialling, ServicesEnsured, CallStarts, Configured, DialFails, HangUp, Settle
  <2>3. Loop' = Loop \/ Loop' \notin {"opening", "quiet", "identity"}
    BY <2>2, LoopGoes, UserGoes DEF Processes
  <2> QED BY <1>1, <2>1, <2>3
<1>5. CASE UserDials \/ CoreFails \/ CoreOpens \/ StartCore \/ Connect \/ Disconnect
  <2>1. Loop' = Loop
    BY <1>5, UserGoes DEF UserDials, DialBegins, CoreFails, CoreOpens, StartCore, Connect, Disconnect, Loop
  <2> QED BY <1>1, <1>5, <2>1 DEF UserDials, CoreFails, CoreOpens, StartCore, Connect, Disconnect
<1>6. CASE CoreStarts
  BY <1>6 DEF CoreStarts, Loop, Processes
<1>7. CASE TakeEvent \/ CheckReturns \/ LoopSends \/ LoopEnds \/ CheckDue
  <2>1. Loop' \notin {"opening", "quiet", "identity"} \/ Loop' = Loop
    <3>1. \/ UNCHANGED pc
          \/ \E l \in {"idle", "ensure", "hangup", "query", "sendStart", "sendCheck", "ended"} :
               Goes("loop", l)
      BY <1>7 DEF TakeEvent, CheckReturns, LoopSends, LoopEnds, CheckDue, DialBegins
    <3> QED BY <3>1, LoopGoes DEF Loop
  <2>2. coreReady' = coreReady /\ timers' \subseteq timers \cup {"check"}
    BY <1>7 DEF TakeEvent, CheckReturns, LoopSends, LoopEnds, CheckDue, core
  <2> QED BY <1>1, <2>1, <2>2
<1>8. CASE RecoveryTearsDown
  BY <1>8 DEF RecoveryTearsDown, CleansUp
<1>9. CASE RecoveryOpens \/ QuietPasses
  <2>1. UNCHANGED <<timers, coreReady>> /\ Loop \in {"opening", "quiet", "identity"}
    BY <1>9 DEF RecoveryOpens, QuietPasses, core, Loop
  <2> QED BY <2>1
<1>10. CASE RecoveryFails
  <2>1. Loop \in {"opening", "quiet"} /\ coreReady' = coreReady
    BY <1>10 DEF RecoveryFails, Loop
  <2>2. Loop' = "idle"
    BY <1>3, <1>10 DEF RecoveryFails, RetryOrGiveUp
  <2> QED BY <2>1, <2>2
<1>11. CASE QuietBroken
  BY <1>1, <1>3, <1>11 DEF QuietBroken, core
<1>12. CASE RecoveryConverges
  <2>1. Loop = "identity"
    BY <1>12 DEF RecoveryConverges, Loop
  <2>2. timers' \subseteq timers \cup {"start", "deferred"} /\ Loop' = "idle"
    BY <1>3, <1>12 DEF RecoveryConverges
  <2> QED BY <2>1, <2>2
<1>13. CASE Firing \/ SenderSends \/ WindowCloses \/ HandlerSends \/ ResetIndicated \/ HandlerEnds
            \/ StopReturns \/ StopBegins \/ StatusIndicated \/ ModemResets \/ CallDrops
            \/ RequestCoreRecovery
  <2>1. Loop' = Loop /\ timers' \subseteq timers \cup {"start", "check", "deferred", "again"}
    BY <1>2, <1>13 DEF Firing, StartFires, CheckFires, RetryFires, DeferredFires, AgainFires,
       SenderSends, WindowCloses, HandlerSends, ResetIndicated, HandlerEnds, StopReturns, StopBegins,
       StatusIndicated, ModemResets, CallDrops, RequestCoreRecovery, CleansUp, Loop
  <2>2. CASE StopReturns
    BY <1>1, <2>1, <2>2 DEF StopReturns, CleansUp
  <2>3. StopReturns \/ coreReady' = coreReady
    BY <1>13 DEF Firing, StartFires, CheckFires, RetryFires, DeferredFires, AgainFires,
       SenderSends, WindowCloses, HandlerSends, ResetIndicated, HandlerEnds, StopBegins,
       StatusIndicated, ModemResets, CallDrops, RequestCoreRecovery, core
  <2> QED BY <1>1, <2>1, <2>2, <2>3
<1>14. CASE UNCHANGED vars
  BY <1>1, <1>14 DEF vars, core, Loop
<1> QED BY <1>4, <1>5, <1>6, <1>7, <1>8, <1>9, <1>10, <1>11, <1>12, <1>13, <1>14
        DEF Next, Looping, Starting, Outside

-----------------------------------------------------------------------------
(* The core, Stop and the calls, as long as no dial has met another command *)

LEMMA QueuedMoves ==
  ASSUME TypeOK, NEW f
  PROVE  /\ queue # <<>> /\ queue' = Tail(queue) => (Queued(f)' => Queued(f))
         /\ \A e \in Events : queue' = Append(queue, e) => (Queued(f)' => Queued(f) \/ e = f)
<1>1. queue \in Seq(Events)
  BY TypesAre DEF QueueOK
<1> QED BY <1>1 DEF Queued

LEMMA ResetQueued ==
  ASSUME TypeOK, NEW running, NEW waiting, NEW left, EnqueueModemReset(running, waiting, left),
         NEW f, f # "reset"
  PROVE  Queued(f)' => Queued(f)
<1>1. queue' = queue \/ queue' = Append(queue, "reset")
  BY DEF EnqueueModemReset
<1> QED BY <1>1, QueuedMoves DEF Queued, Events

LEMMA EndsQueued ==
  ASSUME TypeOK, NEW left, RecoveryEnds(left), NEW f, f # "reset"
  PROVE  /\ Queued(f)' => Queued(f)
         /\ Loop' = "idle" /\ User' = User /\ seen' = Nothing
         /\ timers' \subseteq left \cup {"deferred"}
         /\ "overlapped" \in marks <=> "overlapped" \in marks'
         /\ "lateStart" \in marks <=> "lateStart" \in marks'
<1>1. Queued(f)' => Queued(f)
  BY ResetQueued DEF RecoveryEnds, Queued
<1>2. Loop' = "idle" /\ User' = User /\ seen' = Nothing
  BY LoopGoes DEF RecoveryEnds
<1>3. /\ timers' \subseteq left \cup {"deferred"}
      /\ marks' = marks \/ marks' = marks \cup {"swallowed"}
  BY DEF RecoveryEnds, EnqueueModemReset
<1> QED BY <1>1, <1>2, <1>3

(* Marks are never taken back.                                             *)
LEMMA MarksGrow == TypeOK /\ [Next]_vars => marks \subseteq marks'
<1> SUFFICES ASSUME TypeOK, [Next]_vars PROVE marks \subseteq marks'
  OBVIOUS
<1>1. ASSUME NEW running, NEW waiting, NEW left, EnqueueModemReset(running, waiting, left)
      PROVE  marks \subseteq marks'
  BY <1>1 DEF EnqueueModemReset
<1>2. CASE \E p \in Processes : Dialling(p)
  BY <1>2 DEF Dialling, ServicesEnsured, CallStarts, Configured, DialFails, HangUp, Settle
<1>3. CASE UserDials \/ Starting
  BY <1>3 DEF UserDials, DialBegins, Starting, CoreFails, CoreOpens, CoreStarts
<1>4. CASE TakeEvent \/ CheckReturns \/ LoopSends \/ LoopEnds \/ RecoveryTearsDown \/ RecoveryOpens
           \/ QuietPasses
  BY <1>4 DEF TakeEvent, DialBegins, CheckReturns, LoopSends, LoopEnds, RecoveryTearsDown,
              RecoveryOpens, QuietPasses
<1>5. CASE RecoveryFails \/ QuietBroken \/ RecoveryConverges
  BY <1>1, <1>5 DEF RecoveryFails, RetryOrGiveUp, QuietBroken, RecoveryConverges, RecoveryEnds
<1>6. CASE Firing \/ SenderSends \/ WindowCloses \/ HandlerSends \/ ResetIndicated \/ HandlerEnds
           \/ StopReturns
  BY <1>1, <1>6 DEF Firing, StartFires, CheckFires, RetryFires, DeferredFires, AgainFires,
       SenderSends, WindowCloses, HandlerSends, ResetIndicated, HandlerEnds, StopReturns
<1>7. CASE Outside
  BY <1>1, <1>7 DEF Outside, StartCore, Connect, Disconnect, StopBegins, CheckDue,
       StatusIndicated, ModemResets, CallDrops, RequestCoreRecovery
<1>8. CASE UNCHANGED vars
  BY <1>8 DEF vars
<1> QED BY <1>2, <1>3, <1>4, <1>5, <1>6, <1>7, <1>8 DEF Next, Looping

LEMMA CoreStep ==
  TypeOK /\ NextInv /\ CoreInv /\ [Next]_vars /\ "overlapped" \notin marks' => CoreInv'
<1> SUFFICES ASSUME TypeOK, NextInv, CoreInv, [Next]_vars, "overlapped" \notin marks' PROVE CoreInv'
  OBVIOUS
<1>0. pc \in [Processes -> LoopPCs \cup UserPCs] /\ "loop" \in Processes /\ "user" \in Processes
  BY TypesAre DEF PlaceOK, Processes
<1>1. ASSUME NEW p \in Processes, Dialling(p) PROVE CoreInv'
  <2>1. UNCHANGED <<coreReady, ctx, stop, inds, queue>>
    BY <1>1 DEF Dialling, ServicesEnsured, CallStarts, Configured, DialFails, HangUp, Settle, ending
  <2>2. services' = services \/ (services # "closed" /\ services' = "data")
    BY <1>1 DEF Dialling, ServicesEnsured, CallStarts, Configured, DialFails, HangUp, Settle
  <2>3. pc[p] \in {"ensure", "call", "configure", "hangup", "settle"}
    BY <1>1 DEF Dialling, ServicesEnsured, CallStarts, Configured, DialFails, HangUp, Settle
  <2>4. \E l \in {"call", "configure", "idle", "settle", "sendStart", "teardown"} :
          Goes(p, l) /\ (p = "user" => (pc[p] \in {"hangup", "settle"} => l \in {"idle", "settle"}))
    <3>1. seen.next \in {"idle", "sendStart", "teardown"}
      BY TypesAre DEF PlaceOK
    <3> QED BY <1>1, <3>1 DEF Dialling, ServicesEnsured, CallStarts, Configured, DialFails, HangUp, Settle
  <2> QED BY <1>0, <2>1, <2>2, <2>3, <2>4, LoopGoes, UserGoes DEF CoreInv, NextInv, Queued, Processes, Loop, User
<1>2. CASE UserDials
  <2>1. /\ UNCHANGED <<coreReady, ctx, stop, inds, queue, services>>
        /\ \E l \in {"idle", "ensure"} : Goes("user", l)
    BY <1>2 DEF UserDials, DialBegins, ending
  <2>2. User = "connect"
    BY <1>2 DEF UserDials, User
  <2> QED BY <2>1, <2>2, UserGoes DEF CoreInv, Queued
<1>3. CASE Starting
  <2>1. CASE CoreFails
    <3>1. User = "starting" /\ User' = "idle" /\ Loop' = Loop
      BY <2>1, UserGoes DEF CoreFails, User
    <3> QED BY <2>1, <3>1 DEF CoreFails, CoreInv, NextInv, Queued, ending
  <2>2. CASE CoreOpens
    <3>1. User = "starting" /\ User' = "opened" /\ Loop' = Loop
      BY <2>2, UserGoes DEF CoreOpens, User
    <3> QED BY <2>2, <3>1 DEF CoreOpens, CoreInv, NextInv, Queued, ending
  <2>3. CASE CoreStarts
    <3>1. User = "opened" /\ User' = "idle" /\ Loop' = "idle"
      BY <1>0, <2>3 DEF CoreStarts, User, Loop
    <3> QED BY <2>3, <3>1 DEF CoreStarts, CoreInv, NextInv, Queued
  <2> QED BY <1>3, <2>1, <2>2, <2>3 DEF Starting
<1>4. CASE StartCore
  <2>1. User = "idle" /\ User' = "starting" /\ Loop' = Loop
    BY <1>4, UserGoes DEF StartCore, User
  <2> QED BY <1>4, <2>1 DEF StartCore, CoreInv, NextInv, Queued, ending
<1>5. CASE Connect \/ Disconnect
  <2>1. /\ UNCHANGED <<coreReady, ctx, stop, inds, queue, services>>
        /\ coreReady /\ User = "idle" /\ Loop' = Loop /\ User' \in {"idle", "connect", "hangup"}
    BY <1>5, UserGoes DEF Connect, Disconnect, User, Loop, ending
  <2>2. User' = "connect" => stop = "none"
    BY <1>5, <2>1, UserGoes DEF Connect, Disconnect, User
  <2> QED BY <2>1, <2>2 DEF CoreInv, Queued
<1>6. CASE StopBegins
  <2>1. User = "idle" /\ UNCHANGED <<pc, coreReady, services, inds>> /\ stop' = "waiting"
    BY <1>6 DEF StopBegins, User
  <2>2. ctx # "none" /\ ctx' = "done"
    BY <1>6, <2>1, TypesAre DEF StopBegins, User, EnumOK
  <2> QED BY <2>1, <2>2 DEF CoreInv, User, Loop
<1>7. CASE StopReturns
  BY <1>7 DEF StopReturns, CleansUp, CoreInv, User, Loop, Queued
<1>8. CASE TakeEvent
  <2>1. /\ UNCHANGED <<coreReady, ctx, stop, inds, services>> /\ Loop = "idle" /\ User' = User
        /\ Loop' \in {"idle", "ensure", "hangup", "query"}
    BY <1>8, LoopGoes DEF TakeEvent, DialBegins, ending, Loop, User
  <2>2. Queued("stop")' => Queued("stop")
    BY <1>8, QueuedMoves DEF TakeEvent
  <2> QED BY <2>1, <2>2 DEF CoreInv
<1>9. CASE LoopSends
  <2>1. /\ UNCHANGED <<core, ctx, stop, inds>> /\ Loop' = "idle" /\ User' = User
    BY <1>9, LoopGoes DEF LoopSends, ending
  <2>2. Queued("stop")' => Queued("stop")
    BY <1>9, QueuedMoves DEF LoopSends, Events
  <2> QED BY <2>1, <2>2 DEF CoreInv, core
<1>10. CASE CheckReturns \/ LoopEnds \/ CheckDue
  <2>1. /\ UNCHANGED <<coreReady, services, ctx, stop, inds, queue>> /\ User' = User
        /\ Loop' \in {"idle", "hangup", "sendStart", "ended", "sendCheck"}
    BY <1>10, LoopGoes DEF CheckReturns, LoopEnds, CheckDue, ending, core
  <2> QED BY <2>1 DEF CoreInv, Queued
<1>11. CASE RecoveryTearsDown \/ RecoveryOpens \/ QuietPasses
  <2>1. UNCHANGED <<ctx, stop, inds, queue>> /\ User' = User
    BY <1>11, LoopGoes DEF RecoveryTearsDown, RecoveryOpens, QuietPasses, ending
  <2>2. Loop # "ended"
    BY <1>11 DEF RecoveryTearsDown, RecoveryOpens, QuietPasses, Loop
  <2>3. CASE RecoveryTearsDown
    <3>1. services' = "closed" /\ coreReady' = FALSE /\ Loop' = "opening"
      BY <2>3, LoopGoes DEF RecoveryTearsDown, CleansUp
    <3> QED BY <2>1, <2>2, <3>1 DEF CoreInv, NextInv, Queued
  <2>4. CASE RecoveryOpens
    <3>1. services' = "control" /\ coreReady' = coreReady /\ Loop' = "quiet"
      BY <2>4, LoopGoes DEF RecoveryOpens
    <3> QED BY <2>1, <2>2, <3>1 DEF CoreInv, NextInv, Queued
  <2>5. CASE QuietPasses
    <3>1. services' = services /\ coreReady' = coreReady /\ Loop' = "identity" /\ Loop = "quiet"
      BY <2>5, LoopGoes DEF QuietPasses, core, Loop
    <3> QED BY <2>1, <2>2, <3>1 DEF CoreInv, NextInv, Queued
  <2> QED BY <1>11, <2>3, <2>4, <2>5
<1>12. CASE RecoveryFails \/ QuietBroken \/ RecoveryConverges
  <2>1. UNCHANGED <<services, ctx, stop, inds>>
    BY <1>12 DEF RecoveryFails, QuietBroken, RecoveryConverges, ending, core
  <2>2. coreReady' = coreReady \/ Loop = "identity"
    BY <1>12 DEF RecoveryFails, QuietBroken, RecoveryConverges, core, Loop
  <2>3. Loop # "ended" /\ \E left : RecoveryEnds(left)
    BY <1>12 DEF RecoveryFails, RetryOrGiveUp, QuietBroken, RecoveryConverges, Loop
  <2>4. (Queued("stop")' => Queued("stop")) /\ Loop' = "idle" /\ User' = User
    BY <2>3, EndsQueued
  <2> QED BY <2>1, <2>2, <2>3, <2>4 DEF CoreInv, NextInv
<1>13. CASE \/ Firing \/ SenderSends \/ WindowCloses \/ HandlerSends \/ ResetIndicated \/ HandlerEnds
            \/ StatusIndicated \/ ModemResets \/ CallDrops \/ RequestCoreRecovery
  <2>1. UNCHANGED <<pc, coreReady, services, ctx, stop>>
    BY <1>13 DEF Firing, StartFires, CheckFires, RetryFires, DeferredFires, AgainFires,
       SenderSends, WindowCloses, HandlerSends, ResetIndicated, HandlerEnds,
       StatusIndicated, ModemResets, CallDrops, RequestCoreRecovery, core, ending
  <2>2. inds' = inds \/ inds # "ended"
    BY <1>13 DEF Firing, StartFires, CheckFires, RetryFires, DeferredFires, AgainFires,
       SenderSends, WindowCloses, HandlerSends, ResetIndicated, HandlerEnds,
       StatusIndicated, ModemResets, CallDrops, RequestCoreRecovery
  <2>3. \/ queue' = queue
        \/ \E e \in {"start", "check", "reset", "packet"} : queue' = Append(queue, e)
    BY <1>13 DEF Firing, StartFires, CheckFires, RetryFires, DeferredFires, AgainFires,
       SenderSends, WindowCloses, HandlerSends, ResetIndicated, HandlerEnds, EnqueueModemReset,
       StatusIndicated, ModemResets, CallDrops, RequestCoreRecovery
  <2>4. Queued("stop")' => Queued("stop")
    BY <2>3, QueuedMoves DEF Queued, Events
  <2> QED BY <2>1, <2>2, <2>4 DEF CoreInv, User, Loop
<1>14. CASE UNCHANGED vars
  BY <1>14 DEF vars, core, ending, CoreInv, User, Loop, Queued
<1> QED BY <1>1, <1>2, <1>3, <1>4, <1>5, <1>6, <1>7, <1>8, <1>9, <1>10, <1>11, <1>12, <1>13, <1>14
        DEF Next, Looping, Outside

LEMMA StopStep ==
  TypeOK /\ CoreInv /\ StopInv /\ [Next]_vars /\ "overlapped" \notin marks' => StopInv'
<1> SUFFICES ASSUME TypeOK, CoreInv, StopInv, [Next]_vars, stop' = "returned",
                    "overlapped" \notin marks'
             PROVE  StopInv'
  BY DEF StopInv
<1>0. CASE StopReturns
  BY <1>0 DEF StopReturns, CleansUp, StopInv, Loop
<1> SUFFICES ASSUME ~StopReturns PROVE StopInv'
  BY <1>0
<1>1. stop = "returned"
  <2>1. CASE \E p \in Processes : Dialling(p)
    BY <2>1 DEF Dialling, ServicesEnsured, CallStarts, Configured, DialFails, HangUp, Settle, ending
  <2>2. CASE UserDials \/ Starting \/ Looping
    BY <2>2 DEF UserDials, Starting, CoreFails, CoreOpens, CoreStarts, Looping, TakeEvent,
       CheckReturns, LoopSends, LoopEnds, RecoveryTearsDown, RecoveryOpens, RecoveryFails,
       QuietPasses, QuietBroken, RecoveryConverges, ending
  <2>3. CASE Firing \/ SenderSends \/ WindowCloses \/ HandlerSends \/ ResetIndicated \/ HandlerEnds
    BY <2>3 DEF Firing, StartFires, CheckFires, RetryFires, DeferredFires, AgainFires, SenderSends,
       WindowCloses, HandlerSends, ResetIndicated, HandlerEnds, ending
  <2>4. CASE Outside
    BY <2>4 DEF Outside, StartCore, Connect, Disconnect, StopBegins, CheckDue, StatusIndicated,
       ModemResets, CallDrops, RequestCoreRecovery, ending
  <2>5. CASE UNCHANGED vars
    BY <2>5 DEF vars, ending
  <2> QED BY <2>1, <2>2, <2>3, <2>4, <2>5 DEF Next
<1>2. /\ Loop = "ended" /\ inds = "ended" /\ ~notice /\ state = "disconnected"
      /\ services = "closed" /\ handle = 0 /\ ~coreReady /\ calls = {} /\ timers = {}
      /\ User \in {"idle", "hangup", "settle"} /\ ctx = "done"
  BY <1>1 DEF StopInv, CoreInv
<1>3. ASSUME UNCHANGED <<state, coreReady, services, handle, calls, notice, timers, inds>>, Loop' = Loop
      PROVE  StopInv'
  BY <1>2, <1>3 DEF StopInv
<1>4. CASE \E p \in Processes : Dialling(p)
  <2>1. PICK p \in Processes : Dialling(p)
    BY <1>4
  <2>2. p = "user" /\ (HangUp(p) \/ Settle(p))
    BY <1>2, <2>1 DEF Dialling, ServicesEnsured, CallStarts, Configured, DialFails, HangUp, Settle,
       Processes, Loop, User
  <2>3. Loop' = Loop
    BY <2>2, UserGoes DEF HangUp, Settle
  <2> QED BY <1>2, <1>3, <2>2, <2>3 DEF HangUp, Settle, modem
<1>5. CASE SenderSends \/ WindowCloses \/ Disconnect
  <2>1. CASE SenderSends \/ WindowCloses
    BY <1>3, <2>1 DEF SenderSends, WindowCloses, core, modem, Loop
  <2>2. ~Disconnect
    BY <1>2 DEF Disconnect
  <2> QED BY <1>3, <1>5, <2>1, <2>2
<1>6. CASE ModemResets
  BY <1>2, <1>6 DEF ModemResets, StopInv, core, Loop
<1>7. CASE UNCHANGED vars
  BY <1>3, <1>7 DEF vars, core, modem, Loop
<1>8. ~(UserDials \/ Starting \/ Looping)
  BY <1>2 DEF UserDials, Starting, CoreFails, CoreOpens, CoreStarts, Looping, TakeEvent,
       CheckReturns, LoopSends, LoopEnds, RecoveryTearsDown, RecoveryOpens, RecoveryFails,
       QuietPasses, QuietBroken, RecoveryConverges, Loop, User
<1>9. ~(Firing \/ HandlerSends \/ ResetIndicated \/ HandlerEnds)
  BY <1>2 DEF Firing, StartFires, CheckFires, RetryFires, DeferredFires, AgainFires, Fires,
       HandlerSends, ResetIndicated, HandlerEnds
<1>10. ~(StartCore \/ Connect \/ StopBegins \/ CheckDue \/ StatusIndicated \/ CallDrops)
  BY <1>1, <1>2 DEF StartCore, Connect, StopBegins, CheckDue, StatusIndicated, CallDrops, Loop
<1>11. ~RequestCoreRecovery
  BY <1>2 DEF RequestCoreRecovery
<1> QED BY <1>4, <1>5, <1>6, <1>7, <1>8, <1>9, <1>10, <1>11 DEF Next, Outside

LEMMA CallStepDialling ==
  ASSUME TypeOK, NextInv, CoreInv, CallInv, NEW p \in Processes, Dialling(p),
         "overlapped" \notin marks'
  PROVE  CallInv'
<1>0. pc \in [Processes -> LoopPCs \cup UserPCs] /\ "loop" \in Processes /\ "user" \in Processes
  BY TypesAre DEF PlaceOK, Processes
<1>t. /\ handle \in Handles \cup {0} /\ calls \subseteq Handles /\ 0 \notin Handles
      /\ services \in {"closed", "control", "data"} /\ state \in States
      /\ seen.next \in {"idle", "sendStart", "teardown"}
  BY TypesAre, ManagerAssumption DEF EnumOK, PlaceOK
<1> USE DEF CallInv, Dialing, States
<1>1. CASE ServicesEnsured(p)
  <2>1. /\ UNCHANGED <<calls, handle, state, desired, stop, seen>> /\ services # "closed"
        /\ services' = "data" /\ pc[p] = "ensure" /\ Goes(p, "call")
    BY <1>1 DEF ServicesEnsured, modem, ending
  <2>2. CASE p = "loop"
    <3>1. Loop = "ensure" /\ Loop' = "call" /\ User' = User
      BY <2>1, <2>2, LoopGoes DEF Loop
    <3> QED BY <2>1, <3>1
  <2>3. CASE p = "user"
    <3>1. User = "ensure" /\ User' = "call" /\ Loop' = Loop
      BY <2>1, <2>3, UserGoes DEF User
    <3> QED BY <2>1, <3>1
  <2> QED BY <2>2, <2>3 DEF Processes
<1>2. CASE CallStarts(p)
  <2>1. /\ UNCHANGED <<services, state, desired, stop, seen>> /\ services = "data"
        /\ pc[p] = "call" /\ Goes(p, "configure")
        /\ \E h \in Handles : calls' = calls \cup {h} /\ handle' = h
    BY <1>2 DEF CallStarts, ending
  <2>2. CASE p = "loop"
    <3>1. Loop = "call" /\ Loop' = "configure" /\ User' = User
      BY <2>1, <2>2, LoopGoes DEF Loop
    <3> QED BY <2>1, <3>1 DEF NextInv
  <2>3. CASE p = "user"
    <3>1. User = "call" /\ User' = "configure" /\ Loop' = Loop
      BY <2>1, <2>3, UserGoes DEF User
    <3> QED BY <2>1, <3>1
  <2> QED BY <2>2, <2>3 DEF Processes
<1>3. CASE Configured(p)
  <2>1. /\ UNCHANGED <<services, calls, handle, desired, stop, seen>> /\ state' = "connected"
        /\ pc[p] = "configure" /\ Goes(p, "idle")
    BY <1>3 DEF Configured, modem, ending
  <2>2. CASE p = "loop"
    <3>1. Loop = "configure" /\ Loop' = "idle" /\ User' = User
      BY <2>1, <2>2, LoopGoes DEF Loop
    <3> QED BY <2>1, <3>1
  <2>3. CASE p = "user"
    <3>1. User = "configure" /\ User' = "idle" /\ Loop' = Loop
      BY <2>1, <2>3, UserGoes DEF User
    <3> QED BY <2>1, <3>1
  <2> QED BY <2>2, <2>3 DEF Processes
<1>4. CASE DialFails(p)
  <2>1. /\ UNCHANGED <<services, calls, handle, desired, stop, seen>> /\ state' = "disconnected"
        /\ pc[p] \in {"ensure", "call"} /\ Goes(p, "idle")
    BY <1>4 DEF DialFails, ending
  <2>2. CASE p = "loop"
    <3>1. Loop \in {"ensure", "call"} /\ Loop' = "idle" /\ User' = User
      BY <2>1, <2>2, LoopGoes DEF Loop
    <3> QED BY <2>1, <3>1
  <2>3. CASE p = "user"
    <3>1. User \in {"ensure", "call"} /\ User' = "idle" /\ Loop' = Loop
      BY <2>1, <2>3, UserGoes DEF User
    <3> QED BY <2>1, <3>1
  <2> QED BY <2>2, <2>3 DEF Processes
<1>5. CASE HangUp(p)
  <2>1. /\ UNCHANGED <<services, state, desired, stop, seen>>
        /\ pc[p] = "hangup" /\ Goes(p, "settle")
        /\ \/ services = "data" /\ calls' = calls \ {handle} /\ handle' = 0
           \/ services # "data" /\ UNCHANGED <<calls, handle>>
    BY <1>5 DEF HangUp, ending
  <2>2. calls' = {}
    BY <2>1
  <2>3. CASE p = "loop"
    <3>1. Loop = "hangup" /\ Loop' = "settle" /\ User' = User
      BY <2>1, <2>3, LoopGoes DEF Loop
    <3> QED BY <2>1, <2>2, <3>1
  <2>4. CASE p = "user"
    <3>1. User = "hangup" /\ User' = "settle" /\ Loop' = Loop
      BY <2>1, <2>4, UserGoes DEF User
    <3> QED BY <2>1, <2>2, <3>1
  <2> QED BY <2>3, <2>4 DEF Processes
<1>6. CASE Settle(p)
  <2>1. /\ UNCHANGED <<services, calls, handle, desired, stop>> /\ state' = "disconnected"
        /\ pc[p] = "settle"
    BY <1>6 DEF Settle, modem, ending
  <2>2. CASE p = "loop"
    <3>1. Loop = "settle" /\ Loop' = seen.next /\ User' = User
      BY <1>6, <2>1, <2>2, LoopGoes DEF Settle, Loop
    <3> QED BY <1>t, <2>1, <3>1
  <2>3. CASE p = "user"
    <3>1. User = "settle" /\ User' = "idle" /\ Loop' = Loop /\ seen' = seen
      BY <1>6, <2>1, <2>3, UserGoes DEF Settle, User
    <3> QED BY <2>1, <3>1
  <2> QED BY <2>2, <2>3 DEF Processes
<1> QED BY <1>1, <1>2, <1>3, <1>4, <1>5, <1>6 DEF Dialling

(* The locked part of doConnect lets a dial begin only when no call is up. *)
LEMMA DialBeginsClear ==
  ASSUME TypeOK, CallInv, NEW p \in Processes, DialBegins(p), "overlapped" \notin marks',
         pc[p] \in {"idle", "connect"}, p = "loop" => pc[p] = "idle"
  PROVE  \/ Goes(p, "idle") /\ state' = state
         \/ /\ Goes(p, "ensure") /\ state' = "connecting" /\ desired /\ calls = {}
            /\ p = "user" => Loop = "idle"
            /\ p = "loop" => User \notin Dialing
<1>1. handle \in Handles \cup {0} /\ calls \subseteq Handles /\ 0 \notin Handles /\ state \in States
  BY TypesAre, ManagerAssumption DEF EnumOK
<1>2. CASE Goes(p, "idle") /\ state' = state
  BY <1>2
<1>3. CASE /\ desired /\ state \notin {"connected", "stopping"}
           /\ ~(state = "connecting" /\ handle # 0)
           /\ state' = "connecting" /\ Goes(p, "ensure")
           /\ ~(p = "user" /\ pc["loop"] # "idle") /\ ~(p = "loop" /\ Dials("user"))
  <2>1. p = "user" => Loop = "idle"
    BY <1>3 DEF Loop
  <2>2. p = "loop" => User \notin Dialing /\ Loop = "idle"
    BY <1>3 DEF Dials, User, Loop
  <2>3. User # "configure" /\ Loop # "teardown"
    BY <2>1, <2>2 DEF Processes, User, Dialing
  <2>4. state = "disconnected" \/ (state = "connecting" /\ handle = 0)
    BY <1>1, <1>3 DEF States
  <2>5. calls = {}
    BY <1>1, <2>3, <2>4 DEF CallInv
  <2> QED BY <1>3, <2>1, <2>2, <2>5
<1> QED BY <1>2, <1>3 DEF DialBegins

LEMMA CallStep ==
  TypeOK /\ NextInv /\ CoreInv /\ CallInv /\ [Next]_vars /\ "overlapped" \notin marks' => CallInv'
<1> SUFFICES ASSUME TypeOK, NextInv, CoreInv, CallInv, [Next]_vars, "overlapped" \notin marks'
             PROVE  CallInv'
  OBVIOUS
<1>0. pc \in [Processes -> LoopPCs \cup UserPCs] /\ "loop" \in Processes /\ "user" \in Processes
  BY TypesAre DEF PlaceOK, Processes
<1>t. /\ handle \in Handles \cup {0} /\ calls \subseteq Handles /\ 0 \notin Handles
      /\ services \in {"closed", "control", "data"} /\ state \in States
      /\ seen.next \in {"idle", "sendStart", "teardown"}
  BY TypesAre, ManagerAssumption DEF EnumOK, PlaceOK
<1>1. ASSUME NEW p \in Processes, Dialling(p) PROVE CallInv'
  BY <1>1, CallStepDialling
<1>f. ASSUME UNCHANGED <<handle, services, state, desired, stop, seen, pc>>, calls' \subseteq calls
      PROVE  CallInv'
  BY <1>f DEF CallInv, Loop, User
<1>2. CASE UserDials
  <2>1. /\ UNCHANGED <<handle, services, desired, stop, seen, calls>> /\ User = "connect"
        /\ DialBegins("user") /\ pc["user"] = "connect"
    BY <1>2 DEF UserDials, modem, ending, User
  <2>2. \/ Goes("user", "idle") /\ state' = state
        \/ Goes("user", "ensure") /\ state' = "connecting" /\ desired /\ calls = {} /\ Loop = "idle"
    BY <1>0, <2>1, DialBeginsClear
  <2>3. \/ User' = "idle" /\ Loop' = Loop /\ state' = state
        \/ User' = "ensure" /\ Loop' = Loop /\ state' = "connecting" /\ desired /\ calls = {}
           /\ Loop = "idle"
    BY <2>2, UserGoes
  <2> QED BY <2>1, <2>3 DEF CallInv, Dialing
<1>3. CASE CoreFails \/ CoreOpens \/ StartCore
  <2>1. /\ UNCHANGED <<calls, stop, seen>> /\ desired' \in {desired, FALSE}
        /\ User \in {"idle", "starting"} /\ ctx = "none" /\ Loop' = Loop
        /\ User' \in {"idle", "starting", "opened"} /\ handle' \in {handle, 0}
    BY <1>3, UserGoes DEF CoreFails, CoreOpens, StartCore, NextInv, User, modem, ending
  <2>2. services = "closed" /\ Loop = "ended" /\ calls = {}
    BY <2>1 DEF CoreInv, NextInv, CallInv
  <2> QED BY <2>1, <2>2 DEF CallInv, Dialing
<1>4. CASE CoreStarts
  <2>1. User = "opened" /\ User' = "idle" /\ Loop' = "idle" /\ ctx = "none"
    BY <1>0, <1>4 DEF CoreStarts, NextInv, Loop, User
  <2>2. Loop = "ended" /\ seen.next = "idle"
    BY <2>1 DEF NextInv
  <2>3. UNCHANGED <<calls, handle, services, desired, stop, seen>> /\ state' = "disconnected"
    BY <1>4 DEF CoreStarts, modem
  <2>4. calls = {}
    BY <2>1, <2>3 DEF CoreInv, CallInv
  <2> QED BY <2>1, <2>2, <2>3, <2>4 DEF CallInv, Dialing
<1>5. CASE Connect
  <2>1. /\ UNCHANGED <<calls, handle, services, stop, seen, state>> /\ desired' = TRUE
        /\ User = "idle" /\ User' \in {"idle", "connect"} /\ Loop' = Loop
    BY <1>5, UserGoes DEF Connect, User, Loop, ending
  <2> QED BY <2>1 DEF CallInv, Dialing
<1>6. CASE Disconnect
  <2>1. /\ UNCHANGED <<calls, handle, services, stop, seen, state>> /\ desired' = FALSE
        /\ User = "idle" /\ Loop' = Loop /\ Loop \notin Dialing
        /\ \/ User' = "hangup"
           \/ User' = "idle" /\ handle = 0
    BY <1>6, UserGoes DEF Disconnect, User, Loop, Dials, ending
  <2> QED BY <1>t, <2>1 DEF CallInv, Dialing
<1>7. CASE StopBegins
  <2>1. /\ UNCHANGED <<calls, handle, services, seen, pc>> /\ desired' = FALSE /\ stop' = "waiting"
        /\ state' = "stopping" /\ User = "idle" /\ Loop \notin Dialing
    BY <1>7 DEF StopBegins, User, Loop, Dials, modem
  <2> QED BY <2>1 DEF CallInv, Dialing, Loop, User
<1>8. CASE StopReturns
  <2>1. /\ calls' = {} /\ services' = "closed" /\ UNCHANGED <<pc, desired, seen>>
        /\ state' = "disconnected" /\ Loop = "ended" /\ stop = "waiting"
    BY <1>8 DEF StopReturns, CleansUp, Loop
  <2>2. User \in {"idle", "hangup", "settle"}
    BY <2>1 DEF CoreInv
  <2> QED BY <2>1, <2>2 DEF CallInv, Dialing, Loop, User
<1>9. CASE TakeEvent
  <2>1. /\ UNCHANGED <<calls, handle, services, desired, stop>> /\ Loop = "idle" /\ User' = User
        /\ queue # <<>>
    BY <1>9, LoopGoes DEF TakeEvent, DialBegins, Loop, User, modem, ending
  <2>2. CASE Head(queue) = "start" /\ DialBegins("loop") /\ seen' = seen
    <3>1. \/ Goes("loop", "idle") /\ state' = state
          \/ /\ Goes("loop", "ensure") /\ state' = "connecting" /\ desired /\ calls = {}
             /\ User \notin Dialing
      BY <1>0, <2>1, <2>2, DialBeginsClear DEF Loop
    <3>2. \/ Loop' = "idle" /\ state' = state
          \/ /\ Loop' = "ensure" /\ state' = "connecting" /\ desired /\ calls = {}
             /\ User \notin Dialing
      BY <3>1, LoopGoes
    <3> QED BY <2>1, <2>2, <3>2 DEF CallInv, Dialing
  <2>3. CASE Head(queue) = "stop" /\ Goes("loop", "hangup") /\ UNCHANGED <<state, seen>>
    <3>1. queue \in Seq(Events)
      BY TypesAre DEF QueueOK
    <3>2. Queued("stop")
      BY <2>1, <2>3, <3>1 DEF Queued
    <3>3. User \in {"idle", "hangup", "settle"} /\ Loop' = "hangup"
      BY <2>3, <3>2, LoopGoes DEF CoreInv
    <3> QED BY <2>1, <2>3, <3>3 DEF CallInv, Dialing
  <2>4. CASE /\ Goes("loop", "query") /\ state' = state
             /\ seen' = [state |-> state, desired |-> desired, next |-> "idle"]
    <3>1. Loop' = "query" /\ seen'.state = state /\ seen'.next = "idle"
      BY <2>4, LoopGoes
    <3> QED BY <2>1, <2>4, <3>1 DEF CallInv, Dialing
  <2>5. CASE /\ Goes("loop", "hangup") /\ state' = state
             /\ seen' = [Nothing EXCEPT !.desired = desired, !.next = "teardown"]
    <3>1. Loop' = "hangup" /\ seen'.next = "teardown"
      BY <2>5, LoopGoes DEF Nothing
    <3> QED BY <2>1, <2>5, <3>1 DEF CallInv, Dialing
  <2>6. CASE UNCHANGED <<state, pc, seen>>
    BY <1>f, <2>1, <2>6
  <2> QED BY <1>9, <2>2, <2>3, <2>4, <2>5, <2>6 DEF TakeEvent
<1>10. CASE CheckReturns
  <2>1. /\ UNCHANGED <<calls, services, desired, stop>> /\ Loop = "query" /\ User' = User
    BY <1>10, LoopGoes DEF CheckReturns, Loop, modem, ending
  <2>2. CASE Goes("loop", "idle") /\ seen' = Nothing /\ UNCHANGED <<state, handle>>
    <3>1. Loop' = "idle"
      BY <2>2, LoopGoes
    <3> QED BY <2>1, <2>2, <3>1 DEF CallInv, Dialing
  <2>3. CASE calls # {} /\ handle' = handle /\ state' = "connected" /\ Goes("loop", "idle")
    <3>1. Loop' = "idle"
      BY <2>3, LoopGoes
    <3> QED BY <2>1, <2>3, <3>1 DEF CallInv, Dialing
  <2>4. CASE /\ calls # {} /\ UNCHANGED <<handle, state>> /\ Goes("loop", "hangup")
    <3>1. Loop' = "hangup"
      BY <2>4, LoopGoes
    <3> QED BY <2>1, <2>4, <3>1 DEF CallInv, Dialing
  <2>5. CASE /\ calls = {} /\ seen.state = "connected" /\ state' = "disconnected"
             /\ seen' = Nothing /\ services = "data" /\ \E l \in {"sendStart", "idle"} : Goes("loop", l)
    <3>1. Loop' \in {"sendStart", "idle"}
      BY <2>5, LoopGoes
    <3> QED BY <2>1, <2>5, <3>1 DEF CallInv, Dialing
  <2> QED BY <1>10, <2>2, <2>3, <2>4, <2>5 DEF CheckReturns
<1>11. CASE LoopSends \/ LoopEnds \/ CheckDue
  <2>1. /\ UNCHANGED <<calls, handle, services, state, desired, stop, seen>> /\ User' = User
        /\ Loop # "teardown" /\ Loop' \in {"idle", "ended", "sendCheck"}
    BY <1>11, LoopGoes DEF LoopSends, LoopEnds, CheckDue, Loop, core, modem, ending
  <2> QED BY <2>1 DEF CallInv, Dialing
<1>12. CASE RecoveryTearsDown
  <2>1. /\ calls' = {} /\ services' = "closed" /\ UNCHANGED <<state, desired, stop, seen>>
        /\ Loop = "teardown" /\ Loop' = "opening" /\ User' = User /\ User \notin Dialing
    BY <1>12, LoopGoes DEF RecoveryTearsDown, CleansUp, Loop, User, ending
  <2> QED BY <2>1 DEF CallInv, Dialing
<1>13. CASE RecoveryOpens
  <2>1. /\ UNCHANGED <<calls, handle, state, desired, stop, seen>>
        /\ Loop = "opening" /\ Loop' = "quiet" /\ User' = User
    BY <1>13, LoopGoes DEF RecoveryOpens, Loop, ending
  <2> QED BY <2>1 DEF CallInv, Dialing
<1>14. CASE QuietPasses
  <2>1. /\ UNCHANGED <<calls, handle, services, state, desired, stop, seen>>
        /\ Loop = "quiet" /\ Loop' = "identity" /\ User' = User
    BY <1>14, LoopGoes DEF QuietPasses, Loop, core, modem, ending
  <2> QED BY <2>1 DEF CallInv, Dialing
<1>15. CASE RecoveryFails \/ QuietBroken \/ RecoveryConverges
  <2>1. /\ UNCHANGED <<calls, handle, services, desired, stop>>
        /\ Loop \in {"opening", "quiet", "identity"} /\ state' \in {state, "disconnected"}
    BY <1>15 DEF RecoveryFails, QuietBroken, RecoveryConverges, Loop, core, modem, ending
  <2>2. \E left : RecoveryEnds(left)
    BY <1>15 DEF RecoveryFails, RetryOrGiveUp, QuietBroken, RecoveryConverges
  <2>3. Loop' = "idle" /\ User' = User
    BY <2>2, LoopGoes DEF RecoveryEnds
  <2> QED BY <2>1, <2>3 DEF CallInv, Dialing
<1>16. CASE \/ Firing \/ SenderSends \/ WindowCloses \/ HandlerSends \/ ResetIndicated \/ HandlerEnds
            \/ StatusIndicated \/ ModemResets \/ CallDrops \/ RequestCoreRecovery
  <2>1. UNCHANGED <<handle, services, state, desired, stop, seen, pc>>
    BY <1>16 DEF Firing, StartFires, CheckFires, RetryFires, DeferredFires, AgainFires,
       SenderSends, WindowCloses, HandlerSends, ResetIndicated, HandlerEnds,
       StatusIndicated, ModemResets, CallDrops, RequestCoreRecovery, core, ending
  <2>2. calls' \subseteq calls
    BY <1>16 DEF Firing, StartFires, CheckFires, RetryFires, DeferredFires, AgainFires,
       SenderSends, WindowCloses, HandlerSends, ResetIndicated, HandlerEnds,
       StatusIndicated, ModemResets, CallDrops, RequestCoreRecovery, modem
  <2> QED BY <1>f, <2>1, <2>2
<1>17. CASE UNCHANGED vars
  BY <1>f, <1>17 DEF vars, core, modem, ending
<1> QED BY <1>1, <1>2, <1>3, <1>4, <1>5, <1>6, <1>7, <1>8, <1>9, <1>10, <1>11, <1>12, <1>13, <1>14,
           <1>15, <1>16, <1>17 DEF Next, Looping, Starting, Outside

LEMMA StartStep ==
  /\ TypeOK /\ NextInv /\ CoreInv /\ StopInv /\ StartInv /\ [Next]_vars
  /\ marks' \cap {"overlapped", "lateStart"} = {}
  => StartInv'
<1> SUFFICES ASSUME TypeOK, NextInv, CoreInv, StopInv, StartInv, [Next]_vars,
                    marks' \cap {"overlapped", "lateStart"} = {},
                    services' = "closed", stop' # "returned"
             PROVE  StartInv'
  BY DEF StartInv
<1>n. seen.next \in {"idle", "sendStart", "teardown"}
  BY TypesAre DEF PlaceOK
<1>0. ASSUME services = "closed", stop # "returned", UNCHANGED sender,
             "start" \in timers' => "start" \in timers, Queued("start")' => Queued("start"),
             Loop' \notin Dialing \cup {"sendStart"}, User' \notin Dialing \cup {"connect"},
             seen' = seen \/ seen'.next # "sendStart"
      PROVE  StartInv'
  BY <1>0 DEF StartInv, HasStart
<1>1. ASSUME NEW p \in Processes, Dialling(p) PROVE StartInv'
  <2>1. /\ UNCHANGED <<stop, sender, queue>> /\ (services' = services \/ services' = "data")
        /\ pc[p] \in {"ensure", "call", "configure", "hangup", "settle"}
    BY <1>1 DEF Dialling, ServicesEnsured, CallStarts, Configured, DialFails, HangUp, Settle, ending
  <2>2. services = "closed" /\ stop # "returned"
    BY <2>1
  <2>3. HangUp(p) \/ Settle(p)
    BY <1>1, <2>2 DEF Dialling, ServicesEnsured, CallStarts, Configured, DialFails, StartInv, Loop,
                      User, Processes, Dialing
  <2>4. /\ timers' = timers /\ (seen' = seen \/ seen'.next = "idle")
        /\ \/ Goes(p, "settle")
           \/ Goes(p, IF p = "loop" THEN seen.next ELSE "idle")
    <3>1. seen \in [state : States, desired : BOOLEAN, next : {"idle", "sendStart", "teardown"}]
      BY TypesAre DEF PlaceOK
    <3>2. [seen EXCEPT !.next = "idle"].next = "idle"
      BY <3>1
    <3> QED BY <2>3, <3>2 DEF HangUp, Settle
  <2>5. Loop' \in {Loop, "settle", seen.next} /\ User' \in {User, "settle", "idle"}
    BY <2>4, LoopGoes, UserGoes DEF Processes
  <2>6. seen.next # "sendStart"
    BY <2>2 DEF StartInv
  <2>7. Loop' \notin Dialing \cup {"sendStart"} /\ User' \notin Dialing \cup {"connect"}
    BY <1>n, <2>2, <2>5, <2>6 DEF StartInv, Dialing
  <2> QED BY <1>0, <2>1, <2>2, <2>4, <2>7 DEF Queued
<1>2. CASE UserDials
  BY <1>2 DEF UserDials, StartInv, User, ending
<1>3. CASE CoreFails \/ StartCore
  <2>1. /\ UNCHANGED <<stop, sender, queue, seen>> /\ timers' \subseteq timers
        /\ User \in {"starting", "idle"} /\ ctx = "none" /\ User' \in {"starting", "idle"} /\ Loop' = Loop
    BY <1>3, UserGoes DEF CoreFails, StartCore, User, ending, NextInv
  <2>2. services = "closed" /\ Loop = "ended"
    BY <2>1 DEF CoreInv, NextInv
  <2> QED BY <1>0, <2>1, <2>2 DEF Queued, Dialing
<1>4. ~(CoreOpens \/ RecoveryOpens \/ StopReturns)
  BY DEF CoreOpens, RecoveryOpens, StopReturns
<1>5. ~CoreStarts
  BY DEF CoreStarts, CoreInv, User
<1>6. ~(Connect \/ Disconnect)
  BY DEF Connect, Disconnect, CoreInv
<1>7. CASE StopBegins
  <2>1. UNCHANGED <<services, sender, pc, seen>> /\ timers' = {} /\ stop # "returned"
    BY <1>7 DEF StopBegins
  <2>2. Queued("start")' => Queued("start")
    BY <1>7, QueuedMoves DEF StopBegins, Queued, Events
  <2> QED BY <1>0, <2>1, <2>2 DEF StartInv, Loop, User
<1>8. CASE TakeEvent
  <2>1. /\ UNCHANGED <<services, stop, sender>> /\ Loop = "idle" /\ User' = User /\ queue # <<>>
        /\ queue' = Tail(queue)
    BY <1>8, LoopGoes DEF TakeEvent, DialBegins, Loop, User, ending
  <2>2. Head(queue) # "start"
    <3>1. queue \in Seq(Events)
      BY TypesAre DEF QueueOK
    <3>2. Head(queue) = "start" => Queued("start")
      BY <2>1, <3>1 DEF Queued
    <3> QED BY <2>1, <3>2 DEF StartInv, HasStart
  <2>3. /\ timers' \subseteq timers \cup {"check"} /\ Loop' \in {"idle", "hangup", "query"}
    BY <1>8, <2>1, <2>2, LoopGoes DEF TakeEvent, Loop
  <2>4. seen' = seen \/ seen'.next # "sendStart"
    BY <1>8, <2>2 DEF TakeEvent, Nothing
  <2>5. Queued("start")' => Queued("start")
    BY <2>1, QueuedMoves
  <2> QED BY <1>0, <2>1, <2>3, <2>4, <2>5 DEF StartInv, Dialing
<1>9. CASE CheckReturns
  <2>1. /\ UNCHANGED <<services, stop, sender, timers, queue>> /\ seen' = Nothing
        /\ Goes("loop", "idle")
    BY <1>9 DEF CheckReturns, ending
  <2>2. Loop' = "idle" /\ User' = User
    BY <2>1, LoopGoes
  <2> QED BY <1>0, <2>1, <2>2 DEF StartInv, Dialing, Nothing, Queued
<1>10. CASE LoopSends
  <2>1. /\ UNCHANGED <<services, stop, sender, timers, seen>> /\ Loop' = "idle" /\ User' = User
        /\ queue' = Append(queue, IF Loop = "sendCheck" THEN "check" ELSE "start")
        /\ Loop \in {"sendCheck", "sendStart"}
    BY <1>10, LoopGoes DEF LoopSends, ending, core, Loop
  <2>2. Loop = "sendCheck"
    BY <2>1 DEF StartInv
  <2>3. Queued("start")' => Queued("start")
    BY <2>1, <2>2, QueuedMoves DEF Events
  <2> QED BY <1>0, <2>1, <2>3 DEF StartInv, Dialing
<1>11. CASE LoopEnds \/ CheckDue \/ QuietPasses
  <2>1. /\ UNCHANGED <<services, stop, sender, timers, queue, seen>> /\ User' = User
        /\ Loop' \in {"ended", "sendCheck", "identity"}
    BY <1>11, LoopGoes DEF LoopEnds, CheckDue, QuietPasses, ending, core
  <2> QED BY <1>0, <2>1 DEF StartInv, Dialing, Queued
<1>12. CASE RecoveryTearsDown
  <2>1. /\ UNCHANGED <<stop, sender, queue, seen>> /\ timers' = {} /\ Loop = "teardown"
        /\ Loop' = "opening" /\ User' = User
    BY <1>12, LoopGoes DEF RecoveryTearsDown, CleansUp, Loop, ending
  <2>2. User \notin Dialing \cup {"connect"} /\ ~sender /\ ~Queued("start")
    BY <1>12 DEF RecoveryTearsDown, User, Queued
  <2>3. seen.next = "idle"
    BY <2>1 DEF NextInv
  <2> QED BY <2>1, <2>2, <2>3 DEF StartInv, HasStart, Queued, Dialing
<1>13. CASE RecoveryFails \/ QuietBroken \/ RecoveryConverges
  <2>1. UNCHANGED <<services, stop, sender>> /\ Loop \in {"opening", "quiet", "identity"}
    BY <1>13 DEF RecoveryFails, QuietBroken, RecoveryConverges, ending, core, Loop
  <2>2. ~RecoveryConverges
    BY <2>1 DEF RecoveryConverges, CoreInv, Loop
  <2>3. \E left : RecoveryEnds(left) /\ left \subseteq timers \cup {"retry"}
    BY <1>13, <2>2 DEF RecoveryFails, RetryOrGiveUp, QuietBroken
  <2>4. /\ Loop' = "idle" /\ User' = User /\ seen' = Nothing /\ timers' \subseteq timers \cup {"retry", "deferred"}
        /\ Queued("start")' => Queued("start")
    BY <2>3, EndsQueued
  <2> QED BY <1>0, <2>1, <2>4 DEF StartInv, Dialing, Nothing
<1>14. CASE StartFires \/ SenderSends
  <2>1. /\ UNCHANGED <<services, stop>> /\ ("start" \in timers \/ sender)
    BY <1>14 DEF StartFires, SenderSends, Fires, core, ending
  <2> QED BY <2>1 DEF StartInv, HasStart
<1>15. CASE \/ CheckFires \/ RetryFires \/ DeferredFires \/ AgainFires \/ WindowCloses \/ HandlerSends
            \/ ResetIndicated \/ HandlerEnds \/ StatusIndicated \/ ModemResets \/ CallDrops
            \/ RequestCoreRecovery
  <2>1. UNCHANGED <<services, stop, sender, pc, seen>>
    BY <1>15 DEF CheckFires, RetryFires, DeferredFires, AgainFires, WindowCloses, HandlerSends,
       ResetIndicated, HandlerEnds, StatusIndicated, ModemResets, CallDrops, RequestCoreRecovery,
       core, ending
  <2>2. /\ timers' \subseteq timers \cup {"deferred", "again"}
        /\ \/ queue' = queue
           \/ \E e \in {"check", "reset", "packet"} : queue' = Append(queue, e)
    BY <1>15 DEF CheckFires, RetryFires, DeferredFires, AgainFires, WindowCloses, HandlerSends,
       ResetIndicated, HandlerEnds, StatusIndicated, ModemResets, CallDrops, RequestCoreRecovery,
       EnqueueModemReset
  <2>3. Queued("start")' => Queued("start")
    BY <2>2, QueuedMoves DEF Queued, Events
  <2> QED BY <1>0, <2>1, <2>2, <2>3 DEF StartInv, Loop, User
<1>16. CASE UNCHANGED vars
  <2>1. UNCHANGED <<services, stop, sender, pc, seen, timers, queue>>
    BY <1>16 DEF vars, core, ending
  <2> QED BY <1>0, <2>1 DEF StartInv, Loop, User, Queued
<1> QED BY <1>1, <1>2, <1>3, <1>4, <1>5, <1>6, <1>7, <1>8, <1>9, <1>10, <1>11, <1>12, <1>13, <1>14,
           <1>15, <1>16 DEF Next, Looping, Starting, Outside, Firing

-----------------------------------------------------------------------------
(* The theorems *)

LEMMA ManagerInit == Init => ManagerInv
<1> SUFFICES ASSUME Init PROVE ManagerInv
  OBVIOUS
<1>1. TypeOK /\ Loop = "ended" /\ User = "idle" /\ ~Queued("start") /\ ~Queued("stop")
  BY TypesInit DEF Init, Loop, User, Processes, Queued
<1> QED BY <1>1 DEF Init, ManagerInv, NextInv, RetryInv, RetryOnlyWhileDown, CoreInv, StopInv,
                    CallInv, StartInv, HasStart, Nothing, Dialing

LEMMA ManagerStep == ManagerInv /\ [Next]_vars => ManagerInv'
<1> SUFFICES ASSUME ManagerInv, [Next]_vars PROVE ManagerInv'
  OBVIOUS
<1>1. marks \subseteq marks'
  BY MarksGrow DEF ManagerInv
<1>2. TypeOK' /\ NextInv' /\ RetryInv'
  BY TypesStep, NextStep, RetryStep DEF ManagerInv
<1>3. "overlapped" \notin marks' => CoreInv' /\ StopInv' /\ CallInv'
  BY <1>1, CoreStep, StopStep, CallStep DEF ManagerInv
<1>4. marks' \cap {"overlapped", "lateStart"} = {} => StartInv'
  BY <1>1, StartStep DEF ManagerInv
<1> QED BY <1>2, <1>3, <1>4 DEF ManagerInv

LEMMA ManagerInvariant == Spec => []ManagerInv
BY ManagerInit, ManagerStep, PTL DEF Spec

(* When the loop and the caller rest the modem has no call but the one     *)
(* whose handle is stored, and none after a Disconnect (manager.go:680).   *)
THEOREM CallsAreKnownHolds == Spec => []CallsAreKnown
<1>1. ManagerInv => CallsAreKnown
  BY DEF ManagerInv, CallInv, CallsAreKnown, AtRest, Loop, User
<1> QED BY <1>1, ManagerInvariant, PTL

(* What a stopped manager had under way brings nothing back to life        *)
(* (manager.go:595).                                                       *)
THEOREM StoppedStaysDownHolds == Spec => []StoppedStaysDown
<1>1. ManagerInv => StoppedStaysDown
  BY DEF ManagerInv, StopInv, StoppedStaysDown
<1> QED BY <1>1, ManagerInvariant, PTL

(* Unless one of the two named races has happened, no dial works on a nil  *)
(* client or WDS service (manager.go:1208, :3439).                         *)
THEOREM DialsHaveServicesHolds == Spec => []DialsHaveServices
<1>1. ASSUME ManagerInv, marks \cap {"overlapped", "lateStart"} = {} PROVE ~NilService
  <2>1. services \in {"closed", "control", "data"} /\ CoreInv /\ StopInv /\ CallInv /\ StartInv
    BY <1>1, TypesAre DEF ManagerInv, EnumOK
  <2>2. \A p \in Processes : pc[p] \in {Loop, User}
    BY DEF Processes, Loop, User
  <2>3. CASE services = "closed"
    <3>1. Loop \notin Dialing /\ User \notin Dialing
      BY <2>1, <2>3 DEF StartInv, StopInv, CoreInv, Dialing
    <3> QED BY <2>2, <2>3, <3>1 DEF NilService, Dialing
  <2>4. CASE services = "control"
    <3>1. Loop # "call" /\ User # "call"
      BY <2>1, <2>4 DEF CallInv
    <3> QED BY <2>2, <2>4, <3>1 DEF NilService
  <2>5. CASE services = "data"
    BY <2>5 DEF NilService
  <2> QED BY <2>1, <2>3, <2>4, <2>5
<1>2. ManagerInv => DialsHaveServices
  BY <1>1 DEF DialsHaveServices
<1> QED BY <1>2, ManagerInvariant, PTL

(* A retry never outlives the recovery that scheduled it (manager.go:3282). *)
THEOREM RetryOnlyWhileDownHolds == Spec => []RetryOnlyWhileDown
<1>1. ManagerInv => RetryOnlyWhileDown
  BY DEF ManagerInv, RetryInv
<1> QED BY <1>1, ManagerInvariant, PTL

-----------------------------------------------------------------------------
(* A core that is down is not forgotten                                    *)

(* A recovery of a core that is down runs, is queued, or a timer will ask  *)
(* for it.                                                                 *)
Planned ==
  \/ Recovering
  \/ timers \cap {"retry", "deferred", "again"} # {}
  \/ Queued("reset")

(* A core that is down is never left without a plan to bring it back,      *)
(* unless the recovery has been given up or a reset event was dropped: the *)
(* state in which the manager waits for nobody is not reached.             *)
DownIsPlanned ==
  ctx = "live" /\ ~coreReady => Planned \/ exhausted \/ "swallowed" \in marks

(* While the context lives, Stop has not begun and its goroutines run.     *)
LiveInv == ctx = "live" => state # "stopping" /\ inds # "ended"

LEMMA LiveStep == TypeOK /\ NextInv /\ LiveInv /\ [Next]_vars => LiveInv'
<1> SUFFICES ASSUME TypeOK, NextInv, LiveInv, [Next]_vars PROVE LiveInv'
  OBVIOUS
<1>1. ASSUME ctx' = ctx, state' = state \/ state' # "stopping", inds' = inds \/ inds' # "ended"
      PROVE  LiveInv'
  BY <1>1 DEF LiveInv
<1>2. ASSUME ctx' # "live"
      PROVE  LiveInv'
  BY <1>2 DEF LiveInv
<1>3. CASE \E p \in Processes : Dialling(p)
  <2>1. UNCHANGED <<ctx, inds>> /\ (state' = state \/ state' # "stopping")
    BY <1>3 DEF Dialling, ServicesEnsured, CallStarts, Configured, DialFails, HangUp, Settle, ending
  <2> QED BY <1>1, <2>1
<1>4. CASE UserDials \/ CoreFails \/ CoreOpens
  <2>1. UNCHANGED <<ctx, inds>> /\ (state' = state \/ state' # "stopping")
    BY <1>4 DEF UserDials, DialBegins, CoreFails, CoreOpens, ending
  <2> QED BY <1>1, <2>1
<1>5. CASE CoreStarts
  BY <1>5 DEF CoreStarts, LiveInv
<1>6. CASE TakeEvent \/ CheckReturns
  <2>1. UNCHANGED <<ctx, inds>> /\ (state' = state \/ state' # "stopping")
    BY <1>6 DEF TakeEvent, DialBegins, CheckReturns, ending
  <2> QED BY <1>1, <2>1
<1>7. CASE LoopSends \/ LoopEnds \/ RecoveryTearsDown \/ RecoveryOpens \/ QuietPasses
  <2>1. UNCHANGED <<ctx, inds, state>>
    BY <1>7 DEF LoopSends, LoopEnds, RecoveryTearsDown, RecoveryOpens, QuietPasses, core, ending
  <2> QED BY <1>1, <2>1
<1>8. CASE RecoveryFails \/ QuietBroken \/ RecoveryConverges
  <2>1. UNCHANGED <<ctx, inds>> /\ (state' = state \/ state' # "stopping")
    BY <1>8 DEF RecoveryFails, QuietBroken, RecoveryConverges, core, ending
  <2> QED BY <1>1, <2>1
<1>9. CASE Firing \/ SenderSends \/ WindowCloses \/ HandlerSends \/ ResetIndicated
  <2>1. UNCHANGED <<ctx, state>> /\ (inds' = inds \/ inds' # "ended")
    BY <1>9 DEF Firing, StartFires, CheckFires, RetryFires, DeferredFires, AgainFires,
       SenderSends, WindowCloses, HandlerSends, ResetIndicated, core, ending
  <2> QED BY <1>1, <2>1
<1>10. CASE HandlerEnds
  BY <1>2, <1>10 DEF HandlerEnds, ending
<1>11. CASE StopReturns
  BY <1>1, <1>11 DEF StopReturns
<1>12. CASE StopBegins
  BY <1>2, <1>12 DEF StopBegins
<1>13. CASE \/ StartCore \/ Connect \/ Disconnect \/ CheckDue \/ StatusIndicated \/ ModemResets
            \/ CallDrops \/ RequestCoreRecovery \/ UNCHANGED vars
  <2>1. ctx' = ctx /\ (state' = state \/ state' # "stopping") /\ (inds' = inds \/ inds' # "ended")
    BY <1>13 DEF StartCore, Connect, Disconnect, CheckDue, StatusIndicated, ModemResets,
       CallDrops, RequestCoreRecovery, vars, core, ending
  <2> QED BY <1>1, <2>1
<1> QED BY <1>3, <1>4, <1>5, <1>6, <1>7, <1>8, <1>9, <1>10, <1>11, <1>12, <1>13
        DEF Next, Looping, Starting, Outside

(* A reset event that is asked for while the core is down is joined to the *)
(* recovery that runs, queued, left to a timer, or marked as dropped.      *)
LEMMA EnqueuePlans ==
  ASSUME TypeOK, NEW running, NEW waiting, NEW left, EnqueueModemReset(running, waiting, left)
  PROVE  /\ left \subseteq timers'
         /\ ~running /\ ~coreReady =>
              \/ timers' \cap {"retry", "deferred", "again"} # {}
              \/ Queued("reset")' \/ "swallowed" \in marks'
<1>1. queue' = Append(queue, "reset") => Queued("reset")'
  BY TypesAre DEF QueueOK, Queued, Events
<1>2. left \subseteq timers'
  BY DEF EnqueueModemReset
<1>3. ASSUME ~running, ~coreReady
      PROVE  \/ timers' \cap {"retry", "deferred", "again"} # {}
             \/ queue' = Append(queue, "reset") \/ "swallowed" \in marks'
  BY <1>3 DEF EnqueueModemReset
<1> QED BY <1>1, <1>2, <1>3

LEMMA PlannedStep ==
  TypeOK /\ NextInv /\ LiveInv /\ DownIsPlanned /\ [Next]_vars => DownIsPlanned'
<1> SUFFICES ASSUME TypeOK, NextInv, LiveInv, DownIsPlanned, [Next]_vars PROVE DownIsPlanned'
  OBVIOUS
<1> DEFINE Asks(t) == t \cap {"retry", "deferred", "again"} # {}
<1>0. marks \subseteq marks' /\ queue \in Seq(Events)
  BY MarksGrow, TypesAre DEF QueueOK
<1>1. ASSUME ctx' = ctx, coreReady' = coreReady, exhausted' = exhausted,
             Recovering => Recovering', Asks(timers) => Asks(timers'),
             Queued("reset") => Queued("reset")'
      PROVE  DownIsPlanned'
  BY <1>0, <1>1 DEF DownIsPlanned, Planned
<1>2. /\ queue' = queue => (Queued("reset") => Queued("reset")')
      /\ \A e \in Events : queue' = Append(queue, e) => (Queued("reset") => Queued("reset")')
      /\ queue' = Append(queue, "reset") => Queued("reset")'
      /\ (queue # <<>> /\ Head(queue) # "reset" /\ queue' = Tail(queue)) =>
           (Queued("reset") => Queued("reset")')
  <2>1. queue' = queue => (Queued("reset") => Queued("reset")')
    BY DEF Queued
  <2>2. ASSUME NEW e \in Events, queue' = Append(queue, e)
        PROVE  /\ Queued("reset") => Queued("reset")'
               /\ e = "reset" => Queued("reset")'
    BY <1>0, <2>2 DEF Queued
  <2>3. ASSUME queue # <<>>, Head(queue) # "reset", queue' = Tail(queue), Queued("reset")
        PROVE  Queued("reset")'
    <3>1. PICK i \in 1 .. Len(queue) : queue[i] = "reset"
      BY <1>0, <2>3 DEF Queued
    <3>2. i # 1 /\ i - 1 \in 1 .. Len(queue) - 1
      BY <1>0, <2>3, <3>1
    <3>3. queue'[i - 1] = queue[i] /\ i - 1 \in DOMAIN queue'
      BY <1>0, <2>3, <3>2
    <3> QED BY <3>1, <3>3 DEF Queued
  <2> QED BY <2>1, <2>2, <2>3 DEF Events
<1>3. ASSUME UNCHANGED <<pc, seen>>
      PROVE  Recovering' <=> Recovering
  BY <1>3 DEF Recovering
<1>4. ASSUME NEW l, Goes("user", l), seen' = seen
      PROVE  Recovering' <=> Recovering
  BY <1>4, UserGoes DEF Recovering, Loop
<1>5. Recovering =>
        Loop \in Recovery \/ (Loop \in {"hangup", "settle"} /\ seen.next = "teardown")
  BY DEF NextInv, Recovering, Loop
<1>6. ASSUME NEW l \in Recovery, Goes("loop", l)
      PROVE  Recovering'
  BY <1>6, LoopGoes DEF Recovering, Loop
<1>7. ASSUME NEW p \in Processes, Dialling(p) PROVE DownIsPlanned'
  <2>1. /\ UNCHANGED <<ctx, coreReady, exhausted, queue>>
        /\ timers \subseteq timers'
    BY <1>7 DEF Dialling, ServicesEnsured, CallStarts, Configured, DialFails, HangUp, Settle, ending
  <2>2. Recovering => Recovering'
    <3>1. CASE p = "user"
      <4>1. seen' = seen /\ \E l : Goes("user", l)
        BY <1>7, <3>1 DEF Dialling, ServicesEnsured, CallStarts, Configured, DialFails, HangUp, Settle
      <4> QED BY <1>4, <4>1
    <3>2. CASE p = "loop" /\ (ServicesEnsured(p) \/ CallStarts(p) \/ Configured(p) \/ DialFails(p))
      <4>1. Loop \in Dialing
        BY <3>2 DEF ServicesEnsured, CallStarts, Configured, DialFails, Loop, Dialing
      <4> QED BY <1>5, <4>1 DEF Dialing, Recovery
    <3>3. CASE p = "loop" /\ HangUp(p)
      <4>1. Loop = "hangup" /\ seen' = seen
        BY <3>3 DEF HangUp, Loop
      <4> QED BY <1>5, <4>1 DEF Recovering, Recovery
    <3>4. CASE p = "loop" /\ Settle(p)
      <4>1. Loop = "settle" /\ Goes("loop", seen.next)
        BY <3>4 DEF Settle, Loop
      <4> QED BY <1>5, <1>6, <4>1 DEF Recovery
    <3> QED BY <1>7, <3>1, <3>2, <3>3, <3>4 DEF Processes, Dialling
  <2> QED BY <1>1, <1>2, <2>1, <2>2
<1>8. CASE UserDials \/ CoreOpens \/ StartCore \/ Connect \/ Disconnect
  <2>1. UNCHANGED <<ctx, coreReady, exhausted, queue, timers, seen>>
    BY <1>8 DEF UserDials, CoreOpens, StartCore, Connect, Disconnect, ending
  <2>2. UNCHANGED pc \/ \E l : Goes("user", l)
    BY <1>8 DEF UserDials, DialBegins, CoreOpens, StartCore, Connect, Disconnect
  <2> QED BY <1>1, <1>2, <1>3, <1>4, <2>1, <2>2
<1>9. CASE CoreFails
  BY <1>9 DEF CoreFails, NextInv, User, ending, DownIsPlanned
<1>10. CASE CoreStarts
  BY <1>10 DEF CoreStarts, DownIsPlanned
<1>11. CASE TakeEvent
  <2>1. ~Recovering
    BY <1>5, <1>11 DEF TakeEvent, Recovery, Loop
  <2>2. /\ UNCHANGED <<ctx, coreReady, exhausted>> /\ timers \subseteq timers'
        /\ queue # <<>> /\ queue' = Tail(queue)
    BY <1>11 DEF TakeEvent, ending
  <2>3. CASE Head(queue) # "reset"
    BY <1>1, <1>2, <2>1, <2>2, <2>3
  <2>4. CASE Head(queue) = "reset" /\ state # "stopping"
    <3>1. seen' = [Nothing EXCEPT !.desired = desired, !.next = "teardown"]
      BY <1>11, <2>4 DEF TakeEvent
    <3>2. Recovering'
      BY <3>1 DEF Recovering, Nothing
    <3> QED BY <3>2 DEF DownIsPlanned, Planned
  <2>5. CASE state = "stopping"
    BY <2>2, <2>5 DEF LiveInv, DownIsPlanned
  <2> QED BY <2>3, <2>4, <2>5
<1>12. CASE CheckReturns \/ LoopSends \/ LoopEnds \/ CheckDue
  <2>1. Loop \in {"query", "sendCheck", "sendStart", "idle"}
    BY <1>12 DEF CheckReturns, LoopSends, LoopEnds, CheckDue, Loop
  <2>2. ~Recovering
    BY <1>5, <2>1 DEF Recovery
  <2>3. /\ UNCHANGED <<ctx, coreReady, exhausted, timers>>
        /\ queue' = queue \/ \E e \in Events : queue' = Append(queue, e)
    BY <1>12 DEF CheckReturns, LoopSends, LoopEnds, CheckDue, core, ending, Events
  <2> QED BY <1>1, <1>2, <2>2, <2>3
<1>13. CASE RecoveryTearsDown \/ RecoveryOpens \/ QuietPasses
  <2>1. \E l \in Recovery : Goes("loop", l)
    BY <1>13 DEF RecoveryTearsDown, RecoveryOpens, QuietPasses, Recovery
  <2>2. Recovering'
    BY <1>6, <2>1
  <2> QED BY <2>2 DEF DownIsPlanned, Planned
<1>14. ASSUME NEW left, RecoveryEnds(left)
       PROVE  left \subseteq timers'
  BY <1>14, EnqueuePlans DEF RecoveryEnds
<1>15. CASE RecoveryFails
  <2>1. RecoveryEnds(timers \cup {"retry"}) \/ exhausted'
    BY <1>15 DEF RecoveryFails, RetryOrGiveUp
  <2>2. CASE exhausted'
    BY <2>2 DEF DownIsPlanned
  <2>3. CASE RecoveryEnds(timers \cup {"retry"})
    BY <1>14, <2>3 DEF DownIsPlanned, Planned
  <2> QED BY <2>1, <2>2, <2>3
<1>16. CASE QuietBroken
  <2>1. EnqueueModemReset(FALSE, FALSE, timers) /\ coreReady' = coreReady
    BY <1>16 DEF QuietBroken, RecoveryEnds, core
  <2> QED BY <2>1, EnqueuePlans DEF DownIsPlanned, Planned
<1>17. CASE RecoveryConverges
  BY <1>17 DEF RecoveryConverges, DownIsPlanned
<1>18. CASE StartFires \/ CheckFires \/ SenderSends \/ HandlerSends \/ StatusIndicated
  <2>1. /\ UNCHANGED <<ctx, coreReady, exhausted, pc, seen>>
        /\ timers \ {"start", "check"} \subseteq timers'
        /\ queue' = queue \/ \E e \in Events : queue' = Append(queue, e)
    BY <1>18 DEF StartFires, CheckFires, SenderSends, HandlerSends, StatusIndicated, core, ending,
                 Events
  <2> QED BY <1>1, <1>2, <1>3, <2>1
<1>19. CASE RetryFires \/ ResetIndicated \/ RequestCoreRecovery
  <2>1. /\ UNCHANGED <<coreReady, pc, seen>>
        /\ \E waiting, left : EnqueueModemReset(Recovering, waiting, left)
    BY <1>19 DEF RetryFires, ResetIndicated, RequestCoreRecovery, core
  <2>2. CASE Recovering
    BY <1>3, <2>1, <2>2 DEF DownIsPlanned, Planned
  <2>3. CASE ~Recovering
    BY <2>1, <2>3, EnqueuePlans DEF DownIsPlanned, Planned
  <2> QED BY <2>2, <2>3
<1>20. CASE DeferredFires \/ AgainFires
  <2>1. /\ UNCHANGED <<pc, seen>>
        /\ \/ Recovering
           \/ timers' \cap {"deferred", "again"} # {}
           \/ queue' = Append(queue, "reset")
    BY <1>20 DEF DeferredFires, AgainFires
  <2>2. Planned'
    BY <1>2, <1>3, <2>1 DEF Planned
  <2> QED BY <2>2 DEF DownIsPlanned
<1>21. CASE WindowCloses \/ HandlerEnds \/ ModemResets \/ CallDrops \/ UNCHANGED vars
  <2>1. UNCHANGED <<ctx, coreReady, exhausted, pc, seen, timers, queue>>
    BY <1>21 DEF WindowCloses, HandlerEnds, ModemResets, CallDrops, vars, core, ending
  <2> QED BY <1>1, <1>2, <1>3, <2>1
<1>22. CASE StopBegins
  BY <1>22 DEF StopBegins, DownIsPlanned
<1>23. CASE StopReturns
  BY <1>23 DEF StopReturns, LiveInv, DownIsPlanned
<1> HIDE DEF Asks
<1> QED
  BY <1>7, <1>8, <1>9, <1>10, <1>11, <1>12, <1>13, <1>15, <1>16, <1>17, <1>18, <1>19, <1>20,
     <1>21, <1>22, <1>23 DEF Next, Looping, Starting, Firing, Outside

(* A core that is down has a recovery under way, queued or planned, until  *)
(* it is given up or a reset event is dropped (manager.go:1830, :3282).    *)
THEOREM DownIsPlannedHolds == Spec => []DownIsPlanned
<1>1. Init => LiveInv /\ DownIsPlanned
  BY DEF Init, LiveInv, DownIsPlanned
<1>2. ManagerInv => TypeOK /\ NextInv
  BY DEF ManagerInv
<1> QED BY <1>1, <1>2, ManagerInvariant, LiveStep, PlannedStep, PTL DEF Spec
=============================================================================
