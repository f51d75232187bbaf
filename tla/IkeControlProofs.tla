-------------------------- MODULE IkeControlProofs --------------------------
(***************************************************************************)
(* What holds of the IKE request window for any messages, IDs, sizes and   *)
(* retry limits, whoever calls it in whatever order; and that the control  *)
(* plane uses it as IkeWindow has it, so that it holds of every session,   *)
(* with any tasks, message IDs and limits.  Then, what the sessions make   *)
(* of the answers: whose answer a caller gets, what keys are made of, and  *)
(* which SA the peer keeps.                                                *)
(***************************************************************************)
EXTENDS IkeControl, SequenceTheorems, FiniteSetTheorems, TLAPS

-----------------------------------------------------------------------------
(* The request window                                                      *)

Members(q) == {q[i] : i \in 1 .. Len(q)}
Distinct(q) == \A i, j \in 1 .. Len(q) : q[i] = q[j] => i = j

(* Appending to a queue without repetitions, and serving it.               *)
LEMMA AppendMembers ==
  ASSUME NEW S, NEW q \in Seq(S), NEW x \in S
  PROVE  /\ Append(q, x) \in Seq(S)
         /\ Members(Append(q, x)) = Members(q) \cup {x}
         /\ Distinct(q) /\ x \notin Members(q) => Distinct(Append(q, x))
<1>1. /\ Append(q, x) \in Seq(S) /\ Len(Append(q, x)) = Len(q) + 1 /\ Len(q) \in Nat
      /\ \A i \in 1 .. Len(q) : Append(q, x)[i] = q[i]
      /\ Append(q, x)[Len(q) + 1] = x
  BY AppendProperties, LenProperties
<1> DEFINE a == Append(q, x)
<1> HIDE DEF a
<1>2. Members(a) = Members(q) \cup {x}
  <2>1. 1 .. Len(a) = 1 .. Len(q) \cup {Len(q) + 1}
    BY <1>1 DEF a
  <2> QED BY <1>1, <2>1 DEF Members, a
<1>3. Distinct(q) /\ x \notin Members(q) => Distinct(a)
  <2> SUFFICES ASSUME Distinct(q), x \notin Members(q),
                      NEW i \in 1 .. Len(a), NEW j \in 1 .. Len(a), a[i] = a[j]
               PROVE  i = j
    BY DEF Distinct
  <2>1. i \in 1 .. Len(q) \/ i = Len(q) + 1
    BY <1>1 DEF a
  <2>2. j \in 1 .. Len(q) \/ j = Len(q) + 1
    BY <1>1 DEF a
  <2> QED BY <1>1, <2>1, <2>2 DEF Distinct, Members, a
<1> QED BY <1>1, <1>2, <1>3 DEF a

LEMMA TailMembers ==
  ASSUME NEW S, NEW q \in Seq(S), q # <<>>
  PROVE  /\ Head(q) \in S /\ Head(q) \in Members(q)
         /\ Tail(q) \in Seq(S)
         /\ Distinct(q) => Distinct(Tail(q)) /\ Members(Tail(q)) = Members(q) \ {Head(q)}
<1>1. /\ Len(q) \in Nat /\ Len(q) >= 1
      /\ Head(q) = q[1] /\ Head(q) \in S
      /\ Tail(q) \in Seq(S) /\ Len(Tail(q)) = Len(q) - 1
      /\ \A i \in 1 .. Len(q) - 1 : Tail(q)[i] = q[i + 1]
  BY HeadTailProperties, EmptySeq, LenProperties
<1>2. Head(q) \in Members(q)
  BY <1>1 DEF Members
<1> DEFINE t == Tail(q)
<1> HIDE DEF t
<1>3. ASSUME Distinct(q)
      PROVE  Distinct(t)
  BY <1>1, <1>3 DEF Distinct, t
<1>4. ASSUME Distinct(q)
      PROVE  Members(t) = Members(q) \ {Head(q)}
  <2>1. ASSUME NEW x \in Members(t)
        PROVE  x \in Members(q) \ {Head(q)}
    <3>1. PICK i \in 1 .. Len(q) - 1 : x = q[i + 1]
      BY <1>1, <2>1 DEF Members, t
    <3>2. i + 1 \in 1 .. Len(q) /\ i + 1 # 1
      BY <1>1
    <3> QED BY <1>1, <1>4, <3>1, <3>2 DEF Members, Distinct
  <2>2. ASSUME NEW x \in Members(q) \ {Head(q)}
        PROVE  x \in Members(t)
    <3>1. PICK i \in 1 .. Len(q) : x = q[i] /\ i # 1
      BY <1>1 DEF Members
    <3>2. i - 1 \in 1 .. Len(q) - 1 /\ (i - 1) + 1 = i
      BY <1>1, <3>1
    <3>3. t[i - 1] = x
      BY <1>1, <3>1, <3>2 DEF t
    <3> QED BY <1>1, <3>2, <3>3 DEF Members, t
  <2> QED BY <2>1, <2>2
<1> QED BY <1>1, <1>2, <1>3, <1>4 DEF t

LEMMA QueuedMembers == Queued = Members(queue) /\ Queued' = Members(queue')
BY DEF Queued, Members

-----------------------------------------------------------------------------
(* The types, the bound of the window, and that the queue is not stranded. *)
TypesInv == WindowTypes /\ IsFiniteSet(pending) /\ QueueMoves

LEMMA ActivateTypes ==
  ASSUME TypesInv, NEW rest, IsFiniteSet(rest), Cardinality(rest) < windowSize,
         NEW M, rest \subseteq M, sent \subseteq M, NEW r \in M, NEW id, Activate(r, id, rest)
  PROVE  /\ pending' \subseteq M /\ sent' \subseteq M
         /\ IsFiniteSet(pending') /\ Cardinality(pending') <= windowSize /\ pending' # {}
<1> DEFINE kept == {s \in rest : msgID[s] # id}
<1>1. /\ IsFiniteSet(kept) /\ Cardinality(kept) \in Nat
      /\ Cardinality(kept) <= Cardinality(rest) /\ Cardinality(rest) \in Nat
  BY FS_Subset, FS_CardinalityType
<1>2. pending' = kept \cup {r} /\ sent' = sent \cup {r} /\ kept \subseteq M
  BY DEF Activate
<1> HIDE DEF kept
<1>3. windowSize \in Nat
  BY WindowAssumption DEF TypesInv, WindowTypes
<1>4. IsFiniteSet(kept \cup {r}) /\ Cardinality(kept \cup {r}) <= windowSize
  <2>1. /\ IsFiniteSet(kept \cup {r})
        /\ Cardinality(kept \cup {r}) = IF r \in kept THEN Cardinality(kept)
                                       ELSE Cardinality(kept) + 1
    BY <1>1, FS_AddElement, Zenon
  <2> QED BY <1>1, <1>3, <2>1
<1> QED BY <1>2, <1>4

LEMMA PumpTypes ==
  ASSUME TypesInv, NEW rest \in SUBSET pending, PumpQueue(rest)
  PROVE  /\ pending' \subseteq made /\ sent' \subseteq made /\ queue' \in Seq(made)
         /\ IsFiniteSet(pending') /\ Cardinality(pending') <= windowSize
         /\ QueueMoves'
<1>1. /\ IsFiniteSet(rest) /\ Cardinality(rest) \in Nat
      /\ Cardinality(rest) <= Cardinality(pending) /\ Cardinality(pending) \in Nat
  BY FS_Subset, FS_CardinalityType DEF TypesInv
<1>2. /\ pending \subseteq made /\ sent \subseteq made /\ queue \in Seq(made)
      /\ Cardinality(pending) <= windowSize /\ windowSize \in Nat /\ windowSize >= 1
  BY WindowAssumption DEF TypesInv, WindowTypes
<1>3. CASE queue # <<>> /\ Cardinality(rest) < windowSize
  <2>1. Head(queue) \in made /\ Tail(queue) \in Seq(made)
    BY <1>2, <1>3, TailMembers
  <2>2. Activate(Head(queue), msgID[Head(queue)], rest) /\ queue' = Tail(queue)
    BY <1>3 DEF PumpQueue
  <2>3. rest \subseteq made
    BY <1>2
  <2>4. /\ pending' \subseteq made /\ sent' \subseteq made
        /\ IsFiniteSet(pending') /\ Cardinality(pending') <= windowSize /\ pending' # {}
    BY <1>1, <1>2, <1>3, <2>1, <2>2, <2>3, ActivateTypes
  <2> QED BY <2>1, <2>2, <2>4 DEF QueueMoves
<1>4. CASE ~ (queue # <<>> /\ Cardinality(rest) < windowSize)
  <2>1. pending' = rest /\ queue' = queue /\ sent' = sent
    BY <1>4 DEF PumpQueue
  <2>2. queue # <<>> => rest # {}
    BY <1>1, <1>2, <1>4, FS_EmptySet
  <2> QED BY <1>1, <1>2, <2>1, <2>2 DEF QueueMoves
<1> QED BY <1>3, <1>4

LEMMA TypesStep == TypesInv /\ [WindowNext]_window => TypesInv'
<1> SUFFICES ASSUME TypesInv, [WindowNext]_window PROVE TypesInv'
  OBVIOUS
<1>0. /\ pending \subseteq made /\ made \subseteq Requests /\ queue \in Seq(made)
      /\ sent \subseteq made /\ closed \subseteq made
      /\ windowSize \in Nat /\ windowSize >= 1
  BY WindowAssumption DEF TypesInv, WindowTypes
<1>1. ASSUME NEW r \in Requests, NEW id \in MsgIDs, EnqueueRequest(r, id)
      PROVE  TypesInv'
  <2>1. made \subseteq made' /\ r \in made' /\ made' \subseteq Requests
    BY <1>0, <1>1 DEF EnqueueRequest
  <2>2. queue \in Seq(made')
    BY <1>0, <2>1, SeqMonotonic
  <2>3. CASE Cardinality(pending) < windowSize
    <3>1. Activate(r, id, pending) /\ queue' = queue
      BY <1>1, <2>3 DEF EnqueueRequest
    <3>2. /\ pending' \subseteq made' /\ sent' \subseteq made'
          /\ IsFiniteSet(pending') /\ Cardinality(pending') <= windowSize /\ pending' # {}
      BY <1>0, <2>1, <2>3, <3>1, ActivateTypes DEF TypesInv
    <3> QED BY <1>0, <1>1, <2>1, <2>2, <3>1, <3>2
            DEF EnqueueRequest, TypesInv, WindowTypes, QueueMoves
  <2>4. CASE ~ (Cardinality(pending) < windowSize)
    <3>1. queue' = Append(queue, r) /\ pending' = pending /\ sent' = sent
      BY <1>1, <2>4 DEF EnqueueRequest
    <3>2. queue' \in Seq(made')
      BY <2>1, <2>2, <3>1, AppendMembers
    <3>3. pending # {}
      <4>1. pending = {} => Cardinality(pending) = 0
        BY FS_EmptySet, Zenon
      <4>2. Cardinality(pending) # 0
        BY <1>0, <2>4
      <4> QED BY <4>1, <4>2
    <3> QED BY <1>0, <1>1, <2>1, <3>1, <3>2, <3>3
            DEF EnqueueRequest, TypesInv, WindowTypes, QueueMoves
  <2> QED BY <2>3, <2>4
<1>2. ASSUME NEW id \in MsgIDs, NEW data \in Requests, HandleResponse(id, data)
      PROVE  TypesInv'
  <2>1. CASE UNCHANGED window
    BY <2>1 DEF window, TypesInv, WindowTypes, QueueMoves
  <2>2. ASSUME NEW r \in Under(id),
               delivered' = [delivered EXCEPT ![r] = Append(@, data)],
               PumpQueue(pending \ {r}),
               UNCHANGED <<windowSize, msgID, retries, made, closed, loop>>
        PROVE  TypesInv'
    <3>1. r \in Requests
      BY <1>0 DEF Under
    <3>2. delivered' \in [Requests -> Seq(Requests)]
      BY <2>2, <3>1, AppendProperties DEF TypesInv, WindowTypes
    <3> QED BY <1>0, <2>2, <3>2, PumpTypes DEF TypesInv, WindowTypes
  <2> QED BY <1>2, <2>1, <2>2 DEF HandleResponse
<1>3. ASSUME NEW late \in SUBSET pending, CheckTimeouts(late)
      PROVE  TypesInv'
  <2> DEFINE dead == {r \in late : retries[r] >= MaxRetries}
  <2>1. /\ retries' \in [Requests -> 0 .. MaxRetries]
        /\ closed' \subseteq made
    <3>1. \A r \in Requests : retries[r] \in 0 .. MaxRetries
      BY DEF TypesInv, WindowTypes
    <3>2. retries' = [r \in Requests |-> IF r \in late \ dead THEN retries[r] + 1 ELSE retries[r]]
      BY <1>3 DEF CheckTimeouts
    <3>3. closed' = closed \cup dead
      BY <1>3 DEF CheckTimeouts
    <3>4. \A r \in late \ dead : ~ (retries[r] >= MaxRetries)
      OBVIOUS
    <3> QED BY <1>0, <3>1, <3>2, <3>3, <3>4, WindowAssumption
  <2>2. /\ PumpQueue(pending \ dead) \/ UNCHANGED <<pending, queue, sent>>
        /\ UNCHANGED <<windowSize, msgID, made, delivered, loop>>
    BY <1>3 DEF CheckTimeouts
  <2> HIDE DEF dead
  <2>3. CASE PumpQueue(pending \ dead)
    BY <2>1, <2>2, <2>3, PumpTypes DEF TypesInv, WindowTypes
  <2>4. CASE UNCHANGED <<pending, queue, sent>>
    BY <2>1, <2>2, <2>4 DEF TypesInv, WindowTypes, QueueMoves
  <2> QED BY <2>2, <2>3, <2>4
<1>4. CASE Cancel
  BY <1>4 DEF Cancel, TypesInv, WindowTypes, QueueMoves
<1>5. CASE EndLoop
  <2>1. closed' \subseteq made
    <3>1. Members(queue) \subseteq made
      BY <1>0, LenProperties, ElementOfSeq DEF Members
    <3> QED BY <1>0, <1>5, <3>1, QueuedMembers DEF EndLoop
  <2>2. pending' = {} /\ queue' = <<>> /\ queue' \in Seq(made) /\ Cardinality(pending') = 0
    BY <1>5, FS_EmptySet, EmptySeq DEF EndLoop
  <2> QED BY <1>0, <1>5, <2>1, <2>2, FS_EmptySet DEF EndLoop, TypesInv, WindowTypes, QueueMoves
<1>6. CASE UNCHANGED window
  BY <1>6 DEF window, TypesInv, WindowTypes, QueueMoves
<1> QED BY <1>1, <1>2, <1>3, <1>4, <1>5, <1>6 DEF WindowNext

LEMMA TypesInit == WindowInit => TypesInv
<1> SUFFICES ASSUME WindowInit PROVE TypesInv
  OBVIOUS
<1>1. queue \in Seq(made) /\ delivered \in [Requests -> Seq(Requests)]
  BY EmptySeq DEF WindowInit
<1>2. IsFiniteSet(pending) /\ Cardinality(pending) <= windowSize
  BY FS_EmptySet, WindowAssumption DEF WindowInit
<1> QED BY <1>1, <1>2, WindowAssumption DEF WindowInit, TypesInv, WindowTypes, QueueMoves, MsgIDs

(* The window keeps its types and its bound.                               *)
THEOREM WindowTypesHold == WindowSpec => []WindowTypes
BY TypesInit, TypesStep, PTL DEF WindowSpec, TypesInv

(* Queued messages are never stranded: see QueueMoves.                     *)
THEOREM QueueMovesHolds == WindowSpec => []QueueMoves
BY TypesInit, TypesStep, PTL DEF WindowSpec, TypesInv

-----------------------------------------------------------------------------
(* Where each message is, and that it comes to one end.                    *)
SlotsInv ==
  /\ OneSlotEach /\ OneCompletion
  /\ \A r \in Requests \ made : delivered[r] = <<>>

(* What OneSlotEach says, without indices.                                 *)
Placed ==
  /\ Distinct(queue)
  /\ \A r \in made :
       \/ r \in (pending \cup Queued) \ Completed /\ ~ (r \in pending /\ r \in Queued)
       \/ r \in Completed \ (pending \cup Queued)
       \/ r \notin pending \cup Queued /\ \E s \in made : s # r /\ msgID[s] = msgID[r]
  /\ \A r, s \in pending : msgID[r] = msgID[s] => r = s

LEMMA PlacedIff == (OneSlotEach <=> Placed) /\ (OneSlotEach' <=> Placed')
BY DEF OneSlotEach, Placed, Distinct, Displaced

(* Serving the queue when the messages of done have just been completed    *)
(* and taken out of the map.                                               *)
LEMMA PumpPlaces ==
  ASSUME WindowTypes, SlotsInv, NEW done \in SUBSET pending, PumpQueue(pending \ done),
         UNCHANGED <<made, msgID>>, Completed' = Completed \cup done
  PROVE  OneSlotEach'
<1> DEFINE rest == pending \ done
<1>0. /\ Placed /\ Queued = Members(queue) /\ Queued' = Members(queue')
      /\ pending \subseteq made /\ queue \in Seq(made) /\ rest \subseteq pending
      /\ rest \cap done = {}
  BY PlacedIff, QueuedMembers DEF SlotsInv, WindowTypes
<1>1. CASE pending' = rest /\ queue' = queue
  <2>1. Queued' = Queued
    BY <1>0, <1>1
  <2> QED BY <1>0, <1>1, <2>1, PlacedIff DEF Placed
<1>2. CASE queue # <<>> /\ Activate(Head(queue), msgID[Head(queue)], rest) /\ queue' = Tail(queue)
  <2> DEFINE h == Head(queue)
  <2>1. /\ h \in made /\ h \in Queued /\ Distinct(queue') /\ Queued' = Queued \ {h}
    BY <1>0, <1>2, TailMembers DEF Placed
  <2>2. pending' = {s \in rest : msgID[s] # msgID[h]} \cup {h}
    BY <1>2 DEF Activate
  <2> HIDE DEF h, rest
  <2>3. \A r, s \in pending' : msgID[r] = msgID[s] => r = s
    BY <1>0, <2>2 DEF Placed
  <2>4. ASSUME NEW r \in made
        PROVE  \/ r \in (pending' \cup Queued') \ Completed' /\ ~ (r \in pending' /\ r \in Queued')
               \/ r \in Completed' \ (pending' \cup Queued')
               \/ /\ r \notin pending' \cup Queued'
                  /\ \E s \in made : s # r /\ msgID[s] = msgID[r]
    <3>1. CASE r = h
      BY <1>0, <2>1, <2>2, <3>1 DEF Placed
    <3>2. CASE r # h /\ r \in rest /\ msgID[r] = msgID[h]
      BY <1>0, <2>1, <2>2, <3>2 DEF Placed
    <3>3. CASE r # h /\ r \in rest /\ msgID[r] # msgID[h]
      BY <1>0, <2>1, <2>2, <3>3 DEF Placed
    <3>4. CASE r # h /\ r \in done
      BY <1>0, <2>1, <2>2, <3>4 DEF Placed
    <3>5. CASE r # h /\ r \notin rest /\ r \notin done
      BY <1>0, <2>1, <2>2, <3>5 DEF Placed, rest
    <3> QED BY <3>1, <3>2, <3>3, <3>4, <3>5
  <2> QED BY <1>0, <2>1, <2>3, <2>4, PlacedIff DEF Placed
<1> QED BY <1>1, <1>2 DEF PumpQueue

(* A message that waits or is in flight has not been completed.            *)
LEMMA OpenMessages ==
  ASSUME WindowTypes, SlotsInv
  PROVE  /\ pending \cap Queued = {}
         /\ \A r \in pending \cup Queued :
              r \in made /\ r \in Requests /\ r \notin closed /\ delivered[r] = <<>>
<1>1. /\ Placed /\ pending \subseteq made /\ made \subseteq Requests
  BY PlacedIff DEF SlotsInv, WindowTypes
<1>2. Queued \subseteq made
  BY QueuedMembers, LenProperties, ElementOfSeq DEF Members, WindowTypes
<1> QED BY <1>1, <1>2 DEF Placed, Completed

LEMMA SlotsInit == WindowInit => SlotsInv
<1> SUFFICES ASSUME WindowInit PROVE SlotsInv
  OBVIOUS
<1>1. Len(<<>>) = 0
  BY EmptySeq
<1> QED BY <1>1 DEF WindowInit, SlotsInv, OneSlotEach, OneCompletion, Displaced

LEMMA SlotsStep == WindowTypes /\ SlotsInv /\ [WindowNext]_window => SlotsInv'
<1> SUFFICES ASSUME WindowTypes, SlotsInv, [WindowNext]_window PROVE SlotsInv'
  OBVIOUS
<1>0. /\ Placed /\ OneCompletion /\ pending \subseteq made /\ made \subseteq Requests
      /\ queue \in Seq(made) /\ closed \subseteq made
      /\ Queued = Members(queue) /\ Queued' = Members(queue')
      /\ delivered \in [Requests -> Seq(Requests)]
      /\ \A r \in Requests \ made : delivered[r] = <<>>
  BY PlacedIff, QueuedMembers DEF SlotsInv, WindowTypes
<1>00. /\ pending \cap Queued = {}
       /\ \A r \in pending \cup Queued :
            r \in made /\ r \in Requests /\ r \notin closed /\ delivered[r] = <<>>
  BY OpenMessages
<1>1. ASSUME NEW r \in Requests, NEW id \in MsgIDs, EnqueueRequest(r, id)
      PROVE  SlotsInv'
  <2>1. /\ r \notin made /\ made' = made \cup {r} /\ Completed' = Completed
        /\ r \notin Completed /\ r \notin pending \cup Queued
        /\ msgID' = [msgID EXCEPT ![r] = id] /\ delivered' = delivered /\ closed' = closed
        /\ \A s \in made : msgID'[s] = msgID[s]
        /\ msgID'[r] = id
    BY <1>0, <1>00, <1>1 DEF EnqueueRequest, Completed, WindowTypes
  <2>2. CASE Activate(r, id, pending) /\ queue' = queue
    <3>1. pending' = {s \in pending : msgID[s] # id} \cup {r} /\ Queued' = Queued
      BY <1>0, <2>2 DEF Activate
    <3>2. \A s, u \in pending' : msgID'[s] = msgID'[u] => s = u
      BY <1>0, <2>1, <3>1 DEF Placed
    <3>3. ASSUME NEW s \in made'
          PROVE  \/ s \in (pending' \cup Queued') \ Completed' /\ ~ (s \in pending' /\ s \in Queued')
                 \/ s \in Completed' \ (pending' \cup Queued')
                 \/ /\ s \notin pending' \cup Queued'
                    /\ \E u \in made' : u # s /\ msgID'[u] = msgID'[s]
      <4>1. CASE s = r
        BY <2>1, <3>1, <4>1
      <4>2. CASE s # r /\ s \in pending /\ msgID[s] = id
        BY <1>00, <2>1, <3>1, <4>2
      <4>3. CASE s # r /\ ~ (s \in pending /\ msgID[s] = id)
        BY <1>0, <2>1, <3>1, <4>3 DEF Placed
      <4> QED BY <4>1, <4>2, <4>3
    <3>4. Placed'
      BY <1>0, <2>2, <3>2, <3>3 DEF Placed
    <3> QED BY <1>0, <2>1, <3>4, PlacedIff DEF SlotsInv, OneCompletion
  <2>3. CASE queue' = Append(queue, r) /\ pending' = pending
    <3>1. queue \in Seq(made')
      BY <1>0, <2>1, SeqMonotonic
    <3>2. Queued' = Queued \cup {r} /\ Distinct(queue')
      BY <1>0, <2>1, <2>3, <3>1, AppendMembers DEF Placed
    <3>3. ASSUME NEW s \in made'
          PROVE  \/ s \in (pending' \cup Queued') \ Completed' /\ ~ (s \in pending' /\ s \in Queued')
                 \/ s \in Completed' \ (pending' \cup Queued')
                 \/ /\ s \notin pending' \cup Queued'
                    /\ \E u \in made' : u # s /\ msgID'[u] = msgID'[s]
      <4>1. CASE s = r
        BY <2>1, <2>3, <3>2, <4>1
      <4>2. CASE s # r
        BY <1>0, <2>1, <2>3, <3>2, <4>2 DEF Placed
      <4> QED BY <4>1, <4>2
    <3>4. \A s, u \in pending' : msgID'[s] = msgID'[u] => s = u
      BY <1>0, <2>1, <2>3 DEF Placed
    <3>5. Placed'
      BY <3>2, <3>3, <3>4 DEF Placed
    <3> QED BY <1>0, <2>1, <3>5, PlacedIff DEF SlotsInv, OneCompletion
  <2> QED BY <1>1, <2>2, <2>3 DEF EnqueueRequest
<1>2. ASSUME NEW id \in MsgIDs, NEW data \in Requests, HandleResponse(id, data)
      PROVE  SlotsInv'
  <2>1. CASE UNCHANGED window
    BY <2>1 DEF window, SlotsInv, OneSlotEach, OneCompletion, Displaced, Queued, Completed
  <2>2. ASSUME NEW r \in Under(id),
               delivered' = [delivered EXCEPT ![r] = Append(@, data)],
               PumpQueue(pending \ {r}),
               UNCHANGED <<windowSize, msgID, retries, made, closed, loop>>
        PROVE  SlotsInv'
    <3>1. r \in pending /\ r \in Requests /\ r \in made /\ r \notin closed /\ delivered[r] = <<>>
      BY <1>00 DEF Under
    <3>2. /\ delivered'[r] = Append(<<>>, data)
          /\ \A s \in Requests : s # r => delivered'[s] = delivered[s]
      BY <1>0, <2>2, <3>1
    <3>3. Len(delivered'[r]) = 1 /\ delivered'[r] # <<>>
      BY <3>2, EmptySeq, AppendProperties
    <3>4. Completed' = Completed \cup {r}
      BY <2>2, <3>1, <3>2, <3>3 DEF Completed
    <3>5. OneSlotEach'
      BY <2>2, <3>1, <3>4, PumpPlaces
    <3>6. OneCompletion'
      BY <1>0, <2>2, <3>1, <3>2, <3>3 DEF OneCompletion
    <3> QED BY <1>0, <2>2, <3>1, <3>2, <3>5, <3>6 DEF SlotsInv
  <2> QED BY <1>2, <2>1, <2>2 DEF HandleResponse
<1>3. ASSUME NEW late \in SUBSET pending, CheckTimeouts(late)
      PROVE  SlotsInv'
  <2> DEFINE dead == {r \in late : retries[r] >= MaxRetries}
  <2>1. /\ closed' = closed \cup dead /\ dead \subseteq pending
        /\ IF dead # {} THEN PumpQueue(pending \ dead) ELSE UNCHANGED <<pending, queue, sent>>
        /\ UNCHANGED <<windowSize, msgID, made, delivered, loop>>
    BY <1>3 DEF CheckTimeouts
  <2> HIDE DEF dead
  <2>2. Completed' = Completed \cup dead
    BY <1>00, <2>1 DEF Completed
  <2>3. OneCompletion'
    BY <1>0, <1>00, <2>1 DEF OneCompletion
  <2>4. CASE dead # {}
    <3>1. OneSlotEach'
      BY <2>1, <2>2, <2>4, PumpPlaces
    <3> QED BY <1>0, <2>1, <2>3, <3>1 DEF SlotsInv
  <2>5. CASE dead = {}
    <3>1. Placed'
      BY <1>0, <2>1, <2>2, <2>5 DEF Placed
    <3> QED BY <1>0, <2>1, <2>3, <3>1, PlacedIff DEF SlotsInv
  <2> QED BY <2>4, <2>5
<1>4. CASE Cancel
  BY <1>4 DEF Cancel, SlotsInv, OneSlotEach, OneCompletion, Displaced, Queued, Completed
<1>5. CASE EndLoop
  <2>1. /\ closed' = closed \cup pending \cup Queued /\ pending' = {} /\ queue' = <<>>
        /\ UNCHANGED <<msgID, made, delivered>>
    BY <1>5 DEF EndLoop
  <2>2. Queued' = {} /\ Distinct(queue')
    BY <1>0, <2>1, EmptySeq DEF Members, Distinct
  <2>3. Completed' = Completed \cup pending \cup Queued
    BY <1>00, <2>1 DEF Completed
  <2>4. Placed'
    BY <1>0, <2>1, <2>2, <2>3 DEF Placed
  <2>5. OneCompletion'
    BY <1>0, <1>00, <2>1 DEF OneCompletion
  <2> QED BY <1>0, <2>1, <2>4, <2>5, PlacedIff DEF SlotsInv
<1>6. CASE UNCHANGED window
  BY <1>6 DEF window, SlotsInv, OneSlotEach, OneCompletion, Displaced, Queued, Completed
<1> QED BY <1>1, <1>2, <1>3, <1>4, <1>5, <1>6 DEF WindowNext

(* Each message is in the map or in the queue until it is completed, or    *)
(* another was enqueued under its ID.                                      *)
THEOREM OneSlotEachHolds == WindowSpec => []OneSlotEach
BY SlotsInit, SlotsStep, WindowTypesHold, PTL DEF WindowSpec, SlotsInv

(* Every completion channel gets one response or is closed, once.          *)
THEOREM OneCompletionHolds == WindowSpec => []OneCompletion
BY SlotsInit, SlotsStep, WindowTypesHold, PTL DEF WindowSpec, SlotsInv

(* Both: the window forgets nothing, keeps nothing twice and answers each  *)
(* sender once.                                                            *)
THEOREM KeptOnceHolds == WindowSpec => []KeptOnce
BY OneSlotEachHolds, OneCompletionHolds, PTL DEF KeptOnce

-----------------------------------------------------------------------------
Inv == TypesInv /\ SlotsInv

LEMMA InvHolds == WindowSpec => []Inv
BY TypesInit, TypesStep, SlotsInit, SlotsStep, PTL DEF WindowSpec, Inv, TypesInv

(* The status of a message is read off from where it is.                   *)
LEMMA Statuses ==
  ASSUME Inv, NEW r \in Requests
  PROVE  /\ StatusOf[r] = "new" <=> r \notin made
         /\ StatusOf[r] = "inFlight" <=> r \in pending
         /\ StatusOf[r] = "queued" <=> r \in Queued
         /\ StatusOf[r] = "failed" <=> r \in closed
         /\ StatusOf[r] = "answered" <=> delivered[r] # <<>>
         /\ StatusOf[r] \in {"new", "queued", "inFlight", "answered", "failed", "displaced"}
<1>1. /\ pending \cap Queued = {} /\ closed \subseteq made
      /\ \A s \in pending \cup Queued : s \in made /\ s \notin closed /\ delivered[s] = <<>>
      /\ r \notin made => delivered[r] = <<>>
      /\ r \in closed => delivered[r] = <<>>
  BY OpenMessages DEF Inv, TypesInv, WindowTypes, SlotsInv, OneCompletion
<1> QED BY <1>1 DEF StatusOf

(* Who moves when the queue is served.                                     *)
LEMMA PumpMoves ==
  ASSUME Inv, Inv', NEW done \in SUBSET pending, PumpQueue(pending \ done), made' = made,
         NEW r \in Requests \ done, r \in closed' <=> r \in closed, delivered'[r] = delivered[r]
  PROVE  \/ StatusOf'[r] = StatusOf[r]
         \/ /\ queue # <<>> /\ r = Head(queue)
            /\ StatusOf[r] = "queued" /\ StatusOf'[r] = "inFlight"
         \/ /\ queue # <<>> /\ r \in pending /\ msgID[r] = msgID[Head(queue)]
            /\ Head(queue) \in Queued /\ Head(queue) \in pending'
            /\ StatusOf[r] = "inFlight" /\ StatusOf'[r] = "displaced"
<1>0. /\ queue \in Seq(made) /\ Queued = Members(queue) /\ Queued' = Members(queue')
      /\ Distinct(queue) /\ pending \cap Queued = {}
  BY QueuedMembers, OpenMessages, PlacedIff DEF Inv, TypesInv, WindowTypes, SlotsInv, Placed
<1>1. /\ StatusOf[r] = IF r \notin made THEN "new" ELSE IF r \in closed THEN "failed"
                       ELSE IF delivered[r] # <<>> THEN "answered"
                       ELSE IF r \in pending THEN "inFlight"
                       ELSE IF r \in Queued THEN "queued" ELSE "displaced"
      /\ StatusOf'[r] = IF r \notin made THEN "new" ELSE IF r \in closed THEN "failed"
                       ELSE IF delivered[r] # <<>> THEN "answered"
                       ELSE IF r \in pending' THEN "inFlight"
                       ELSE IF r \in Queued' THEN "queued" ELSE "displaced"
  BY DEF StatusOf
<1>2. CASE pending' = pending \ done /\ queue' = queue
  <2>1. Queued' = Queued /\ (r \in pending' <=> r \in pending)
    BY <1>0, <1>2
  <2> QED BY <1>1, <2>1
<1>3. CASE queue # <<>> /\ Activate(Head(queue), msgID[Head(queue)], pending \ done) /\ queue' = Tail(queue)
  <2> DEFINE h == Head(queue)
  <2>1. h \in Queued /\ Queued' = Queued \ {h}
    BY <1>0, <1>3, TailMembers
  <2>2. pending' = {s \in pending \ done : msgID[s] # msgID[h]} \cup {h}
    BY <1>3 DEF Activate
  <2> HIDE DEF h
  <2>3. CASE r = h
    BY <1>0, <1>1, <1>3, <2>1, <2>2, <2>3, Statuses DEF h
  <2>4. CASE r # h /\ r \in pending /\ msgID[r] = msgID[h]
    <3>1. r \notin pending' /\ r \notin Queued' /\ h \in pending'
      BY <1>0, <2>1, <2>2, <2>4
    <3>2. StatusOf[r] = "inFlight"
      BY <2>4, Statuses
    <3>3. StatusOf'[r] = "displaced"
      BY <1>1, <3>1, <3>2
    <3> QED BY <1>3, <2>1, <2>4, <3>1, <3>2, <3>3 DEF h
  <2>5. CASE r # h /\ ~ (r \in pending /\ msgID[r] = msgID[h])
    <3>1. (r \in pending' <=> r \in pending) /\ (r \in Queued' <=> r \in Queued)
      BY <2>1, <2>2, <2>5
    <3> QED BY <1>1, <3>1
  <2> QED BY <2>3, <2>4, <2>5
<1> QED BY <1>2, <1>3 DEF PumpQueue

(* In flight is who is in the map, in the next state too.                  *)
LEMMA InFlightNext ==
  ASSUME Inv', NEW r \in Requests
  PROVE  StatusOf'[r] = "inFlight" <=> r \in pending'
<1>1. /\ Placed' /\ pending' \subseteq made' /\ closed' \subseteq made'
  BY PlacedIff DEF Inv, TypesInv, WindowTypes, SlotsInv
<1>2. r \in pending' => r \in made' /\ r \notin closed' /\ delivered'[r] = <<>>
  BY <1>1 DEF Placed, Completed
<1> QED BY <1>2 DEF StatusOf

(* A step of the promise, told by the moves of single messages: a may be   *)
(* answered, h may start, and who was in flight under id may be displaced. *)
Moves(s, a, h, id) ==
  \/ StatusOf'[s] = StatusOf[s]
  \/ StatusOf[s] = "new" /\ StatusOf'[s] = "queued"
  \/ StatusOf[s] \in {"queued", "inFlight"} /\ StatusOf'[s] = "failed"
  \/ StatusOf[s] = "inFlight" /\ StatusOf'[s] = "answered" /\ s = a
  \/ StatusOf[s] \in {"new", "queued"} /\ StatusOf'[s] = "inFlight" /\ s = h
  \/ /\ StatusOf[s] = "inFlight" /\ StatusOf'[s] = "displaced"
     /\ s \in pending /\ msgID[s] = id
     /\ h \in Requests /\ StatusOf[h] \in {"new", "queued"} /\ h \in pending'

LEMMA StepOfMoves ==
  ASSUME Inv, Inv', windowSize' = windowSize, NEW a, NEW h, NEW id,
         \A s \in Requests : Moves(s, a, h, id)
  PROVE  Promise!Step
<1> DEFINE S == StatusOf
           T == StatusOf'
<1>1. \A s \in Requests : T[s] \in Promise!After[S[s]] \cup {S[s]}
  BY DEF Moves, Promise!After, Promise!Ends
<1>2. \A s, u \in Requests : S[s] # "answered" /\ T[s] = "answered" /\ S[u] # "answered" /\ T[u] = "answered" => s = u
  BY DEF Moves
<1>3. \A s, u \in Requests : S[s] # "inFlight" /\ T[s] = "inFlight" /\ S[u] # "inFlight" /\ T[u] = "inFlight" => s = u
  BY DEF Moves
<1>4. \A s \in Requests : S[s] # "displaced" /\ T[s] = "displaced" =>
        /\ s \in pending /\ msgID[s] = id
        /\ h \in Requests /\ S[h] # "inFlight" /\ T[h] = "inFlight"
  BY InFlightNext DEF Moves
<1>5. \A s, u \in pending : msgID[s] = msgID[u] => s = u
  BY DEF Inv, SlotsInv, OneSlotEach
<1>6. Promise!Now("inFlight")' = pending'
  <2>1. pending' \subseteq Requests
    BY DEF Inv, TypesInv, WindowTypes
  <2> QED BY <2>1, InFlightNext DEF Promise!Now
<1>7. Promise!Cardinality(pending') <= windowSize
  BY DEF Inv, TypesInv, WindowTypes, Promise!Cardinality, Cardinality
<1> HIDE DEF S, T
<1>8. Promise!AtMostOne(Promise!Become("answered"))
  BY <1>2 DEF Promise!AtMostOne, Promise!Become, S, T
<1>9. Promise!AtMostOne(Promise!Become("inFlight"))
  BY <1>3 DEF Promise!AtMostOne, Promise!Become, S, T
<1>10. Promise!AtMostOne(Promise!Become("displaced"))
  BY <1>4, <1>5 DEF Promise!AtMostOne, Promise!Become, S, T
<1>11. Promise!Become("displaced") # {} => Promise!Become("inFlight") # {}
  BY <1>4 DEF Promise!Become, S, T
<1> QED BY <1>1, <1>6, <1>7, <1>8, <1>9, <1>10, <1>11 DEF Promise!Step, S, T

(* Serving the queue makes no moves but these.                             *)
LEMMA QueueServed ==
  ASSUME Inv, Inv', NEW done \in SUBSET pending, PumpQueue(pending \ done), made' = made,
         NEW a, NEW s \in Requests \ done, s \in closed' <=> s \in closed,
         delivered'[s] = delivered[s]
  PROVE  Moves(s, a, Head(queue), msgID[Head(queue)])
<1>1. queue # <<>> => Head(queue) \in made
  BY TailMembers DEF Inv, TypesInv, WindowTypes
<1>2. CASE StatusOf'[s] = StatusOf[s]
  BY <1>2 DEF Moves
<1>3. CASE /\ queue # <<>> /\ s = Head(queue)
           /\ StatusOf[s] = "queued" /\ StatusOf'[s] = "inFlight"
  BY <1>3 DEF Moves
<1>4. CASE /\ queue # <<>> /\ s \in pending /\ msgID[s] = msgID[Head(queue)]
           /\ Head(queue) \in Queued /\ Head(queue) \in pending'
           /\ StatusOf[s] = "inFlight" /\ StatusOf'[s] = "displaced"
  <2>1. Head(queue) \in Requests
    BY <1>1, <1>4 DEF Inv, TypesInv, WindowTypes
  <2>2. StatusOf[Head(queue)] = "queued"
    BY <1>4, <2>1, Statuses
  <2> QED BY <1>4, <2>1, <2>2 DEF Moves
<1> QED BY <1>2, <1>3, <1>4, PumpMoves

LEMMA StepImplements ==
  Inv /\ Inv' /\ [WindowNext]_window => [Promise!Step]_<<StatusOf, windowSize>>
<1> SUFFICES ASSUME Inv, Inv', [WindowNext]_window
             PROVE  Promise!Step \/ UNCHANGED <<StatusOf, windowSize>>
  OBVIOUS
<1>0. /\ Queued = Members(queue) /\ Queued' = Members(queue') /\ queue \in Seq(made)
      /\ pending \subseteq made /\ made \subseteq Requests
      /\ delivered \in [Requests -> Seq(Requests)]
  BY QueuedMembers DEF Inv, TypesInv, WindowTypes
<1>1. ASSUME UNCHANGED <<windowSize, pending, queue, made, delivered, closed>>
      PROVE  UNCHANGED <<StatusOf, windowSize>>
  <2>1. Queued' = Queued
    BY <1>1 DEF Queued
  <2> QED BY <1>1, <2>1 DEF StatusOf
<1>2. ASSUME NEW r \in Requests, NEW id \in MsgIDs, EnqueueRequest(r, id)
      PROVE  Promise!Step
  <2>1. /\ r \notin made /\ made' = made \cup {r} /\ StatusOf[r] = "new"
        /\ UNCHANGED <<windowSize, delivered, closed>>
    BY <1>2, Statuses DEF EnqueueRequest
  <2>2. CASE Activate(r, id, pending) /\ queue' = queue
    <3>1. pending' = {s \in pending : msgID[s] # id} \cup {r} /\ Queued' = Queued
      BY <1>0, <2>2 DEF Activate
    <3>2. StatusOf'[r] = "inFlight"
      BY <3>1, InFlightNext
    <3>3. ASSUME NEW s \in Requests
          PROVE  Moves(s, r, r, id)
      <4>1. CASE s = r
        BY <2>1, <3>2, <4>1 DEF Moves
      <4>2. CASE s # r /\ s \in pending /\ msgID[s] = id
        <5>1. StatusOf[s] = "inFlight" /\ s \notin Queued
          BY <4>2, Statuses, OpenMessages DEF Inv, TypesInv
        <5>2. StatusOf'[s] = "displaced"
          BY <2>1, <3>1, <4>2, <5>1 DEF StatusOf
        <5> QED BY <2>1, <3>1, <4>2, <5>1, <5>2 DEF Moves
      <4>3. CASE s # r /\ ~ (s \in pending /\ msgID[s] = id)
        <5>1. StatusOf'[s] = StatusOf[s]
          BY <2>1, <3>1, <4>3 DEF StatusOf
        <5> QED BY <5>1 DEF Moves
      <4> QED BY <4>1, <4>2, <4>3
    <3> QED BY <2>1, <3>3, StepOfMoves
  <2>3. CASE queue' = Append(queue, r) /\ pending' = pending
    <3>1. queue \in Seq(made') /\ r \in made'
      BY <1>0, <2>1, SeqMonotonic
    <3>2. Queued' = Queued \cup {r}
      BY <1>0, <2>3, <3>1, AppendMembers
    <3>3. ASSUME NEW s \in Requests
          PROVE  Moves(s, r, r, id)
      <4>1. CASE s = r
        <5>1. r \notin closed /\ delivered[r] = <<>> /\ r \notin pending
          BY <2>1, Statuses
        <5>2. StatusOf'[r] = "queued"
          BY <2>1, <2>3, <3>1, <3>2, <5>1 DEF StatusOf
        <5> QED BY <2>1, <4>1, <5>2 DEF Moves
      <4>2. CASE s # r
        <5>1. StatusOf'[s] = StatusOf[s]
          BY <2>1, <2>3, <3>2, <4>2 DEF StatusOf
        <5> QED BY <5>1 DEF Moves
      <4> QED BY <4>1, <4>2
    <3> QED BY <2>1, <3>3, StepOfMoves
  <2> QED BY <1>2, <2>2, <2>3 DEF EnqueueRequest
<1>3. ASSUME NEW id \in MsgIDs, NEW data \in Requests, HandleResponse(id, data)
      PROVE  Promise!Step \/ UNCHANGED <<StatusOf, windowSize>>
  <2>1. CASE UNCHANGED window
    BY <1>1, <2>1 DEF window
  <2>2. ASSUME NEW r \in Under(id),
               delivered' = [delivered EXCEPT ![r] = Append(@, data)],
               PumpQueue(pending \ {r}),
               UNCHANGED <<windowSize, msgID, retries, made, closed, loop>>
        PROVE  Promise!Step
    <3>1. /\ r \in pending /\ r \in Requests /\ r \in made /\ r \notin closed
          /\ delivered[r] = <<>> /\ StatusOf[r] = "inFlight"
      BY <1>0, Statuses, OpenMessages DEF Under, Inv, TypesInv
    <3>2. /\ delivered'[r] # <<>>
          /\ \A s \in Requests : s # r => delivered'[s] = delivered[s]
      BY <1>0, <2>2, <3>1, EmptySeq, AppendProperties
    <3>3. StatusOf'[r] = "answered"
      BY <2>2, <3>1, <3>2 DEF StatusOf
    <3>4. ASSUME NEW s \in Requests
          PROVE  Moves(s, r, Head(queue), msgID[Head(queue)])
      <4>1. CASE s = r
        BY <3>1, <3>3, <4>1 DEF Moves
      <4>2. CASE s # r
        BY <2>2, <3>1, <3>2, <4>2, QueueServed
      <4> QED BY <4>1, <4>2
    <3> QED BY <2>2, <3>4, StepOfMoves
  <2> QED BY <1>3, <2>1, <2>2 DEF HandleResponse
<1>4. ASSUME NEW late \in SUBSET pending, CheckTimeouts(late)
      PROVE  Promise!Step \/ UNCHANGED <<StatusOf, windowSize>>
  <2> DEFINE dead == {r \in late : retries[r] >= MaxRetries}
  <2>1. /\ closed' = closed \cup dead /\ dead \subseteq pending
        /\ IF dead # {} THEN PumpQueue(pending \ dead) ELSE UNCHANGED <<pending, queue, sent>>
        /\ UNCHANGED <<windowSize, msgID, made, delivered, loop>>
    BY <1>4 DEF CheckTimeouts
  <2> HIDE DEF dead
  <2>2. CASE dead # {}
    <3>1. ASSUME NEW s \in Requests
          PROVE  Moves(s, 0, Head(queue), msgID[Head(queue)])
      <4>1. CASE s \in dead
        <5>1. StatusOf[s] = "inFlight" /\ s \in made
          BY <1>0, <2>1, <4>1, Statuses
        <5>2. StatusOf'[s] = "failed"
          BY <2>1, <4>1, <5>1 DEF StatusOf
        <5> QED BY <5>1, <5>2 DEF Moves
      <4>2. CASE s \notin dead
        BY <2>1, <2>2, <4>2, QueueServed
      <4> QED BY <4>1, <4>2
    <3> QED BY <2>1, <3>1, StepOfMoves
  <2>3. CASE dead = {}
    BY <1>1, <2>1, <2>3
  <2> QED BY <2>2, <2>3
<1>5. CASE Cancel
  BY <1>1, <1>5 DEF Cancel
<1>6. CASE EndLoop
  <2>1. /\ closed' = closed \cup pending \cup Queued /\ pending' = {} /\ queue' = <<>>
        /\ UNCHANGED <<windowSize, msgID, made, delivered>>
    BY <1>6 DEF EndLoop
  <2>2. Queued' = {}
    BY <1>0, <2>1, EmptySeq DEF Members
  <2>3. ASSUME NEW s \in Requests
        PROVE  Moves(s, 0, 0, 0)
    <3>1. CASE s \in pending \cup Queued
      <4>1. StatusOf[s] \in {"queued", "inFlight"} /\ s \in made
        BY <3>1, Statuses, OpenMessages DEF Inv, TypesInv
      <4>2. StatusOf'[s] = "failed"
        BY <2>1, <3>1, <4>1 DEF StatusOf
      <4> QED BY <4>1, <4>2 DEF Moves
    <3>2. CASE s \notin pending \cup Queued
      <4>1. StatusOf'[s] = StatusOf[s]
        BY <2>1, <2>2, <3>2 DEF StatusOf
      <4> QED BY <4>1 DEF Moves
    <3> QED BY <3>1, <3>2
  <2> QED BY <2>1, <2>3, StepOfMoves
<1>7. CASE UNCHANGED window
  BY <1>1, <1>7 DEF window
<1> QED BY <1>2, <1>3, <1>4, <1>5, <1>6, <1>7 DEF WindowNext

LEMMA InitImplements == WindowInit => Promise!Init
<1> SUFFICES ASSUME WindowInit PROVE Promise!Init
  OBVIOUS
<1>1. made = {} /\ windowSize \in Nat \ {0}
  BY WindowAssumption DEF WindowInit
<1>2. StatusOf = [r \in Requests |-> "new"]
  BY <1>1 DEF StatusOf
<1> QED BY <1>1, <1>2 DEF Promise!Init

(* The window implements the promise of RequestWindow.                     *)
THEOREM WindowImplementsPromise == WindowSpec => ImplementsWindow
BY InitImplements, StepImplements, InvHolds, PTL DEF WindowSpec, ImplementsWindow, Promise!Spec

-----------------------------------------------------------------------------
(* The control plane                                                       *)

Headers ==
  /\ header = [r \in Requests |-> header[r]]
  /\ \A r \in Requests : header[r].id \in MsgIDs

TaskStates ==
  [Tasks -> [pc : {"idle", "lock", "number", "register", "wait", "notice", "reset", "returned"},
             kind : Kinds \cup {"none"}, step : 1 .. 2]]

MayOwn(t) == Rekeys(t) /\ task[t].pc \notin {"idle", "lock", "returned"}

TaskTypes ==
  /\ seq \in MsgIDs /\ task \in TaskStates /\ raced \in BOOLEAN
  /\ rekeyMu \in {Nobody, Dispatcher} \cup Tasks
  /\ rekeyMu \in Tasks => MayOwn(rekeyMu)
  /\ \A t \in Tasks : At(t, "lock") => Rekeys(t)

LEMMA NumbersInRange ==
  ASSUME NEW n \in MsgIDs
  PROVE  Succ(n) \in MsgIDs /\ LastID(n) \in MsgIDs /\ 0 \in MsgIDs
BY WindowAssumption DEF MsgIDs, Succ, LastID, Pred

LEMMA RequestOfTask ==
  ASSUME TaskTypes, NEW t \in Tasks
  PROVE  Request(t) \in Requests
BY ControlAssumption DEF TaskTypes, TaskStates, Request

LEMMA HeadersInit == Init => Headers
BY WindowAssumption DEF Init, Headers, NoHeader, MsgIDs

LEMMA HeadersStep == TaskTypes /\ Headers /\ [Next]_vars => Headers'
<1> SUFFICES ASSUME TaskTypes, Headers, [Next]_vars PROVE Headers'
  OBVIOUS
<1>1. ASSUME header' = header
      PROVE  Headers'
  BY <1>1 DEF Headers
<1>2. ASSUME NEW t \in Tasks, TakeNumber(t) \/ SendNotice(t)
      PROVE  Headers'
  <2>1. header' = [header EXCEPT ![Request(t)] = [id |-> seq, sa |-> ikeSA]]
    BY <1>2 DEF TakeNumber, SendNotice
  <2>2. seq \in MsgIDs
    BY DEF TaskTypes
  <2> QED BY <2>1, <2>2 DEF Headers
<1>3. ASSUME NEW t \in Tasks,
             \/ \E kind \in Kinds : Call(t, kind)
             \/ LockRekey(t) \/ Register(t) \/ FailCall(t) \/ ProbeEnds(t) \/ RejectAnswer(t)
             \/ AdoptChildSA(t) \/ AcceptIkeSA(t) \/ SwitchIkeSA(t) \/ ResetSequence(t)
      PROVE  Headers'
  BY <1>1, <1>3 DEF Call, LockRekey, Register, FailCall, ProbeEnds, RejectAnswer, AdoptChildSA,
                    AcceptIkeSA, SwitchIkeSA, ResetSequence
<1>4. ASSUME \/ \E r \in Requests : PeerReplies(r) \/ DispatchResponse(r)
             \/ \E late \in SUBSET pending : Alone(CheckTimeouts(late))
             \/ Alone(Cancel) \/ Alone(EndLoop)
             \/ PeerRekeysChild \/ PeerRekeysIke
             \/ UNCHANGED vars
      PROVE  Headers'
  BY <1>1, <1>4 DEF PeerReplies, DispatchResponse, Alone, PeerRekeysChild, PeerRekeysIke, vars
<1> QED BY <1>2, <1>3, <1>4 DEF Next, TaskStep

LEMMA TasksInit == Init => TaskTypes
<1> SUFFICES ASSUME Init PROVE TaskTypes
  OBVIOUS
<1>1. seq \in MsgIDs /\ raced \in BOOLEAN /\ rekeyMu = Nobody
  BY ControlAssumption DEF Init
<1>2. task \in TaskStates
  BY DEF Init, TaskStates
<1>3. \A t \in Tasks : ~ At(t, "lock")
  BY DEF Init, At
<1> QED BY <1>1, <1>2, <1>3, ControlAssumption DEF TaskTypes

(* A task that moves on keeps its kind; the mutex stays with its owner     *)
(* until that returns.                                                     *)
LEMMA TaskMoves ==
  ASSUME TaskTypes, NEW t \in Tasks, task' \in TaskStates,
         \A u \in Tasks \ {t} : task'[u] = task[u],
         At(t, "lock")' => Rekeys(t)',
         \/ /\ rekeyMu' = rekeyMu /\ task'[t].kind = task[t].kind
            /\ task'[t].pc \notin {"idle", "lock", "returned"}
         \/ rekeyMu' = IF rekeyMu = t THEN Nobody ELSE rekeyMu
         \/ rekeyMu' = t /\ MayOwn(t)'
  PROVE  /\ rekeyMu' \in {Nobody, Dispatcher} \cup Tasks
         /\ rekeyMu' \in Tasks => MayOwn(rekeyMu)'
         /\ \A u \in Tasks : At(u, "lock")' => Rekeys(u)'
<1>1. Nobody \notin Tasks
  BY ControlAssumption
<1>2. rekeyMu' \in {Nobody, Dispatcher} \cup Tasks
  BY DEF TaskTypes
<1>3. \A u \in Tasks : At(u, "lock")' => Rekeys(u)'
  BY DEF TaskTypes, Rekeys, Kind, At
<1>4. ASSUME rekeyMu' \in Tasks, rekeyMu' # t
      PROVE  MayOwn(rekeyMu)'
  <2>1. rekeyMu' = rekeyMu
    BY <1>1, <1>4
  <2> QED BY <1>4, <2>1 DEF TaskTypes, MayOwn, Rekeys, Kind
<1>5. ASSUME rekeyMu' \in Tasks, rekeyMu' = t
      PROVE  MayOwn(rekeyMu)'
  <2>1. MayOwn(t)'
    BY <1>1, <1>5 DEF TaskTypes, MayOwn, Rekeys, Kind
  <2> QED BY <1>5, <2>1 DEF MayOwn, Rekeys, Kind
<1> QED BY <1>2, <1>3, <1>4, <1>5

LEMMA TasksStep == TaskTypes /\ [Next]_vars => TaskTypes'
<1> SUFFICES ASSUME TaskTypes, [Next]_vars PROVE TaskTypes'
  OBVIOUS
<1>0. /\ \A n \in MsgIDs : Succ(n) \in MsgIDs
      /\ 0 \in MsgIDs /\ seq \in MsgIDs /\ task \in TaskStates /\ raced \in BOOLEAN
  BY NumbersInRange DEF TaskTypes
<1>1. ASSUME NEW t \in Tasks, NEW kind \in Kinds, Call(t, kind)
      PROVE  TaskTypes'
  <2>1. task' \in TaskStates /\ \A u \in Tasks \ {t} : task'[u] = task[u]
    <3>1. \A u \in Tasks \ {t} : task'[u] = task[u]
      BY <1>0, <1>1 DEF Call, TaskStates
    <3>2. task' \in TaskStates
      BY <1>0, <1>1 DEF Call, TaskStates
    <3> QED BY <3>1, <3>2
  <2>2. rekeyMu # t /\ (At(t, "lock")' => Rekeys(t)')
    <3>1. task'[t].kind = kind /\ (task'[t].pc = "lock" => kind # "dpd")
      BY <1>0, <1>1 DEF Call, TaskStates
    <3>2. rekeyMu # t
      BY <1>1, ControlAssumption DEF Call, TaskTypes, MayOwn, Rekeys, Kind, At
    <3> QED BY <3>1, <3>2 DEF At, Rekeys, Kind, Kinds
  <2>3. UNCHANGED <<seq, raced, rekeyMu>>
    BY <1>1 DEF Call, session
  <2> QED BY <1>0, <2>1, <2>2, <2>3, TaskMoves DEF TaskTypes, At
<1>2. ASSUME NEW t \in Tasks, LockRekey(t)
      PROVE  TaskTypes'
  <2>1. /\ task' \in TaskStates /\ \A u \in Tasks \ {t} : task'[u] = task[u]
        /\ task'[t].pc # "lock" /\ task'[t].kind = task[t].kind
    BY <1>0, <1>2 DEF LockRekey, Return, Goto, TaskStates
  <2>2. UNCHANGED <<seq, raced>> /\ rekeyMu = Nobody
    BY <1>2 DEF LockRekey
  <2>3. CASE rekeyMu' = t /\ Goto(t, "number")
    <3>1. MayOwn(t)'
      <4>1. task'[t].pc = "number" /\ Rekeys(t)
        BY <1>0, <1>2, <2>3 DEF LockRekey, Goto, TaskStates, TaskTypes
      <4> QED BY <2>1, <4>1 DEF MayOwn, At, Rekeys, Kind
    <3> QED BY <1>0, <2>1, <2>2, <2>3, <3>1, TaskMoves DEF TaskTypes, At
  <2>4. CASE Return(t)
    BY <1>0, <2>1, <2>2, <2>4, TaskMoves DEF TaskTypes, At, Return
  <2> QED BY <1>2, <2>3, <2>4 DEF LockRekey
<1>3. ASSUME NEW t \in Tasks, TakeNumber(t) \/ Register(t)
      PROVE  TaskTypes'
  <2>1. task' \in TaskStates /\ \A u \in Tasks \ {t} : task'[u] = task[u]
    BY <1>0, <1>3 DEF TakeNumber, Register, Goto, TaskStates
  <2>2. task'[t].kind = task[t].kind /\ task'[t].pc \notin {"idle", "lock", "returned"}
    BY <1>0, <1>3 DEF TakeNumber, Register, Goto, TaskStates
  <2>3. rekeyMu' = rekeyMu /\ seq' \in MsgIDs /\ raced' \in BOOLEAN
    BY <1>0, <1>3 DEF TakeNumber, Register, session, Numbered, At
  <2> QED BY <2>1, <2>2, <2>3, TaskMoves DEF TaskTypes, At
<1>4. ASSUME NEW t \in Tasks,
             FailCall(t) \/ ProbeEnds(t) \/ RejectAnswer(t) \/ SendNotice(t) \/ ResetSequence(t)
      PROVE  TaskTypes'
  <2>0. Return(t)
    BY <1>4 DEF FailCall, ProbeEnds, RejectAnswer, SendNotice, ResetSequence
  <2>1. /\ task' \in TaskStates /\ \A u \in Tasks \ {t} : task'[u] = task[u]
        /\ rekeyMu' = IF rekeyMu = t THEN Nobody ELSE rekeyMu
        /\ task'[t].pc # "lock"
    BY <1>0, <2>0 DEF Return, Goto, TaskStates
  <2>2. seq' \in MsgIDs /\ raced' \in BOOLEAN
    BY <1>0, <1>4 DEF FailCall, ProbeEnds, RejectAnswer, SendNotice, ResetSequence, Numbered, At
  <2> QED BY <2>1, <2>2, TaskMoves DEF TaskTypes, At
<1>5. ASSUME NEW t \in Tasks, AdoptChildSA(t) \/ AcceptIkeSA(t) \/ SwitchIkeSA(t)
      PROVE  TaskTypes'
  <2>1. task' \in TaskStates /\ \A u \in Tasks \ {t} : task'[u] = task[u]
    BY <1>0, <1>5 DEF AdoptChildSA, AcceptIkeSA, SwitchIkeSA, Goto, TaskStates
  <2>2. task'[t].kind = task[t].kind /\ task'[t].pc \notin {"idle", "lock", "returned"}
    BY <1>0, <1>5 DEF AdoptChildSA, AcceptIkeSA, SwitchIkeSA, Goto, TaskStates
  <2>3. UNCHANGED <<rekeyMu, seq, raced>>
    BY <1>5 DEF AdoptChildSA, AcceptIkeSA, SwitchIkeSA, session
  <2> QED BY <1>0, <2>1, <2>2, <2>3, TaskMoves DEF TaskTypes, At
<1>6. ASSUME \/ \E r \in Requests : PeerReplies(r) \/ DispatchResponse(r)
             \/ \E late \in SUBSET pending : Alone(CheckTimeouts(late))
             \/ Alone(Cancel) \/ Alone(EndLoop)
             \/ PeerRekeysChild \/ UNCHANGED vars
      PROVE  TaskTypes'
  <2>1. UNCHANGED <<seq, task, rekeyMu, raced>>
    BY <1>6 DEF PeerReplies, DispatchResponse, Alone, PeerRekeysChild, vars, session
  <2>2. /\ \A t \in Tasks : (At(t, "lock") => Rekeys(t)) => (At(t, "lock")' => Rekeys(t)')
        /\ MayOwn(rekeyMu) => MayOwn(rekeyMu)'
    BY <2>1 DEF MayOwn, Rekeys, Kind, At
  <2> QED BY <2>1, <2>2 DEF TaskTypes
<1>7. CASE PeerRekeysIke
  <2>1. UNCHANGED <<seq, task, raced>> /\ rekeyMu' = Dispatcher
    BY <1>7 DEF PeerRekeysIke
  <2>2. \A t \in Tasks : (At(t, "lock") => Rekeys(t)) => (At(t, "lock")' => Rekeys(t)')
    BY <2>1 DEF Rekeys, Kind, At
  <2> QED BY <2>1, <2>2, ControlAssumption DEF TaskTypes
<1> QED BY <1>1, <1>2, <1>3, <1>4, <1>5, <1>6, <1>7 DEF Next, TaskStep

-----------------------------------------------------------------------------
LEMMA StepUsesWindow ==
  TaskTypes /\ Headers /\ [Next]_vars => [WindowNext]_window
<1> SUFFICES ASSUME TaskTypes, Headers, [Next]_vars PROVE WindowNext \/ UNCHANGED window
  OBVIOUS
<1>1. ASSUME NEW t \in Tasks, Register(t)
      PROVE  WindowNext
  <2>1. Request(t) \in Requests /\ LastID(seq) \in MsgIDs
    BY RequestOfTask, NumbersInRange DEF TaskTypes
  <2> QED BY <1>1, <2>1 DEF Register, WindowNext
<1>2. ASSUME NEW r \in Requests, DispatchResponse(r)
      PROVE  WindowNext
  <2>1. header[r].id \in MsgIDs
    BY DEF Headers
  <2> QED BY <1>2, <2>1 DEF DispatchResponse, WindowNext
<1>3. ASSUME NEW t \in Tasks, FailCall(t)
      PROVE  WindowNext \/ UNCHANGED window
  BY <1>3 DEF FailCall, WindowNext
<1>4. ASSUME NEW t \in Tasks,
             \/ \E kind \in Kinds : Call(t, kind)
             \/ LockRekey(t) \/ TakeNumber(t) \/ ProbeEnds(t) \/ RejectAnswer(t)
             \/ AdoptChildSA(t) \/ SendNotice(t)
             \/ AcceptIkeSA(t) \/ SwitchIkeSA(t) \/ ResetSequence(t)
      PROVE  UNCHANGED window
  BY <1>4 DEF Call, LockRekey, TakeNumber, ProbeEnds, RejectAnswer, AdoptChildSA, SendNotice,
              AcceptIkeSA, SwitchIkeSA, ResetSequence
<1>5. ASSUME \/ \E r \in Requests : PeerReplies(r)
             \/ PeerRekeysChild \/ PeerRekeysIke
             \/ UNCHANGED vars
      PROVE  UNCHANGED window
  BY <1>5 DEF PeerReplies, PeerRekeysChild, PeerRekeysIke, vars
<1>6. ASSUME \/ \E late \in SUBSET pending : Alone(CheckTimeouts(late))
             \/ Alone(Cancel) \/ Alone(EndLoop)
      PROVE  WindowNext
  BY <1>6 DEF Alone, WindowNext
<1> QED BY <1>1, <1>2, <1>3, <1>4, <1>5, <1>6 DEF Next, TaskStep

(* Every session is a run of its request window.                           *)
THEOREM SessionUsesWindow == Spec => WindowSpec
<1>1. Init => WindowInit
  BY DEF Init
<1> QED BY <1>1, HeadersInit, HeadersStep, TasksInit, TasksStep, StepUsesWindow, PTL
        DEF Spec, WindowSpec

(* Types; the mutex of the rekeys belongs to one that is under way.        *)
THEOREM ControlTypes == Spec => []TypeOK
<1>1. WindowTypes /\ TaskTypes => TypeOK
  BY DEF TypeOK, TaskTypes, TaskStates, MayOwn
<1> QED BY <1>1, TasksInit, TasksStep, SessionUsesWindow, WindowTypesHold, PTL DEF Spec

(* Within a session, too, each request comes to one end, no slot is lost,  *)
(* the queue moves, and the window keeps its promise.                      *)
THEOREM SessionWindow ==
  Spec => [](OneSlotEach /\ OneCompletion /\ QueueMoves) /\ ImplementsWindow
BY SessionUsesWindow, OneSlotEachHolds, OneCompletionHolds, QueueMovesHolds,
   WindowImplementsPromise, PTL

-----------------------------------------------------------------------------
(* Where the tasks and their packets are.                                  *)
Stamped(r) == header[r] # NoHeader

PlaceOf(t) ==
  /\ task[t].step = 2 =>
       \/ Kind(t) = "childRekey" /\ task[t].pc \in {"notice", "returned"}
       \/ Kind(t) = "ikeRekey" /\ task[t].pc \in {"number", "register", "wait", "reset", "returned"}
  /\ task[t].pc \in {"notice", "reset"} => task[t].step = 2
  /\ MayOwn(t) => rekeyMu = t
  /\ Stamped(<<t, 1>>) => task[t].step = 2 \/ task[t].pc \in {"register", "wait", "returned"}
  /\ Stamped(<<t, 2>>) => task[t].step = 2 /\ task[t].pc \in {"register", "wait", "reset", "returned"}
  /\ task[t].pc \in {"register", "wait"} => Stamped(Request(t))
  /\ task[t].pc = "register" => Request(t) \notin made
  /\ task[t].pc = "wait" => Request(t) \in made
  /\ <<t, 1>> \in made => Stamped(<<t, 1>>)
  /\ <<t, 2>> \in made => Stamped(<<t, 2>>) /\ task[t].pc # "register"

(* An IKE rekey that has switched to its SA.                               *)
Switched(t) == Kind(t) = "ikeRekey" /\ task[t].step = 2 /\ task[t].pc \in {"reset", "returned"}

PlaceInv ==
  /\ \A t \in Tasks : PlaceOf(t)
  /\ ikeSA.asked \in {<<>>} \cup Requests

LEMMA Goes ==
  ASSUME TaskTypes, NEW t \in Tasks, NEW pc, Goto(t, pc)
  PROVE  /\ task'[t].pc = pc /\ task'[t].kind = task[t].kind /\ task'[t].step = task[t].step
         /\ \A u \in Tasks \ {t} : task'[u] = task[u]
BY DEF TaskTypes, TaskStates, Goto

LEMMA Stamps ==
  ASSUME TaskTypes, Headers, PlaceInv, NEW t \in Tasks,
         header' = [header EXCEPT ![Request(t)] = [id |-> seq, sa |-> ikeSA]]
  PROVE  /\ header'[Request(t)] = [id |-> seq, sa |-> ikeSA]
         /\ \A r \in Requests \ {Request(t)} : header'[r] = header[r]
         /\ header'[Request(t)] # NoHeader /\ Request(t) \in Requests
<1>1. Request(t) \in Requests
  BY RequestOfTask
<1>2. header'[Request(t)] = [id |-> seq, sa |-> ikeSA]
      /\ \A r \in Requests \ {Request(t)} : header'[r] = header[r]
  <2>1. header = [r \in Requests |-> header[r]]
    BY DEF Headers
  <2>2. \A h, x : header' = [header EXCEPT ![x] = h] /\ x \in Requests =>
          header'[x] = h /\ \A r \in Requests \ {x} : header'[r] = header[r]
    BY <2>1
  <2> QED BY <1>1, <2>2, Zenon
<1>3. ikeSA.asked # <<"none">>
  BY ControlAssumption DEF PlaceInv
<1>4. [id |-> seq, sa |-> ikeSA] # NoHeader
  BY <1>3 DEF NoHeader, SA
<1> QED BY <1>1, <1>2, <1>4

(* The other tasks stay where they are.                                    *)
LEMMA OthersStay ==
  ASSUME NEW u, PlaceOf(u), task'[u] = task[u],
         header'[<<u, 1>>] = header[<<u, 1>>], header'[<<u, 2>>] = header[<<u, 2>>],
         <<u, 1>> \in made' <=> <<u, 1>> \in made, <<u, 2>> \in made' <=> <<u, 2>> \in made,
         Request(u) \in made' <=> Request(u) \in made,
         header'[Request(u)] = header[Request(u)],
         rekeyMu = u => rekeyMu' = u
  PROVE  PlaceOf(u)'
BY DEF PlaceOf, MayOwn, Rekeys, Kind, Stamped, Request, NoHeader

(* Only Register enters requests, only DispatchResponse answers them.      *)
LEMMA WindowFrame ==
  ASSUME [Next]_vars
  PROVE  /\ \/ \E t \in Tasks : Register(t)
            \/ UNCHANGED <<made, msgID>>
         /\ \/ \E r \in Requests : DispatchResponse(r)
            \/ delivered' = delivered
<1>1. ASSUME NEW t \in Tasks, Register(t)
      PROVE  delivered' = delivered
  BY <1>1 DEF Register, EnqueueRequest
<1>2. ASSUME NEW r \in Requests, DispatchResponse(r)
      PROVE  UNCHANGED <<made, msgID>>
  BY <1>2 DEF DispatchResponse, HandleResponse, window
<1>3. ASSUME NEW t \in Tasks,
             \/ \E kind \in Kinds : Call(t, kind)
             \/ LockRekey(t) \/ TakeNumber(t) \/ ProbeEnds(t) \/ RejectAnswer(t)
             \/ AdoptChildSA(t) \/ SendNotice(t)
             \/ AcceptIkeSA(t) \/ SwitchIkeSA(t) \/ ResetSequence(t)
      PROVE  UNCHANGED <<made, msgID, delivered>>
  BY <1>3 DEF Call, LockRekey, TakeNumber, ProbeEnds, RejectAnswer, AdoptChildSA, SendNotice,
              AcceptIkeSA, SwitchIkeSA, ResetSequence, window
<1>4. ASSUME \/ \E t \in Tasks : FailCall(t)
             \/ \E late \in SUBSET pending : Alone(CheckTimeouts(late))
             \/ Alone(Cancel) \/ Alone(EndLoop)
      PROVE  UNCHANGED <<made, msgID, delivered>>
  BY <1>4 DEF FailCall, Cancel, Alone, CheckTimeouts, EndLoop, window
<1>5. ASSUME \/ \E r \in Requests : PeerReplies(r)
             \/ PeerRekeysChild \/ PeerRekeysIke
             \/ UNCHANGED vars
      PROVE  UNCHANGED <<made, msgID, delivered>>
  BY <1>5 DEF PeerReplies, PeerRekeysChild, PeerRekeysIke, vars, window
<1> QED BY <1>1, <1>2, <1>3, <1>4, <1>5, Zenon DEF Next, TaskStep

(* Who changes the session's numbers and keys, and what the peer has.      *)
LEMMA SessionFrame ==
  ASSUME [Next]_vars
  PROVE  /\ (\E t \in Tasks : TakeNumber(t) \/ SendNotice(t)) \/ header' = header
         /\ (\E t \in Tasks : TakeNumber(t) \/ SendNotice(t) \/ ResetSequence(t)) \/ UNCHANGED <<seq, raced>>
         /\ (\E t \in Tasks : SwitchIkeSA(t)) \/ ikeSA' = ikeSA
         /\ (\E t \in Tasks : AdoptChildSA(t)) \/ childSA' \in {childSA, PeerSA}
         /\ (\E r \in Requests : PeerReplies(r)) \/ UNCHANGED <<reply, peerSAs>>
<1>1. ASSUME NEW t \in Tasks,
             \/ \E kind \in Kinds : Call(t, kind)
             \/ LockRekey(t) \/ Register(t) \/ FailCall(t) \/ ProbeEnds(t) \/ RejectAnswer(t)
             \/ AcceptIkeSA(t)
      PROVE  UNCHANGED <<header, seq, raced, ikeSA, childSA, reply, peerSAs>>
  BY <1>1 DEF Call, LockRekey, Register, FailCall, ProbeEnds, RejectAnswer, AcceptIkeSA,
              session, peer
<1>2. ASSUME NEW t \in Tasks, TakeNumber(t) \/ SendNotice(t)
      PROVE  UNCHANGED <<ikeSA, childSA, reply, peerSAs>>
  BY <1>2 DEF TakeNumber, SendNotice, peer
<1>3. ASSUME NEW t \in Tasks, ResetSequence(t)
      PROVE  UNCHANGED <<header, ikeSA, childSA, reply, peerSAs>>
  BY <1>3 DEF ResetSequence, peer
<1>4. ASSUME NEW t \in Tasks, SwitchIkeSA(t)
      PROVE  UNCHANGED <<header, seq, raced, childSA, reply, peerSAs>>
  BY <1>4 DEF SwitchIkeSA, peer
<1>5. ASSUME NEW t \in Tasks, AdoptChildSA(t)
      PROVE  UNCHANGED <<header, seq, raced, ikeSA, reply, peerSAs>>
  BY <1>5 DEF AdoptChildSA, peer
<1>6. ASSUME NEW r \in Requests, PeerReplies(r)
      PROVE  UNCHANGED <<header, seq, raced, ikeSA, childSA>>
  BY <1>6 DEF PeerReplies, session
<1>7. ASSUME \/ \E r \in Requests : DispatchResponse(r)
             \/ \E late \in SUBSET pending : Alone(CheckTimeouts(late))
             \/ Alone(Cancel) \/ Alone(EndLoop) \/ UNCHANGED vars
      PROVE  UNCHANGED <<header, seq, raced, ikeSA, childSA, reply, peerSAs>>
  BY <1>7 DEF DispatchResponse, Alone, session, peer, vars
<1>8. ASSUME PeerRekeysChild \/ PeerRekeysIke
      PROVE  /\ UNCHANGED <<header, seq, raced, ikeSA, reply, peerSAs>>
             /\ childSA' \in {childSA, PeerSA}
  BY <1>8 DEF PeerRekeysChild, PeerRekeysIke, peer
<1> QED BY <1>1, <1>2, <1>3, <1>4, <1>5, <1>6, <1>7, <1>8, Zenon DEF Next, TaskStep

LEMMA PlaceInit == Init => PlaceInv
<1>1. Init => ikeSA.asked = <<>>
  BY DEF Init, FirstSA, SA
<1> SUFFICES ASSUME Init, NEW t \in Tasks PROVE PlaceOf(t)
  BY <1>1 DEF PlaceInv
<1>2. <<t, 1>> \in Requests /\ <<t, 2>> \in Requests
  BY ControlAssumption
<1> QED BY <1>2 DEF Init, WindowInit, PlaceOf, MayOwn, Rekeys, Kind, Stamped

LEMMA PlaceStep ==
  ASSUME TaskTypes, TaskTypes', Headers, PlaceInv, [Next]_vars
  PROVE  PlaceInv'
<1>00. (ikeSA.asked \in {<<>>} \cup Requests)'
  <2>1. ASSUME NEW t \in Tasks, SwitchIkeSA(t)
        PROVE  ikeSA'.asked = <<t, 1>>
    BY <2>1 DEF SwitchIkeSA, SA
  <2>2. \A t \in Tasks : <<t, 1>> \in Requests
    BY ControlAssumption
  <2> QED BY <2>1, <2>2, SessionFrame DEF PlaceInv
<1> SUFFICES ASSUME NEW v \in Tasks PROVE PlaceOf(v)'
  BY <1>00 DEF PlaceInv
<1>0. /\ PlaceOf(v)
      /\ <<v, 1>> \in Requests /\ <<v, 2>> \in Requests
      /\ Request(v) \in {<<v, 1>>, <<v, 2>>} /\ Request(v) = <<v, task[v].step>>
      /\ v # Nobody /\ v # Dispatcher
  BY ControlAssumption DEF PlaceInv, TaskTypes, TaskStates, Request
<1>1. ASSUME NEW t \in Tasks, NEW kind \in Kinds, Call(t, kind)
      PROVE  PlaceOf(v)'
  <2>1. /\ task'[t].kind = kind /\ task'[t].pc \in {"number", "lock"} /\ task'[t].step = task[t].step
        /\ kind # "dpd" => task'[t].pc = "lock"
        /\ \A u \in Tasks \ {t} : task'[u] = task[u]
    BY <1>1 DEF Call, TaskTypes, TaskStates
  <2>2. UNCHANGED <<made, header, rekeyMu>> /\ task[t].pc = "idle"
    BY <1>1 DEF Call, window, session, At
  <2>3. CASE v = t
    BY <1>0, <2>1, <2>2, <2>3 DEF PlaceOf, MayOwn, Rekeys, Kind, Stamped, Kinds
  <2> QED BY <1>0, <2>1, <2>2, <2>3, OthersStay
<1>2. ASSUME NEW t \in Tasks, LockRekey(t)
      PROVE  PlaceOf(v)'
  <2>1. /\ task'[t].pc \in {"number", "returned"} /\ task'[t].kind = task[t].kind
        /\ task'[t].step = task[t].step
        /\ \A u \in Tasks \ {t} : task'[u] = task[u]
        /\ task'[t].pc = "number" => rekeyMu' = t
        /\ rekeyMu = Nobody /\ task[t].pc = "lock"
    BY <1>2, Goes DEF LockRekey, Return, At
  <2>2. UNCHANGED <<made, header>>
    BY <1>2 DEF LockRekey, window
  <2>3. CASE v = t
    BY <1>0, <2>1, <2>2, <2>3 DEF PlaceOf, MayOwn, Rekeys, Kind, Stamped
  <2> QED BY <1>0, <2>1, <2>2, <2>3, OthersStay
<1>3. ASSUME NEW t \in Tasks, TakeNumber(t) \/ SendNotice(t)
      PROVE  PlaceOf(v)'
  <2>1. /\ task'[t].kind = task[t].kind /\ task'[t].step = task[t].step
        /\ \A u \in Tasks \ {t} : task'[u] = task[u]
        /\ \/ task[t].pc = "number" /\ task'[t].pc = "register" /\ rekeyMu' = rekeyMu
           \/ /\ task[t].pc = "notice" /\ task'[t].pc = "returned"
              /\ rekeyMu' = IF rekeyMu = t THEN Nobody ELSE rekeyMu
    BY <1>3, Goes DEF TakeNumber, SendNotice, Return, At
  <2>2. /\ header'[Request(t)] # NoHeader
        /\ \A r \in Requests \ {Request(t)} : header'[r] = header[r]
        /\ Request(t) = <<t, task[t].step>>
    BY <1>3, Stamps DEF TakeNumber, SendNotice, Request
  <2>3. made' = made
    BY <1>3 DEF TakeNumber, SendNotice, window
  <2>4. CASE v = t
    <3>1. task[v].step \in {1, 2}
      BY DEF TaskTypes, TaskStates
    <3>2. CASE task[v].step = 1
      <4>1. header'[<<v, 1>>] # NoHeader /\ header'[<<v, 2>>] = header[<<v, 2>>]
        BY <1>0, <2>2, <2>4, <3>2
      <4> QED BY <1>0, <2>1, <2>3, <2>4, <3>2, <4>1
              DEF PlaceOf, MayOwn, Rekeys, Kind, Stamped, NoHeader, Request
    <3>3. CASE task[v].step = 2
      <4>1. header'[<<v, 2>>] # NoHeader /\ header'[<<v, 1>>] = header[<<v, 1>>]
        BY <1>0, <2>2, <2>4, <3>3
      <4> QED BY <1>0, <2>1, <2>3, <2>4, <3>3, <4>1
              DEF PlaceOf, MayOwn, Rekeys, Kind, Stamped, NoHeader, Request
    <3> QED BY <3>1, <3>2, <3>3
  <2>5. CASE v # t
    <3>1. header'[<<v, 1>>] = header[<<v, 1>>] /\ header'[<<v, 2>>] = header[<<v, 2>>]
      BY <1>0, <2>2, <2>5
    <3> QED BY <1>0, <2>1, <2>3, <2>5, <3>1, OthersStay
  <2> QED BY <2>4, <2>5
<1>4. ASSUME NEW t \in Tasks, Register(t)
      PROVE  PlaceOf(v)'
  <2>1. /\ task'[t].pc = "wait" /\ task'[t].kind = task[t].kind /\ task'[t].step = task[t].step
        /\ \A u \in Tasks \ {t} : task'[u] = task[u]
        /\ task[t].pc = "register"
    BY <1>4, Goes DEF Register, At
  <2>2. made' = made \cup {Request(t)} /\ UNCHANGED <<header, rekeyMu>>
        /\ Request(t) = <<t, task[t].step>>
    BY <1>4 DEF Register, EnqueueRequest, session, Request
  <2>3. CASE v = t
    BY <1>0, <2>1, <2>2, <2>3 DEF PlaceOf, MayOwn, Rekeys, Kind, Stamped, NoHeader, Request
  <2>4. CASE v # t
    <3>1. <<v, 1>> # Request(t) /\ <<v, 2>> # Request(t)
      BY <2>2, <2>4
    <3> QED BY <1>0, <2>1, <2>2, <2>4, <3>1, OthersStay
  <2> QED BY <2>3, <2>4
<1>5. ASSUME NEW t \in Tasks,
             FailCall(t) \/ ProbeEnds(t) \/ RejectAnswer(t) \/ ResetSequence(t)
      PROVE  PlaceOf(v)'
  <2>1. /\ task'[t].pc = "returned" /\ task'[t].kind = task[t].kind /\ task'[t].step = task[t].step
        /\ \A u \in Tasks \ {t} : task'[u] = task[u]
        /\ rekeyMu' = IF rekeyMu = t THEN Nobody ELSE rekeyMu
    BY <1>5, Goes DEF FailCall, ProbeEnds, RejectAnswer, ResetSequence, Return
  <2>2. UNCHANGED <<made, header>>
    BY <1>5 DEF FailCall, ProbeEnds, RejectAnswer, ResetSequence, Cancel, window
  <2>3. task[t].pc \in {"wait", "reset"}
    BY <1>5 DEF FailCall, ProbeEnds, RejectAnswer, ResetSequence, At, Unanswered, Answered
  <2>4. CASE v = t
    BY <1>0, <2>1, <2>2, <2>3, <2>4 DEF PlaceOf, MayOwn, Rekeys, Kind, Stamped, NoHeader, Request
  <2> QED BY <1>0, <2>1, <2>2, <2>4, OthersStay
<1>6. ASSUME NEW t \in Tasks, AdoptChildSA(t) \/ AcceptIkeSA(t)
      PROVE  PlaceOf(v)'
  <2>1. /\ task'[t].kind = task[t].kind /\ task'[t].step = 2
        /\ \A u \in Tasks \ {t} : task'[u] = task[u]
        /\ \/ Kind(t) = "childRekey" /\ task'[t].pc = "notice"
           \/ Kind(t) = "ikeRekey" /\ task'[t].pc = "number" /\ task[t].step = 1
        /\ task[t].pc = "wait"
    BY <1>6 DEF AdoptChildSA, AcceptIkeSA, Answered, At, TaskTypes, TaskStates
  <2>2. UNCHANGED <<made, header, rekeyMu>>
    BY <1>6 DEF AdoptChildSA, AcceptIkeSA, window, session
  <2>3. CASE v = t
    <3>1. task[v].step = 1 /\ MayOwn(v)
      BY <1>0, <2>1, <2>3 DEF PlaceOf, Kind, MayOwn, Rekeys, TaskTypes, TaskStates
    <3> QED BY <1>0, <2>1, <2>2, <2>3, <3>1
            DEF PlaceOf, MayOwn, Rekeys, Kind, Stamped, NoHeader, Request
  <2> QED BY <1>0, <2>1, <2>2, <2>3, OthersStay
<1>7. ASSUME NEW t \in Tasks, SwitchIkeSA(t)
      PROVE  PlaceOf(v)'
  <2>1. /\ task'[t].pc = "reset" /\ task'[t].kind = task[t].kind /\ task'[t].step = task[t].step
        /\ \A u \in Tasks \ {t} : task'[u] = task[u]
        /\ task[t].pc = "wait" /\ task[t].step = 2
    BY <1>7, Goes DEF SwitchIkeSA, At, Unanswered, Answered
  <2>2. UNCHANGED <<made, header, rekeyMu>>
    BY <1>7 DEF SwitchIkeSA, window
  <2>3. CASE v = t
    BY <1>0, <2>1, <2>2, <2>3 DEF PlaceOf, MayOwn, Rekeys, Kind, Stamped, NoHeader, Request
  <2> QED BY <1>0, <2>1, <2>2, <2>3, OthersStay
<1>8. ASSUME UNCHANGED <<task, made, header>>, rekeyMu' = rekeyMu \/ rekeyMu = Nobody
      PROVE  PlaceOf(v)'
  BY <1>0, <1>8, OthersStay
<1>9. ASSUME \/ \E r \in Requests : PeerReplies(r) \/ DispatchResponse(r)
             \/ \E late \in SUBSET pending : Alone(CheckTimeouts(late))
             \/ Alone(Cancel) \/ Alone(EndLoop)
             \/ PeerRekeysChild \/ PeerRekeysIke \/ UNCHANGED vars
      PROVE  PlaceOf(v)'
  <2>1. UNCHANGED <<task, header>> /\ (rekeyMu' = rekeyMu \/ rekeyMu = Nobody)
    BY <1>9 DEF PeerReplies, DispatchResponse, Alone, PeerRekeysChild, PeerRekeysIke, vars, session
  <2>2. made' = made
    BY <1>9 DEF PeerReplies, DispatchResponse, HandleResponse, Alone, CheckTimeouts, Cancel, EndLoop,
                PeerRekeysChild, PeerRekeysIke, vars, window
  <2> QED BY <1>8, <2>1, <2>2
<1> QED BY <1>1, <1>2, <1>3, <1>4, <1>5, <1>6, <1>7, <1>9 DEF Next, TaskStep

(* A task is moved by itself alone.                                        *)
LEMMA TaskFrame ==
  ASSUME TaskTypes, [Next]_vars, NEW u \in Tasks
  PROVE  \/ task'[u] = task[u]
         \/ (\E kind \in Kinds : Call(u, kind)) \/ LockRekey(u) \/ TaskStep(u)
<1>1. ASSUME NEW t \in Tasks, t # u,
             (\E kind \in Kinds : Call(t, kind)) \/ LockRekey(t) \/ TaskStep(t)
      PROVE  task'[u] = task[u]
  <2>1. ASSUME NEW kind \in Kinds, Call(t, kind)
        PROVE  task'[u] = task[u]
    BY <1>1, <2>1 DEF Call, TaskTypes, TaskStates
  <2>2. CASE AdoptChildSA(t) \/ AcceptIkeSA(t)
    BY <1>1, <2>2 DEF AdoptChildSA, AcceptIkeSA, TaskTypes, TaskStates
  <2>3. ASSUME NEW pc, Goto(t, pc)
        PROVE  task'[u] = task[u]
    BY <1>1, <2>3, Goes
  <2>4. CASE LockRekey(t) \/ TakeNumber(t) \/ Register(t) \/ SwitchIkeSA(t)
    BY <2>3, <2>4 DEF LockRekey, TakeNumber, Register, SwitchIkeSA, Return
  <2>5. CASE FailCall(t) \/ ProbeEnds(t) \/ RejectAnswer(t) \/ SendNotice(t) \/ ResetSequence(t)
    BY <2>3, <2>5 DEF FailCall, ProbeEnds, RejectAnswer, SendNotice, ResetSequence, Return
  <2> QED BY <1>1, <2>1, <2>2, <2>4, <2>5 DEF TaskStep
<1>2. ASSUME \/ \E r \in Requests : PeerReplies(r) \/ DispatchResponse(r)
             \/ \E late \in SUBSET pending : Alone(CheckTimeouts(late))
             \/ Alone(Cancel) \/ Alone(EndLoop)
             \/ PeerRekeysChild \/ PeerRekeysIke \/ UNCHANGED vars
      PROVE  task' = task
  BY <1>2 DEF PeerReplies, DispatchResponse, Alone, PeerRekeysChild, PeerRekeysIke, vars
<1> QED BY <1>1, <1>2 DEF Next

(* The steps of a task, one by one: where it was and where it is then.     *)
LEMMA TaskSteps ==
  ASSUME TaskTypes, [Next]_vars, NEW u \in Tasks
  PROVE  \/ task'[u] = task[u]
         \/ /\ At(u, "idle") /\ task'[u].step = task[u].step
            /\ task'[u].pc \in {"number", "lock"} /\ task'[u].kind \in Kinds
         \/ /\ task'[u].kind = task[u].kind /\ task'[u].step = task[u].step
            /\ \/ At(u, "lock") /\ task'[u].pc \in {"number", "returned"}
               \/ TakeNumber(u) /\ At(u, "number") /\ task'[u].pc = "register"
               \/ Register(u) /\ At(u, "register") /\ task'[u].pc = "wait"
               \/ /\ At(u, "wait") /\ task'[u].pc = "returned"
                  /\ task[u].step = 1 \/ ~ Rekeys(u)
               \/ At(u, "notice") /\ task'[u].pc = "returned"
               \/ SwitchIkeSA(u) /\ At(u, "wait") /\ task[u].step = 2 /\ task'[u].pc = "reset"
               \/ ResetSequence(u) /\ At(u, "reset") /\ task'[u].pc = "returned"
         \/ /\ task'[u].kind = task[u].kind /\ task'[u].step = 2 /\ At(u, "wait")
            /\ \/ AdoptChildSA(u) /\ Kind(u) = "childRekey" /\ task'[u].pc = "notice"
               \/ AcceptIkeSA(u) /\ Kind(u) = "ikeRekey" /\ task[u].step = 1 /\ task'[u].pc = "number"
<1>1. ASSUME NEW kind \in Kinds, Call(u, kind)
      PROVE  /\ At(u, "idle") /\ task'[u].step = task[u].step
             /\ task'[u].pc \in {"number", "lock"} /\ task'[u].kind \in Kinds
  BY <1>1 DEF Call, TaskTypes, TaskStates
<1>2. ASSUME AdoptChildSA(u) \/ AcceptIkeSA(u)
      PROVE  /\ task'[u].kind = task[u].kind /\ task'[u].step = 2 /\ At(u, "wait")
             /\ \/ AdoptChildSA(u) /\ Kind(u) = "childRekey" /\ task'[u].pc = "notice"
                \/ AcceptIkeSA(u) /\ Kind(u) = "ikeRekey" /\ task[u].step = 1 /\ task'[u].pc = "number"
  BY <1>2 DEF AdoptChildSA, AcceptIkeSA, Answered, At, TaskTypes, TaskStates
<1>3. ASSUME LockRekey(u) \/ TakeNumber(u) \/ Register(u) \/ SwitchIkeSA(u)
      PROVE  /\ task'[u].kind = task[u].kind /\ task'[u].step = task[u].step
             /\ \/ At(u, "lock") /\ task'[u].pc \in {"number", "returned"}
                \/ TakeNumber(u) /\ At(u, "number") /\ task'[u].pc = "register"
                \/ Register(u) /\ At(u, "register") /\ task'[u].pc = "wait"
                \/ SwitchIkeSA(u) /\ At(u, "wait") /\ task[u].step = 2 /\ task'[u].pc = "reset"
  BY <1>3, Goes DEF LockRekey, TakeNumber, Register, SwitchIkeSA, Return, Unanswered, Answered
<1>4. ASSUME FailCall(u) \/ ProbeEnds(u) \/ RejectAnswer(u) \/ SendNotice(u) \/ ResetSequence(u)
      PROVE  /\ task'[u].kind = task[u].kind /\ task'[u].step = task[u].step
             /\ task'[u].pc = "returned"
             /\ \/ At(u, "wait") /\ (task[u].step = 1 \/ ~ Rekeys(u))
                \/ At(u, "notice")
                \/ ResetSequence(u) /\ At(u, "reset")
  BY <1>4, Goes DEF FailCall, ProbeEnds, RejectAnswer, SendNotice, ResetSequence, Return,
                    Unanswered, Answered
<1> QED BY <1>1, <1>2, <1>3, <1>4, TaskFrame DEF TaskStep

(* The kind of a task is fixed by its call, and its second request stays   *)
(* the second.                                                             *)
LEMMA TasksStay ==
  ASSUME TaskTypes, PlaceInv, [Next]_vars, NEW u \in Tasks
  PROVE  /\ ~ At(u, "idle") => task'[u].kind = task[u].kind /\ task'[u].pc # "idle"
         /\ task[u].step = 2 => task'[u].step = 2
         /\ Switched(u) => Switched(u)'
         /\ Stamped(<<u, 1>>) \/ Stamped(<<u, 2>>) => ~ At(u, "idle")
BY TaskSteps DEF PlaceInv, PlaceOf, At, Switched, Kind, TaskTypes, TaskStates

(* A packet is stamped once.                                               *)
LEMMA StampsStay ==
  ASSUME TaskTypes, Headers, PlaceInv, [Next]_vars, NEW r \in Requests
  PROVE  \/ header'[r] = header[r]
         \/ /\ ~ Stamped(r) /\ header'[r] = [id |-> seq, sa |-> ikeSA] /\ Stamped(r)'
            /\ \E t \in Tasks : r = Request(t) /\ (TakeNumber(t) \/ SendNotice(t))
<1>1. ASSUME NEW t \in Tasks, TakeNumber(t) \/ SendNotice(t), header'[r] # header[r]
      PROVE  /\ ~ Stamped(r) /\ header'[r] = [id |-> seq, sa |-> ikeSA] /\ Stamped(r)'
             /\ r = Request(t)
  <2>1. /\ header'[Request(t)] = [id |-> seq, sa |-> ikeSA]
        /\ \A q \in Requests \ {Request(t)} : header'[q] = header[q]
        /\ header'[Request(t)] # NoHeader
    BY <1>1, Stamps DEF TakeNumber, SendNotice
  <2>2. r = Request(t)
    BY <1>1, <2>1
  <2>3. ~ Stamped(r)
    <3>1. PlaceOf(t) /\ task[t].pc \in {"number", "notice"} /\ task[t].step \in {1, 2}
      BY <1>1 DEF PlaceInv, TakeNumber, SendNotice, At, TaskTypes, TaskStates
    <3>2. \/ r = <<t, 1>> /\ task[t].step = 1
          \/ r = <<t, 2>> /\ task[t].step = 2
      BY <2>2, <3>1 DEF Request
    <3> QED BY <3>1, <3>2 DEF PlaceOf
  <2> QED BY <2>1, <2>2, <2>3 DEF Stamped, NoHeader
<1> QED BY <1>1, SessionFrame

-----------------------------------------------------------------------------
(* Message IDs are not used up: every number taken is in some header.      *)
CountInv == seq <= FirstID + Cardinality({r \in Requests : Stamped(r)})

LEMMA Numbers ==
  ASSUME NEW n \in MsgIDs
  PROVE  /\ n < MaxMsgID => Succ(n) = n + 1
         /\ n > 0 => LastID(n) = n - 1
BY WindowAssumption DEF MsgIDs, Succ, LastID, Pred

LEMMA CountInit == Init => CountInv
<1> SUFFICES ASSUME Init PROVE CountInv
  OBVIOUS
<1>1. \A r \in Requests : ~ Stamped(r)
  BY DEF Init, Stamped
<1>2. {r \in Requests : Stamped(r)} = {}
  BY <1>1
<1> HIDE DEF Init
<1>3. Cardinality({r \in Requests : Stamped(r)}) = 0
  BY <1>2, FS_EmptySet
<1>4. seq = FirstID /\ FirstID \in Nat
  BY ControlAssumption DEF Init, MsgIDs
<1> QED BY <1>3, <1>4 DEF CountInv

(* The number a task takes is not the last.                                *)
LEMMA NumbersLeft ==
  ASSUME TaskTypes, Headers, PlaceInv, CountInv, [Next]_vars,
         NEW t \in Tasks, TakeNumber(t) \/ SendNotice(t)
  PROVE  /\ seq \in Nat /\ seq' = seq + 1
         /\ seq' <= FirstID + Cardinality({r \in Requests : Stamped(r)}')
<1> DEFINE used == {r \in Requests : Stamped(r)}
           next == {r \in Requests : header'[r] # NoHeader}
<1>1. /\ Request(t) \in Requests /\ Request(t) \notin used /\ Request(t) \in next
      /\ used \subseteq next
  <2>1. /\ header'[Request(t)] # NoHeader /\ Request(t) \in Requests
        /\ \A r \in Requests \ {Request(t)} : header'[r] = header[r]
    BY Stamps DEF TakeNumber, SendNotice
  <2>2. ~ Stamped(Request(t))
    <3>1. PlaceOf(t) /\ task[t].pc \in {"number", "notice"} /\ task[t].step \in {1, 2}
      BY DEF PlaceInv, TakeNumber, SendNotice, At, TaskTypes, TaskStates
    <3>2. \/ Request(t) = <<t, 1>> /\ task[t].step = 1
          \/ Request(t) = <<t, 2>> /\ task[t].step = 2
      BY <3>1 DEF Request
    <3> QED BY <3>1, <3>2 DEF PlaceOf
  <2> QED BY <2>1, <2>2 DEF Stamped
<1>2. /\ IsFiniteSet(used) /\ IsFiniteSet(next)
      /\ Cardinality(used) \in Nat /\ Cardinality(next) \in Nat
      /\ Cardinality(next) <= Cardinality(Requests) /\ Cardinality(Requests) \in Nat
  <2>1. used \subseteq Requests /\ next \subseteq Requests
    OBVIOUS
  <2> HIDE DEF used, next
  <2> QED BY <2>1, NumbersAssumption, FS_Subset, FS_CardinalityType
<1>3. Cardinality(used) + 1 <= Cardinality(next)
  <2>1. used \cup {Request(t)} \subseteq next
    BY <1>1
  <2> HIDE DEF used, next
  <2>2. Cardinality(used \cup {Request(t)}) = Cardinality(used) + 1
    BY <1>1, <1>2, FS_AddElement
  <2> QED BY <1>2, <2>1, <2>2, FS_Subset
<1>4. next = {r \in Requests : Stamped(r)}'
  BY DEF Stamped, NoHeader
<1>5. seq \in Nat /\ FirstID \in Nat /\ MaxMsgID \in Nat /\ seq <= FirstID + Cardinality(used)
  BY ControlAssumption, WindowAssumption DEF CountInv, TaskTypes, MsgIDs
<1> HIDE DEF used, next
<1>6. seq < MaxMsgID
  BY <1>2, <1>3, <1>5, NumbersAssumption
<1>7. seq' = seq + 1
  BY <1>6, Numbers DEF TakeNumber, SendNotice, TaskTypes
<1> QED BY <1>2, <1>3, <1>4, <1>5, <1>7

LEMMA CountStep ==
  ASSUME TaskTypes, Headers, PlaceInv, CountInv, [Next]_vars
  PROVE  CountInv'
<1>1. CASE \E t \in Tasks : TakeNumber(t) \/ SendNotice(t)
  BY <1>1, NumbersLeft DEF CountInv
<1>2. CASE UNCHANGED <<header, seq>>
  BY <1>2 DEF CountInv, Stamped, NoHeader
<1>3. ASSUME NEW t \in Tasks, ResetSequence(t)
      PROVE  CountInv'
  <2>1. {r \in Requests : Stamped(r)}' \subseteq Requests
    OBVIOUS
  <2>2. Cardinality({r \in Requests : Stamped(r)}') \in Nat
    BY <2>1, NumbersAssumption, FS_Subset, FS_CardinalityType
  <2>3. seq' = 0 /\ FirstID \in Nat
    BY <1>3, ControlAssumption DEF ResetSequence, MsgIDs
  <2> QED BY <2>2, <2>3 DEF CountInv
<1> QED BY <1>1, <1>2, <1>3, SessionFrame DEF ResetSequence

-----------------------------------------------------------------------------
(* An SA is named by a request whose task has switched to it.              *)
FreshInv ==
  \A t \in Tasks : \A sa \in {ikeSA} \cup {header[r].sa : r \in Requests} :
    sa.asked = <<t, 1>> => Switched(t)

LEMMA FreshInit == Init => FreshInv
<1> SUFFICES ASSUME Init, NEW t \in Tasks, NEW sa \in {ikeSA} \cup {header[r].sa : r \in Requests}
             PROVE  sa.asked # <<t, 1>>
  BY DEF FreshInv
<1>1. sa = FirstSA \/ sa = NoHeader.sa
  BY DEF Init
<1>2. sa.asked = <<>> \/ sa.asked = <<"none">>
  BY <1>1 DEF FirstSA, NoHeader, SA
<1>3. <<t, 1>> # <<>> /\ <<t, 1>> # <<"none">>
  OBVIOUS
<1> QED BY <1>2, <1>3, Zenon

LEMMA FreshStep ==
  ASSUME TaskTypes, TaskTypes', Headers, PlaceInv, FreshInv, [Next]_vars
  PROVE  FreshInv'
<1> SUFFICES ASSUME NEW t \in Tasks,
                    NEW sa \in {ikeSA'} \cup {header'[r].sa : r \in Requests},
                    sa.asked = <<t, 1>>
             PROVE  Switched(t)'
  BY DEF FreshInv
<1>1. sa \in {ikeSA} \cup {header[r].sa : r \in Requests} \/ sa = ikeSA'
  BY StampsStay
<1>2. CASE sa \in {ikeSA} \cup {header[r].sa : r \in Requests}
  BY <1>2, TasksStay DEF FreshInv
<1>3. ASSUME NEW u \in Tasks, SwitchIkeSA(u), sa = ikeSA'
      PROVE  Switched(t)'
  <2>1. u = t
    BY <1>3 DEF SwitchIkeSA, SA
  <2>2. task[t].step = 2 /\ task'[t].pc = "reset" /\ task'[t].step = 2
        /\ task'[t].kind = task[t].kind /\ At(t, "wait")
    BY <1>3, <2>1, Goes DEF SwitchIkeSA, Unanswered, Answered
  <2> QED BY <2>2 DEF PlaceInv, PlaceOf, At, Switched, Kind
<1> QED BY <1>1, <1>2, <1>3, SessionFrame

(* The SA that a rekey switches to is in nobody's header.                  *)
LEMMA SwitchIsFresh ==
  ASSUME FreshInv, NEW t \in Tasks, SwitchIkeSA(t)
  PROVE  /\ ikeSA # ikeSA' /\ \A r \in Requests : header[r].sa # ikeSA'
         /\ At(t, "wait") /\ task[t].step = 2
<1>1. ikeSA'.asked = <<t, 1>> /\ At(t, "wait") /\ task[t].step = 2
  BY DEF SwitchIkeSA, SA, Unanswered, Answered
<1>2. ~ Switched(t)
  BY <1>1 DEF Switched, At
<1> QED BY <1>1, <1>2 DEF FreshInv

-----------------------------------------------------------------------------
(* Responses are delivered to the message of their ID.                     *)
AnswerInv ==
  /\ DOMAIN reply = Requests
  /\ \A r \in Requests : reply[r] # "none" => Stamped(r)
  /\ \A r \in Requests : delivered[r] # <<>> =>
       /\ Answer(r) \in Requests /\ Stamped(Answer(r))
       /\ r \in made /\ header[Answer(r)].id = msgID[r]

LEMMA AnswerInit == Init => AnswerInv
BY DEF Init, WindowInit, AnswerInv

(* What was delivered stays; what is delivered now answers by its ID.      *)
LEMMA AnswersStay ==
  ASSUME Inv, [Next]_vars, NEW r \in Requests
  PROVE  \/ delivered'[r] = delivered[r]
         \/ /\ delivered[r] = <<>> /\ r \in made
            /\ \E a \in Requests : /\ DispatchResponse(a) /\ delivered'[r] = <<a>>
                                   /\ msgID[r] = header[a].id
<1>1. ASSUME NEW a \in Requests, DispatchResponse(a), delivered'[r] # delivered[r]
      PROVE  /\ delivered[r] = <<>> /\ r \in made
             /\ delivered'[r] = <<a>> /\ msgID[r] = header[a].id
  <2>1. PICK q \in Under(header[a].id) : delivered' = [delivered EXCEPT ![q] = Append(@, a)]
    BY <1>1 DEF DispatchResponse, HandleResponse, window
  <2>2. q \in pending /\ msgID[q] = header[a].id
    BY <2>1 DEF Under
  <2>3. q \in made /\ q \in Requests /\ delivered[q] = <<>>
    BY <2>2, OpenMessages DEF Inv, TypesInv
  <2>4. /\ delivered'[q] = Append(<<>>, a)
        /\ \A s \in Requests \ {q} : delivered'[s] = delivered[s]
    BY <2>1, <2>3 DEF Inv, TypesInv, WindowTypes
  <2>5. r = q
    BY <1>1, <2>4
  <2>6. Append(<<>>, a) = <<a>>
    OBVIOUS
  <2> QED BY <2>2, <2>3, <2>4, <2>5, <2>6
<1> QED BY <1>1, WindowFrame

LEMMA AnswerStep ==
  ASSUME TaskTypes, Headers, Inv, PlaceInv, AnswerInv, [Next]_vars
  PROVE  AnswerInv'
<1>1. ASSUME NEW r \in Requests, Stamped(r)
      PROVE  header'[r] = header[r] /\ Stamped(r)'
  BY <1>1, StampsStay DEF Stamped, NoHeader
<1>2. ASSUME NEW r \in Requests, reply'[r] # "none"
      PROVE  Stamped(r)'
  <2>1. CASE reply[r] # "none"
    BY <1>1, <2>1 DEF AnswerInv
  <2>2. ASSUME NEW q \in Requests, PeerReplies(q), reply[r] = "none"
        PROVE  Stamped(r)'
    <3>1. \E x : reply' = [reply EXCEPT ![q] = x]
      BY <2>2 DEF PeerReplies
    <3>2. r = q
      BY <1>2, <2>2, <3>1
    <3> QED BY <1>1, <2>2, <3>2 DEF PeerReplies, OnWire, Stamped
  <2> QED BY <1>2, <2>1, <2>2, SessionFrame
<1>3. ASSUME NEW r \in Requests, r \in made
      PROVE  r \in made' /\ msgID'[r] = msgID[r]
  <2>1. ASSUME NEW t \in Tasks, Register(t)
        PROVE  r \in made' /\ msgID'[r] = msgID[r]
    <3>1. /\ Request(t) \notin made /\ made' = made \cup {Request(t)}
          /\ msgID' = [msgID EXCEPT ![Request(t)] = LastID(seq)]
      BY <2>1 DEF Register, EnqueueRequest
    <3> QED BY <1>3, <3>1 DEF Inv, TypesInv, WindowTypes
  <2> QED BY <1>3, <2>1, WindowFrame
<1>4. ASSUME NEW r \in Requests, delivered'[r] # <<>>
      PROVE  /\ Answer(r)' \in Requests /\ Stamped(Answer(r))'
             /\ r \in made' /\ header'[Answer(r)'] = header[Answer(r)'] /\ header[Answer(r)'].id = msgID'[r]
  <2>1. CASE delivered'[r] = delivered[r]
    <3>1. Answer(r)' = Answer(r)
      BY <2>1 DEF Answer
    <3>2. /\ Answer(r) \in Requests /\ Stamped(Answer(r))
          /\ r \in made /\ header[Answer(r)].id = msgID[r]
      BY <1>4, <2>1 DEF AnswerInv
    <3> QED BY <1>1, <1>3, <3>1, <3>2 DEF Stamped, NoHeader
  <2>2. ASSUME NEW a \in Requests, DispatchResponse(a), delivered'[r] = <<a>>,
               msgID[r] = header[a].id, r \in made
        PROVE  /\ Answer(r)' \in Requests /\ Stamped(Answer(r))'
               /\ r \in made' /\ header'[Answer(r)'] = header[Answer(r)'] /\ header[Answer(r)'].id = msgID'[r]
    <3>1. Answer(r)' = a
      BY <2>2 DEF Answer
    <3>2. Stamped(a)
      BY <2>2 DEF DispatchResponse, AnswerInv
    <3> QED BY <1>1, <1>3, <2>2, <3>1, <3>2 DEF Stamped, NoHeader
  <2> QED BY <2>1, <2>2, AnswersStay
<1>5. DOMAIN reply' = Requests
  <2>1. ASSUME NEW q \in Requests, PeerReplies(q)
        PROVE  DOMAIN reply' = DOMAIN reply
    BY <2>1 DEF PeerReplies
  <2> QED BY <2>1, SessionFrame DEF AnswerInv
<1> QED BY <1>2, <1>4, <1>5 DEF AnswerInv

-----------------------------------------------------------------------------
(* The numbers of rekeys under one SA: each is below the next to be taken, *)
(* and that of the rekey under way is above all others and not above the   *)
(* ID its message is kept under, whatever other senders did in between.    *)
Rekeyed(u) == Rekeys(u) /\ Stamped(<<u, 1>>) /\ header[<<u, 1>>].sa = ikeSA

Rekeying(t) == Rekeys(t) /\ task[t].step = 1 /\ task[t].pc \in {"register", "wait"}

RekeyInv ==
  /\ \A u \in Tasks :
       Rekeyed(u) => header[<<u, 1>>].id < seq /\ \A v \in Tasks : ~ At(v, "reset")
  /\ \A t \in Tasks : Rekeying(t) =>
       /\ header[<<t, 1>>].sa = ikeSA
       /\ \A u \in Tasks \ {t} : Rekeyed(u) => header[<<u, 1>>].id < header[<<t, 1>>].id
       /\ At(t, "wait") => header[<<t, 1>>].id <= msgID[<<t, 1>>]

LEMMA RekeyInit == Init => RekeyInv
<1> SUFFICES ASSUME Init, NEW t \in Tasks PROVE ~ Rekeyed(t) /\ ~ Rekeying(t)
  BY DEF RekeyInv
<1>1. <<t, 1>> \in Requests
  BY ControlAssumption
<1> QED BY <1>1 DEF Init, Rekeyed, Rekeying, Stamped

(* A rekey under way is alone.                                             *)
LEMMA OneRekey ==
  ASSUME PlaceInv, NEW t \in Tasks, NEW u \in Tasks, MayOwn(t), MayOwn(u)
  PROVE  t = u
BY DEF PlaceInv, PlaceOf

LEMMA SwitchersOwn ==
  ASSUME PlaceInv, TaskTypes, NEW v \in Tasks, At(v, "reset") \/ (At(v, "wait") /\ task[v].step = 2)
  PROVE  MayOwn(v) /\ Kind(v) = "ikeRekey" /\ task[v].step = 2
BY DEF PlaceInv, PlaceOf, At, MayOwn, Rekeys

(* Who is at the reset of the numbers has switched in this step or before. *)
LEMMA ResetsBefore ==
  ASSUME TaskTypes, [Next]_vars, NEW v \in Tasks, At(v, "reset")', ~ At(v, "reset")
  PROVE  SwitchIkeSA(v)
BY TaskSteps DEF At

LEMMA RekeyedStep ==
  ASSUME TaskTypes, Headers, PlaceInv, PlaceInv', CountInv, FreshInv, RekeyInv, [Next]_vars,
         NEW u \in Tasks, Rekeyed(u)'
  PROVE  /\ header'[<<u, 1>>].id < seq' /\ \A v \in Tasks : ~ At(v, "reset")'
         /\ \/ Rekeyed(u) /\ header'[<<u, 1>>] = header[<<u, 1>>] /\ header[<<u, 1>>].id < seq
            \/ TakeNumber(u) /\ MayOwn(u) /\ task[u].step = 1 /\ header'[<<u, 1>>].id = seq
<1>0. <<u, 1>> \in Requests /\ header'[<<u, 1>>] # NoHeader /\ header'[<<u, 1>>].sa = ikeSA'
      /\ Rekeys(u)'
  BY ControlAssumption DEF Rekeyed, Stamped, NoHeader
<1>1. ASSUME NEW t \in Tasks, <<u, 1>> = Request(t), TakeNumber(t) \/ SendNotice(t),
             header'[<<u, 1>>] = [id |-> seq, sa |-> ikeSA]
      PROVE  /\ header'[<<u, 1>>].id < seq' /\ \A v \in Tasks : ~ At(v, "reset")'
             /\ TakeNumber(u) /\ MayOwn(u) /\ task[u].step = 1 /\ header'[<<u, 1>>].id = seq
  <2>1. t = u /\ task[u].step = 1
    BY <1>1 DEF Request
  <2>2. PlaceOf(u)
    BY DEF PlaceInv
  <2>3. TakeNumber(u) /\ At(u, "number")
    BY <1>1, <2>1, <2>2 DEF SendNotice, TakeNumber, At, PlaceOf
  <2>4. Rekeys(u)
    BY <1>0, <2>3, TasksStay DEF Rekeys, Kind, At
  <2>5. MayOwn(u)
    BY <2>3, <2>4 DEF MayOwn, At
  <2>6. \A v \in Tasks : ~ At(v, "reset")'
    <3> SUFFICES ASSUME NEW v \in Tasks, At(v, "reset")' PROVE FALSE
      OBVIOUS
    <3>1. CASE At(v, "reset")
      BY <2>3, <2>5, <3>1, SwitchersOwn, OneRekey DEF At
    <3>2. CASE SwitchIkeSA(v)
      BY <2>3, <2>5, <3>2, SwitchIsFresh, SwitchersOwn, OneRekey DEF At
    <3> QED BY <3>1, <3>2, ResetsBefore
  <2>7. seq \in Nat /\ seq' = seq + 1
    BY <2>3, NumbersLeft
  <2> QED BY <1>1, <2>1, <2>3, <2>5, <2>6, <2>7
<1>2. CASE header'[<<u, 1>>] = header[<<u, 1>>]
  <2>1. Stamped(<<u, 1>>) /\ Rekeys(u)
    BY <1>0, <1>2, TasksStay DEF Stamped, Rekeys, Kind
  <2>2. ikeSA' = ikeSA /\ \A v \in Tasks : ~ SwitchIkeSA(v)
    BY <1>0, <1>2, SessionFrame, SwitchIsFresh
  <2>3. Rekeyed(u) /\ header[<<u, 1>>].id < seq /\ \A v \in Tasks : ~ At(v, "reset")
    BY <1>0, <1>2, <2>1, <2>2 DEF Rekeyed, RekeyInv
  <2>4. \A v \in Tasks : ~ At(v, "reset")'
    BY <2>2, <2>3, ResetsBefore
  <2>5. seq' = seq \/ (seq \in Nat /\ seq' = seq + 1)
    BY <2>3, SessionFrame, NumbersLeft DEF ResetSequence
  <2>6. seq \in Nat /\ header[<<u, 1>>].id \in Nat
    BY <1>0, WindowAssumption DEF TaskTypes, Headers, MsgIDs
  <2> QED BY <1>2, <2>3, <2>4, <2>5, <2>6
<1> QED BY <1>0, <1>1, <1>2, StampsStay

LEMMA RekeyStep ==
  ASSUME TaskTypes, TaskTypes', Headers, Inv, PlaceInv, PlaceInv', CountInv, FreshInv, RekeyInv,
         [Next]_vars
  PROVE  RekeyInv'
<1>1. ASSUME NEW u \in Tasks, Rekeyed(u)'
      PROVE  header'[<<u, 1>>].id < seq' /\ \A v \in Tasks : ~ At(v, "reset")'
  BY <1>1, RekeyedStep
<1>2. ASSUME NEW t \in Tasks, Rekeying(t)'
      PROVE  /\ header'[<<t, 1>>].sa = ikeSA'
             /\ \A u \in Tasks \ {t} : Rekeyed(u)' => header'[<<u, 1>>].id < header'[<<t, 1>>].id
             /\ At(t, "wait")' => header'[<<t, 1>>].id <= msgID'[<<t, 1>>]
  <2>0. <<t, 1>> \in Requests /\ (\A u \in Tasks : <<u, 1>> \in Requests)
        /\ task'[t].step = 1 /\ task'[t].pc \in {"register", "wait"}
    BY <1>2, ControlAssumption DEF Rekeying
  <2>1. CASE TakeNumber(t)
    <3>1. /\ At(t, "number") /\ task[t].step = 1 /\ task'[t].kind = task[t].kind
          /\ task'[t].pc = "register"
      BY <2>0, <2>1, Goes DEF TakeNumber
    <3>2. MayOwn(t)
      BY <1>2, <3>1 DEF Rekeying, Rekeys, Kind, MayOwn, At
    <3>3. header'[<<t, 1>>] = [id |-> seq, sa |-> ikeSA] /\ ikeSA' = ikeSA
      BY <2>1, <3>1, Stamps DEF TakeNumber, Request
    <3>4. ASSUME NEW u \in Tasks \ {t}, Rekeyed(u)'
          PROVE  header'[<<u, 1>>].id < seq
      BY <3>2, <3>4, RekeyedStep, OneRekey
    <3> QED BY <3>1, <3>3, <3>4 DEF At
  <2>2. CASE Register(t)
    <3>1. /\ At(t, "register") /\ task[t].step = 1 /\ task'[t].kind = task[t].kind
      BY <2>0, <2>2, Goes DEF Register
    <3>2. Rekeying(t) /\ MayOwn(t) /\ Stamped(<<t, 1>>)
      BY <1>2, <3>1 DEF Rekeying, Rekeys, Kind, MayOwn, At, PlaceInv, PlaceOf, Request
    <3>3. UNCHANGED <<header, ikeSA, seq>>
      BY <2>2 DEF Register, session
    <3>4. /\ header[<<t, 1>>].sa = ikeSA
          /\ \A u \in Tasks \ {t} : Rekeyed(u) => header[<<u, 1>>].id < header[<<t, 1>>].id
      BY <3>2 DEF RekeyInv
    <3>5. header[<<t, 1>>].id < seq
      BY <3>2, <3>4 DEF RekeyInv, Rekeyed, Rekeying
    <3>6. msgID'[<<t, 1>>] = LastID(seq)
      BY <2>0, <2>2, <3>1 DEF Register, EnqueueRequest, Request, Inv, TypesInv, WindowTypes
    <3>7. seq \in Nat /\ header[<<t, 1>>].id \in Nat
      BY <2>0, WindowAssumption DEF TaskTypes, Headers, MsgIDs
    <3>8. msgID'[<<t, 1>>] = seq - 1
      BY <3>5, <3>6, <3>7, Numbers DEF TaskTypes
    <3>9. \A u \in Tasks \ {t} : Rekeyed(u)' => Rekeyed(u)
      BY <3>2, RekeyedStep, OneRekey
    <3> QED BY <3>3, <3>4, <3>5, <3>7, <3>8, <3>9
  <2>3. CASE task'[t] = task[t]
    <3>1. Rekeying(t) /\ MayOwn(t)
      BY <1>2, <2>3 DEF Rekeying, Rekeys, Kind, MayOwn
    <3>2. header'[<<t, 1>>] = header[<<t, 1>>]
      <4>1. Stamped(<<t, 1>>)
        BY <3>1 DEF Rekeying, PlaceInv, PlaceOf, Request
      <4> QED BY <2>0, <4>1, StampsStay
    <3>3. ikeSA' = ikeSA
      <4>1. ASSUME NEW v \in Tasks, SwitchIkeSA(v)
            PROVE  FALSE
        BY <3>1, <4>1, SwitchIsFresh, SwitchersOwn, OneRekey DEF Rekeying
      <4> QED BY <4>1, SessionFrame
    <3>4. \A u \in Tasks \ {t} : Rekeyed(u)' => Rekeyed(u) /\ header'[<<u, 1>>] = header[<<u, 1>>]
      BY <3>1, RekeyedStep, OneRekey
    <3>5. msgID'[<<t, 1>>] = msgID[<<t, 1>>]
      <4>1. ASSUME NEW v \in Tasks, Register(v)
            PROVE  msgID'[<<t, 1>>] = msgID[<<t, 1>>]
        <5>1. Request(v) # <<t, 1>>
          BY <2>3, <4>1, Goes DEF Register, Request, At
        <5> QED BY <2>0, <4>1, <5>1 DEF Register, EnqueueRequest, Inv, TypesInv, WindowTypes
      <4> QED BY <4>1, WindowFrame
    <3>6. At(t, "wait")' => At(t, "wait")
      BY <2>3 DEF At
    <3> QED BY <3>1, <3>2, <3>3, <3>4, <3>5, <3>6 DEF RekeyInv
  <2> QED BY <2>0, <2>1, <2>2, <2>3, TaskSteps
<1> QED BY <1>1, <1>2 DEF RekeyInv

-----------------------------------------------------------------------------
(* A rekey that goes on does so with the answer to its own request.        *)
LEMMA OwnRekeyAnswer ==
  ASSUME TaskTypes, Headers, Inv, PlaceInv, AnswerInv, RekeyInv,
         NEW t \in Tasks, Rekeys(t), At(t, "wait"), task[t].step = 1,
         delivered[Request(t)] # <<>>, Usable(t, Answer(Request(t)))
  PROVE  Request(t) = <<t, 1>> /\ Answer(<<t, 1>>) = <<t, 1>> /\ reply[<<t, 1>>] = "accept"
<1> DEFINE a == Answer(Request(t))
<1>1. Request(t) = <<t, 1>> /\ <<t, 1>> \in Requests
  BY ControlAssumption DEF Request
<1>2. /\ a \in Requests /\ Stamped(a) /\ header[a].id = msgID[<<t, 1>>]
  BY <1>1 DEF AnswerInv
<1>3. /\ header[a].sa = ikeSA /\ reply[a] = "accept" /\ Kind(a[1]) = Kind(t) /\ a[2] = 1
  BY DEF Usable
<1>4. /\ Rekeying(t)
      /\ \A u \in Tasks \ {t} : Rekeyed(u) => header[<<u, 1>>].id < header[<<t, 1>>].id
      /\ header[<<t, 1>>].id <= msgID[<<t, 1>>]
  BY DEF Rekeying, At, RekeyInv
<1> HIDE DEF a
<1>5. PICK u \in Tasks : a = <<u, 1>>
  BY <1>2, <1>3, ControlAssumption
<1>6. Rekeyed(u)
  BY <1>2, <1>3, <1>5 DEF Rekeyed, Rekeys
<1>7. header[a].id \in Nat /\ header[<<t, 1>>].id \in Nat /\ msgID[<<t, 1>>] \in Nat
  BY <1>1, <1>2, WindowAssumption DEF Headers, MsgIDs
<1>8. u = t
  BY <1>2, <1>4, <1>5, <1>6, <1>7
<1> QED BY <1>1, <1>3, <1>5, <1>8 DEF a

AcceptInv ==
  \A t \in Tasks : Kind(t) = "ikeRekey" /\ task[t].step = 2 =>
    delivered[<<t, 1>>] # <<>> /\ Answer(<<t, 1>>) = <<t, 1>> /\ reply[<<t, 1>>] = "accept"

LEMMA AcceptStep ==
  ASSUME TaskTypes, Headers, Inv, PlaceInv, AnswerInv, RekeyInv, AcceptInv, [Next]_vars
  PROVE  AcceptInv'
<1> SUFFICES ASSUME NEW t \in Tasks, task'[t].kind = "ikeRekey", task'[t].step = 2
             PROVE  /\ delivered'[<<t, 1>>] # <<>> /\ Head(delivered'[<<t, 1>>]) = <<t, 1>>
                    /\ reply'[<<t, 1>>] = "accept"
  BY DEF AcceptInv, Kind, Answer
<1>1. <<t, 1>> \in Requests
  BY ControlAssumption
<1>2. /\ delivered[<<t, 1>>] # <<>> /\ Answer(<<t, 1>>) = <<t, 1>>
      /\ reply[<<t, 1>>] = "accept"
  <2>1. CASE task[t].step = 2
    <3>1. Kind(t) = "ikeRekey"
      BY <2>1, TasksStay DEF PlaceInv, PlaceOf, At, Kind
    <3> QED BY <2>1, <3>1 DEF AcceptInv
  <2>2. CASE task[t].step # 2
    <3>1. AcceptIkeSA(t) /\ At(t, "wait") /\ Rekeys(t) /\ task[t].step = 1
      BY <2>2, TaskSteps DEF Rekeys, Kind
    <3> QED BY <3>1, OwnRekeyAnswer DEF AcceptIkeSA, Answered, Request
  <2> QED BY <2>1, <2>2
<1>3. delivered'[<<t, 1>>] = delivered[<<t, 1>>]
  BY <1>1, <1>2, AnswersStay
<1>4. reply'[<<t, 1>>] = reply[<<t, 1>>]
  <2>1. ASSUME NEW q \in Requests, PeerReplies(q)
        PROVE  reply'[<<t, 1>>] = reply[<<t, 1>>]
    <3>1. (\E x : reply' = [reply EXCEPT ![q] = x]) /\ reply[q] = "none"
      BY <2>1 DEF PeerReplies
    <3> QED BY <1>2, <3>1
  <2> QED BY <2>1, SessionFrame
<1> QED BY <1>2, <1>3, <1>4 DEF Answer

LEMMA KeysStep ==
  ASSUME TaskTypes, Headers, Inv, PlaceInv, AnswerInv, RekeyInv, AcceptInv,
         KeysFromOneExchange, [Next]_vars
  PROVE  KeysFromOneExchange'
<1>1. ASSUME NEW t \in Tasks, SwitchIkeSA(t)
      PROVE  ikeSA'.asked = ikeSA'.answered
  <2>1. Kind(t) = "ikeRekey" /\ task[t].step = 2
    BY <1>1, SwitchersOwn DEF SwitchIkeSA, Unanswered, Answered
  <2> QED BY <1>1, <2>1 DEF SwitchIkeSA, SA, AcceptInv
<1>2. ASSUME NEW t \in Tasks, AdoptChildSA(t)
      PROVE  childSA'.asked = childSA'.answered
  <2>1. At(t, "wait") /\ Rekeys(t) /\ task[t].step = 1
    <3>1. At(t, "wait") /\ Kind(t) = "childRekey"
      BY <1>2 DEF AdoptChildSA, Answered
    <3>2. PlaceOf(t) /\ task[t].step \in {1, 2}
      BY DEF PlaceInv, TaskTypes, TaskStates
    <3>3. task[t].step # 2
      BY <3>1, <3>2 DEF PlaceOf, At
    <3> QED BY <3>1, <3>2, <3>3 DEF Rekeys
  <2>2. Answer(Request(t)) = Request(t)
    BY <1>2, <2>1, OwnRekeyAnswer DEF AdoptChildSA, Answered
  <2> QED BY <1>2, <2>2 DEF AdoptChildSA, SA
<1>3. PeerSA.asked = PeerSA.answered
  BY DEF PeerSA, SA
<1> QED BY <1>1, <1>2, <1>3, SessionFrame DEF KeysFromOneExchange

-----------------------------------------------------------------------------
(* Both ends keep the SA in use.                                           *)
AgreeInv ==
  /\ KeysAgree
  /\ \A t \in Tasks : Kind(t) = "ikeRekey" =>
       /\ Stamped(<<t, 2>>) /\ header[<<t, 2>>].sa = ikeSA
            => task[t].pc \in {"register", "wait"}
       /\ reply[<<t, 1>>] = "accept" /\ ~ Switched(t)
            => SA(<<t, 1>>, <<t, 1>>) \in peerSAs

LEMMA AgreeInit == Init => AgreeInv
<1> SUFFICES ASSUME Init PROVE AgreeInv
  OBVIOUS
<1>1. \A t \in Tasks : Kind(t) # "ikeRekey"
  BY DEF Init, Kind
<1>2. KeysAgree
  BY DEF Init, KeysAgree
<1> QED BY <1>1, <1>2 DEF AgreeInv

(* What the peer forgets.                                                  *)
LEMMA PeerForgets ==
  ASSUME [Next]_vars, NEW sa \in peerSAs, sa \notin peerSAs'
  PROVE  \E v \in Tasks : /\ Kind(v) = "ikeRekey" /\ Stamped(<<v, 2>>) /\ <<v, 2>> \in sent
                          /\ header[<<v, 2>>].sa = sa /\ UNCHANGED <<task, ikeSA, header>>
<1>1. PICK r \in Requests : PeerReplies(r)
  BY SessionFrame
<1>2. /\ Kind(r[1]) = "ikeRekey" /\ r[2] # 1 /\ header[r].sa = sa /\ OnWire(r)
      /\ UNCHANGED <<task, ikeSA, header>>
  BY <1>1 DEF PeerReplies, session
<1>3. PICK v \in Tasks : r = <<v, 2>>
  BY <1>2, ControlAssumption
<1> QED BY <1>2, <1>3 DEF OnWire, Stamped

LEMMA AgreeStep ==
  ASSUME TaskTypes, TaskTypes', Headers, Inv, PlaceInv, FreshInv, AnswerInv, AcceptInv, AgreeInv,
         [Next]_vars
  PROVE  AgreeInv'
<1>0. \A t \in Tasks : <<t, 1>> \in Requests /\ <<t, 2>> \in Requests
  BY ControlAssumption
<1>1. ASSUME NEW t \in Tasks, SwitchIkeSA(t)
      PROVE  ikeSA' \in peerSAs'
  <2>1. Kind(t) = "ikeRekey" /\ task[t].step = 2 /\ At(t, "wait")
    BY <1>1, SwitchersOwn DEF SwitchIkeSA, Unanswered, Answered
  <2>2. Answer(<<t, 1>>) = <<t, 1>> /\ reply[<<t, 1>>] = "accept"
    BY <2>1 DEF AcceptInv
  <2>3. SA(<<t, 1>>, <<t, 1>>) \in peerSAs
    BY <2>1, <2>2 DEF AgreeInv, Switched, At
  <2> QED BY <1>1, <2>2, <2>3 DEF SwitchIkeSA, peer
<1>2. ASSUME ikeSA' = ikeSA, \A t \in Tasks : ~ SwitchIkeSA(t)
      PROVE  KeysAgree'
  <2>1. ASSUME NEW t \in Tasks, Kind(t) = "ikeRekey", At(t, "wait"), task[t].step = 2
        PROVE  KeysAgree'
    <3>1. task'[t] = task[t]
      BY <1>2, <2>1, TaskSteps DEF At, Kind, Rekeys
    <3> QED BY <2>1, <3>1 DEF KeysAgree, Kind, At
  <2>2. ASSUME ikeSA \in peerSAs, ikeSA \notin peerSAs'
        PROVE  KeysAgree'
    <3>1. PICK v \in Tasks : /\ Kind(v) = "ikeRekey" /\ Stamped(<<v, 2>>) /\ <<v, 2>> \in sent
                             /\ header[<<v, 2>>].sa = ikeSA /\ UNCHANGED task
      BY <2>2, PeerForgets
    <3>2. <<v, 2>> \in made
      BY <3>1 DEF Inv, TypesInv, WindowTypes
    <3>3. PlaceOf(v)
      BY DEF PlaceInv
    <3>4. At(v, "wait") /\ task[v].step = 2
      BY <3>1, <3>2, <3>3 DEF AgreeInv, PlaceOf, At
    <3> QED BY <3>1, <3>4 DEF KeysAgree, Kind, At
  <2> QED BY <1>2, <2>1, <2>2 DEF AgreeInv, KeysAgree
<1>3. KeysAgree'
  BY <1>1, <1>2, SessionFrame, SwitchIsFresh DEF KeysAgree
<1>4. ASSUME NEW t \in Tasks, task'[t].kind = "ikeRekey", Stamped(<<t, 2>>)',
             header'[<<t, 2>>].sa = ikeSA'
      PROVE  task'[t].pc \in {"register", "wait"}
  <2>1. CASE header'[<<t, 2>>] = header[<<t, 2>>]
    <3>1. Stamped(<<t, 2>>) /\ Kind(t) = "ikeRekey" /\ task[t].step = 2
      BY <1>4, <2>1, TasksStay DEF Stamped, NoHeader, Kind, PlaceInv, PlaceOf
    <3>2. ikeSA' = ikeSA /\ \A v \in Tasks : ~ SwitchIkeSA(v)
      BY <1>0, <1>4, <2>1, SessionFrame, SwitchIsFresh
    <3>3. task[t].pc \in {"register", "wait"}
      BY <1>4, <2>1, <3>1, <3>2 DEF AgreeInv
    <3> QED BY <3>1, <3>2, <3>3, TaskSteps DEF At, Rekeys, Kind
  <2>2. ASSUME NEW v \in Tasks, <<t, 2>> = Request(v), TakeNumber(v) \/ SendNotice(v)
        PROVE  task'[t].pc \in {"register", "wait"}
    <3>1. v = t /\ task[t].step = 2
      BY <2>2 DEF Request
    <3>2. PlaceOf(t)
      BY DEF PlaceInv
    <3>3. TakeNumber(t)
      <4>1. SendNotice(t) => At(t, "notice")
        BY DEF SendNotice
      <4>2. ~ At(t, "idle") => task'[t].kind = task[t].kind
        BY TasksStay
      <4> QED BY <1>4, <2>2, <3>1, <3>2, <4>1, <4>2 DEF PlaceOf, At, Kind
    <3> QED BY <3>3, Goes DEF TakeNumber
  <2> QED BY <1>0, <2>1, <2>2, StampsStay
<1>5. ASSUME NEW t \in Tasks, task'[t].kind = "ikeRekey", reply'[<<t, 1>>] = "accept",
             ~ Switched(t)'
      PROVE  SA(<<t, 1>>, <<t, 1>>) \in peerSAs'
  <2>1. CASE reply[<<t, 1>>] = "accept"
    <3>1. Kind(t) = "ikeRekey" /\ ~ Switched(t)
      <4>1. Stamped(<<t, 1>>)
        BY <1>0, <2>1 DEF AnswerInv
      <4> QED BY <1>5, <4>1, TasksStay DEF Kind
    <3>2. SA(<<t, 1>>, <<t, 1>>) \in peerSAs
      BY <2>1, <3>1 DEF AgreeInv
    <3>3. SA(<<t, 1>>, <<t, 1>>).asked = <<t, 1>>
      BY DEF SA
    <3>4. ASSUME NEW v \in Tasks, header[<<v, 2>>].sa = SA(<<t, 1>>, <<t, 1>>)
          PROVE  FALSE
      BY <1>0, <3>1, <3>3, <3>4 DEF FreshInv
    <3> QED BY <3>2, <3>4, PeerForgets
  <2>2. ASSUME reply[<<t, 1>>] # "accept", NEW q \in Requests, PeerReplies(q)
        PROVE  SA(<<t, 1>>, <<t, 1>>) \in peerSAs'
    <3>1. (\E x : reply' = [reply EXCEPT ![q] = x]) /\ task' = task
      BY <2>2 DEF PeerReplies
    <3>2. q = <<t, 1>>
      BY <1>5, <2>2, <3>1
    <3>3. reply' = [reply EXCEPT ![q] = "refuse"] => reply'[q] # "accept"
      <4>1. \A x : x \in DOMAIN reply => [reply EXCEPT ![q] = "refuse"][x] # "accept" \/ x # q
        OBVIOUS
      <4>2. q \in DOMAIN reply
        BY <3>2 DEF AnswerInv
      <4> QED BY <4>1, <4>2
    <3>4. Kind(t) = "ikeRekey"
      BY <1>5, <3>1 DEF Kind
    <3>5. q[1] = t /\ q[2] = 1
      BY <3>2
    <3> QED BY <1>5, <2>2, <3>2, <3>3, <3>4, <3>5 DEF PeerReplies
  <2> QED BY <1>5, <2>1, <2>2, SessionFrame
<1> QED BY <1>3, <1>4, <1>5 DEF AgreeInv, Kind, Stamped, NoHeader, SA

-----------------------------------------------------------------------------
(* While no two senders have taken numbers side by side, a message is kept *)
(* under the ID in its packet, and under one SA no ID is in two packets.   *)
OneNumberEach ==
  /\ \A t \in Tasks : At(t, "register") => seq = header[Request(t)].id + 1
  /\ \A r \in made : msgID[r] = header[r].id
  /\ \A r \in Requests : Stamped(r) /\ header[r].sa = ikeSA =>
       header[r].id < seq /\ \A v \in Tasks : ~ At(v, "reset")
  /\ \A r, s \in Requests :
       Stamped(r) /\ Stamped(s) /\ header[r].id = header[s].id /\ header[r].sa = header[s].sa
         => r = s

AloneInv == raced \/ OneNumberEach

LEMMA AloneInit == Init => AloneInv
<1> SUFFICES ASSUME Init PROVE OneNumberEach
  BY DEF AloneInv
<1>1. \A r \in Requests : ~ Stamped(r)
  BY DEF Init, Stamped
<1>2. made = {} /\ \A t \in Tasks : ~ At(t, "register")
  BY DEF Init, WindowInit, At
<1> QED BY <1>1, <1>2 DEF OneNumberEach

LEMMA MadeIsStamped ==
  ASSUME PlaceInv, NEW r \in Requests, r \in made
  PROVE  Stamped(r)
<1>1. PICK t \in Tasks : r = <<t, 1>> \/ r = <<t, 2>>
  BY ControlAssumption
<1>2. PlaceOf(t)
  BY DEF PlaceInv
<1> QED BY <1>1, <1>2 DEF PlaceOf

(* Who takes a number without a race finds nobody at work on one.          *)
LEMMA AloneAtNumber ==
  ASSUME [Next]_vars, ~ raced'
  PROVE  /\ ~ raced
         /\ \A t \in Tasks : TakeNumber(t) \/ SendNotice(t) =>
              \A u \in Tasks : ~ At(u, "register") /\ ~ At(u, "reset")
         /\ \A t, u \in Tasks : ResetSequence(t) => ~ At(u, "register")
<1>1. ASSUME NEW t \in Tasks, TakeNumber(t) \/ SendNotice(t)
      PROVE  ~ raced /\ \A u \in Tasks : ~ At(u, "register") /\ ~ At(u, "reset")
  BY <1>1 DEF TakeNumber, SendNotice, Numbered
<1>2. ASSUME NEW t \in Tasks, ResetSequence(t)
      PROVE  ~ raced /\ \A u \in Tasks : ~ At(u, "register")
  BY <1>2 DEF ResetSequence
<1> QED BY <1>1, <1>2, SessionFrame

LEMMA AloneStep ==
  ASSUME TaskTypes, TaskTypes', Headers, Headers', Inv, PlaceInv, PlaceInv', CountInv, FreshInv,
         AloneInv, [Next]_vars
  PROVE  AloneInv'
<1> SUFFICES ASSUME ~ raced' PROVE OneNumberEach'
  BY DEF AloneInv
<1>0. /\ ~ raced /\ OneNumberEach
      /\ \A n \in MsgIDs : n \in Nat
      /\ \A r \in Requests : header[r].id \in Nat
      /\ seq \in Nat
  BY AloneAtNumber, WindowAssumption DEF AloneInv, MsgIDs, Headers, TaskTypes
<1>1. ASSUME NEW t \in Tasks, At(t, "register")'
      PROVE  seq' = header'[Request(t)'].id + 1
  <2>1. CASE TakeNumber(t)
    <3>1. Request(t)' = Request(t)
      BY <2>1, Goes DEF TakeNumber, Request
    <3>2. header'[Request(t)] = [id |-> seq, sa |-> ikeSA]
      BY <2>1, Stamps DEF TakeNumber
    <3>3. header'[Request(t)].id = seq
      BY <3>2
    <3> QED BY <2>1, <3>1, <3>3, NumbersLeft
  <2>2. CASE task'[t] = task[t]
    <3>1. At(t, "register") /\ Request(t)' = Request(t)
      BY <1>1, <2>2 DEF At, Request
    <3>2. UNCHANGED <<seq, header>>
      BY <3>1, AloneAtNumber, SessionFrame
    <3> QED BY <1>0, <3>1, <3>2 DEF OneNumberEach
  <2> QED BY <1>1, <2>1, <2>2, TaskSteps DEF At
<1>2. ASSUME NEW r \in made'
      PROVE  msgID'[r] = header'[r].id
  <2>1. ASSUME NEW t \in Tasks, Register(t), r = Request(t)
        PROVE  msgID'[r] = header'[r].id
    <3>1. At(t, "register") /\ header' = header /\ r \in Requests
      BY <2>1, RequestOfTask DEF Register
    <3>2. seq = header[r].id + 1 /\ header[r].id \in Nat
      BY <1>0, <2>1, <3>1 DEF OneNumberEach
    <3>3. LastID(seq) = header[r].id
      BY <3>2, Numbers DEF TaskTypes
    <3>4. msgID' = [msgID EXCEPT ![r] = LastID(seq)]
      BY <2>1 DEF Register, EnqueueRequest
    <3> QED BY <3>1, <3>3, <3>4 DEF Inv, TypesInv, WindowTypes
  <2>2. ASSUME r \in made, msgID'[r] = msgID[r]
        PROVE  msgID'[r] = header'[r].id
    <3>1. r \in Requests /\ msgID[r] = header[r].id
      BY <1>0, <2>2 DEF OneNumberEach, Inv, TypesInv, WindowTypes
    <3>2. Stamped(r)
      BY <2>2, <3>1, MadeIsStamped
    <3>3. header'[r] = header[r]
      BY <3>1, <3>2, StampsStay
    <3> QED BY <2>2, <3>1, <3>3
  <2>3. ASSUME NEW t \in Tasks, Register(t), r # Request(t)
        PROVE  r \in made /\ msgID'[r] = msgID[r]
    <3>1. /\ made' = made \cup {Request(t)}
          /\ msgID' = [msgID EXCEPT ![Request(t)] = LastID(seq)]
      BY <2>3 DEF Register, EnqueueRequest
    <3> QED BY <2>3, <3>1 DEF Inv, TypesInv, WindowTypes
  <2> QED BY <2>1, <2>2, <2>3, WindowFrame
<1>3. ASSUME NEW r \in Requests, Stamped(r)', header'[r].sa = ikeSA'
      PROVE  header'[r].id < seq' /\ \A v \in Tasks : ~ At(v, "reset")'
  <2>1. CASE header'[r] = header[r]
    <3>1. Stamped(r)
      BY <1>3, <2>1 DEF Stamped, NoHeader
    <3>2. ikeSA' = ikeSA /\ \A v \in Tasks : ~ SwitchIkeSA(v)
      BY <1>3, <2>1, SessionFrame, SwitchIsFresh
    <3>3. header[r].id < seq /\ \A v \in Tasks : ~ At(v, "reset")
      BY <1>0, <1>3, <2>1, <3>1, <3>2 DEF OneNumberEach
    <3>4. \A v \in Tasks : ~ At(v, "reset")'
      BY <3>2, <3>3, ResetsBefore
    <3>5. seq' = seq \/ seq' = seq + 1
      BY <3>3, SessionFrame, NumbersLeft DEF ResetSequence
    <3> QED BY <1>0, <2>1, <3>3, <3>4, <3>5
  <2>2. ASSUME NEW t \in Tasks, TakeNumber(t) \/ SendNotice(t),
               header'[r] = [id |-> seq, sa |-> ikeSA]
        PROVE  header'[r].id < seq' /\ \A v \in Tasks : ~ At(v, "reset")'
    <3>1. seq' = seq + 1
      BY <2>2, NumbersLeft
    <3>2. \A v \in Tasks : ~ At(v, "reset")
      BY <2>2, AloneAtNumber
    <3>3. ikeSA' = ikeSA
      BY <2>2 DEF TakeNumber, SendNotice
    <3>4. ASSUME NEW v \in Tasks, At(v, "reset")'
          PROVE  FALSE
      <4>1. SwitchIkeSA(v)
        BY <3>2, <3>4, ResetsBefore
      <4> QED BY <3>3, <4>1, SwitchIsFresh
    <3> QED BY <1>0, <2>2, <3>1, <3>4
  <2> QED BY <2>1, <2>2, StampsStay
<1>4. ASSUME NEW r \in Requests, NEW s \in Requests, Stamped(r)', Stamped(s)',
             header'[r].id = header'[s].id, header'[r].sa = header'[s].sa
      PROVE  r = s
  <2>1. ASSUME NEW q \in Requests, Stamped(q), header[q].sa = ikeSA
        PROVE  header[q].id # seq
    BY <1>0, <2>1 DEF OneNumberEach
  <2>2. ASSUME NEW q \in Requests, header'[q] = header[q], Stamped(q)'
        PROVE  Stamped(q)
    BY <2>2 DEF Stamped, NoHeader
  <2>3. \A q \in Requests : \/ header'[q] = header[q]
                           \/ /\ header'[q] = [id |-> seq, sa |-> ikeSA]
                              /\ \E t \in Tasks : q = Request(t) /\ (TakeNumber(t) \/ SendNotice(t))
    BY StampsStay
  <2>4. CASE header'[r] = header[r] /\ header'[s] = header[s]
    <3>1. Stamped(r) /\ Stamped(s)
      BY <1>4, <2>2, <2>4
    <3> QED BY <1>0, <1>4, <2>4, <3>1 DEF OneNumberEach
  <2>5. ASSUME header'[r] = header[r], header'[s] = [id |-> seq, sa |-> ikeSA]
        PROVE  FALSE
    BY <1>4, <2>1, <2>2, <2>5
  <2>6. ASSUME header'[s] = header[s], header'[r] = [id |-> seq, sa |-> ikeSA]
        PROVE  FALSE
    BY <1>4, <2>1, <2>2, <2>6
  <2>7. ASSUME NEW t \in Tasks, r = Request(t), TakeNumber(t) \/ SendNotice(t), header'[s] # header[s]
        PROVE  s = r
    BY <2>7, Stamps DEF TakeNumber, SendNotice
  <2> QED BY <2>3, <2>4, <2>5, <2>6, <2>7
<1> QED BY <1>1, <1>2, <1>3, <1>4 DEF OneNumberEach

LEMMA OwnAnswerFollows == PlaceInv /\ AnswerInv /\ AloneInv => OwnAnswer
<1> SUFFICES ASSUME PlaceInv, AnswerInv, OneNumberEach,
                    NEW r \in Requests, delivered[r] # <<>>, header[Answer(r)].sa = header[r].sa
             PROVE  Answer(r) = r
  BY DEF AloneInv, OwnAnswer
<1>1. /\ Answer(r) \in Requests /\ Stamped(Answer(r))
      /\ r \in made /\ header[Answer(r)].id = msgID[r]
  BY DEF AnswerInv
<1>2. header[Answer(r)].id = header[r].id /\ Stamped(r)
  BY <1>1, MadeIsStamped DEF OneNumberEach
<1> QED BY <1>1, <1>2 DEF OneNumberEach

-----------------------------------------------------------------------------
LEMMA AcceptInit == Init => AcceptInv
<1> SUFFICES ASSUME Init PROVE AcceptInv
  OBVIOUS
<1>1. \A t \in Tasks : Kind(t) # "ikeRekey"
  BY DEF Init, Kind
<1> QED BY <1>1 DEF AcceptInv

LEMMA KeysInit == Init => KeysFromOneExchange
BY DEF Init, KeysFromOneExchange, FirstSA, SA

(* All parts together.                                                     *)
ControlInv ==
  /\ TaskTypes /\ Headers /\ PlaceInv /\ CountInv /\ FreshInv
  /\ AnswerInv /\ RekeyInv /\ AcceptInv /\ KeysFromOneExchange /\ AgreeInv /\ AloneInv

LEMMA ControlInit == Init => ControlInv
BY TasksInit, HeadersInit, PlaceInit, CountInit, FreshInit, AnswerInit, RekeyInit, AcceptInit,
   KeysInit, AgreeInit, AloneInit DEF ControlInv

LEMMA ControlStep == Inv /\ ControlInv /\ [Next]_vars => ControlInv'
<1> SUFFICES ASSUME Inv, ControlInv, [Next]_vars PROVE ControlInv'
  OBVIOUS
<1> USE DEF ControlInv
<1>1. TaskTypes' /\ Headers'
  BY TasksStep, HeadersStep
<1>2. PlaceInv'
  BY <1>1, PlaceStep
<1>3. CountInv' /\ FreshInv' /\ AnswerInv'
  BY <1>1, CountStep, FreshStep, AnswerStep
<1>4. RekeyInv' /\ AcceptInv' /\ KeysFromOneExchange'
  BY <1>1, <1>2, RekeyStep, AcceptStep, KeysStep
<1>5. AgreeInv' /\ AloneInv'
  BY <1>1, <1>2, AgreeStep, AloneStep
<1> QED BY <1>1, <1>2, <1>3, <1>4, <1>5

LEMMA ControlInvHolds == Spec => []ControlInv
<1>1. Spec => []Inv
  BY SessionUsesWindow, InvHolds, PTL
<1> QED BY <1>1, ControlInit, ControlStep, PTL DEF Spec

(* No keys, of the IKE SA or of its child, are made of one party's half of *)
(* one exchange and the other's half of another, however many senders race *)
(* for numbers and however late or often answers come.                     *)
THEOREM KeysFromOneExchangeHolds == Spec => []KeysFromOneExchange
<1>1. ControlInv => KeysFromOneExchange
  BY DEF ControlInv
<1> QED BY <1>1, ControlInvHolds, PTL

(* The peer keeps the IKE SA in use, but while the old one is deleted.     *)
THEOREM KeysAgreeHolds == Spec => []KeysAgree
<1>1. ControlInv => KeysAgree
  BY DEF ControlInv, AgreeInv
<1> QED BY <1>1, ControlInvHolds, PTL

(* Without a race for numbers a caller gets the answer to its own request. *)
THEOREM OwnAnswerHolds == Spec => []OwnAnswer
<1>1. ControlInv => OwnAnswer
  BY OwnAnswerFollows DEF ControlInv
<1> QED BY <1>1, ControlInvHolds, PTL

(* Nobody waits in vain: without a race for numbers, the request that a    *)
(* task waits for is in the window, which answers it or gives it up, or it *)
(* has its answer, or is given up, or a request under another IKE SA has   *)
(* been numbered like it and taken its place.                              *)
WaitersAreServed ==
  raced \/ \A t \in Tasks : At(t, "wait") =>
    \/ Request(t) \in pending \cup Queued \cup Completed
    \/ \E s \in made : /\ s # Request(t) /\ msgID[s] = msgID[Request(t)]
                       /\ header[s].sa # header[Request(t)].sa

(* The wait of sendEncryptedWithRetry (session.go) has a deadline only in  *)
(* the window: what waits there is never dropped by a request of its SA.   *)
THEOREM WaitersAreServedHolds == Spec => []WaitersAreServed
<1>1. Inv /\ ControlInv => WaitersAreServed
  <2> SUFFICES ASSUME Inv, ControlInv, ~ raced, NEW t \in Tasks, At(t, "wait"),
                      Request(t) \notin pending \cup Queued \cup Completed
               PROVE  \E s \in made : /\ s # Request(t) /\ msgID[s] = msgID[Request(t)]
                                      /\ header[s].sa # header[Request(t)].sa
    BY DEF WaitersAreServed
  <2> DEFINE r == Request(t)
  <2>1. r \in made /\ r \in Requests
    BY RequestOfTask DEF ControlInv, PlaceInv, PlaceOf, At
  <2>2. OneSlotEach /\ made \subseteq Requests
    BY DEF Inv, TypesInv, WindowTypes, SlotsInv
  <2>3. PICK s \in made : s # r /\ msgID[s] = msgID[r]
    BY <2>1, <2>2 DEF OneSlotEach, Displaced
  <2>4. Stamped(r) /\ Stamped(s)
    BY <2>1, <2>2, <2>3, MadeIsStamped DEF ControlInv
  <2>5. header[s].id = header[r].id
    BY <2>1, <2>3 DEF ControlInv, AloneInv, OneNumberEach
  <2>6. header[s].sa # header[r].sa
    BY <2>1, <2>2, <2>3, <2>4, <2>5 DEF ControlInv, AloneInv, OneNumberEach
  <2> QED BY <2>3, <2>6
<1>2. Spec => []Inv
  BY SessionUsesWindow, InvHolds, PTL
<1> QED BY <1>1, <1>2, ControlInvHolds, PTL
=============================================================================
