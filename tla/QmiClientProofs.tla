--------------------------- MODULE QmiClientProofs ---------------------------
(***************************************************************************)
(* Types and capacities of the QMI client, that nobody sends on a closed   *)
(* channel and none is closed twice, and that the newest indication of     *)
(* each kind arrives, for any requests, kinds of indication and capacities.*)
(***************************************************************************)
EXTENDS QmiClient, SequenceTheorems, TLAPS

LEMMA NamesApart ==
  /\ "reading" \notin Requests /\ "edge" \notin Requests /\ "ended" \notin Requests
  /\ "idle" \notin Requests
BY ClientAssumption

(***************************************************************************)
(* Types and capacities.                                                   *)
(***************************************************************************)

LEMMA Taken ==
  ASSUME NEW S, NEW s \in Seq(S), s # <<>>
  PROVE  Head(s) \in S /\ Tail(s) \in Seq(S) /\ Len(Tail(s)) = Len(s) - 1 /\ Len(s) \in Nat
BY HeadTailProperties, LenProperties

LEMMA Put ==
  ASSUME NEW S, NEW s \in Seq(S), NEW x \in S
  PROVE  Append(s, x) \in Seq(S) /\ Len(Append(s, x)) = Len(s) + 1 /\ Len(s) \in Nat
BY AppendProperties, LenProperties

LEMMA EventTypes ==
  /\ EdgeEvent \in Events /\ EdgeEvent \in Packets
  /\ \A r \in Requests : Answer(r) \in Packets
  /\ \A k \in Kinds, v \in 0 .. MaxIndications :
       [kind |-> k, version |-> v] \in Events /\ [kind |-> k, version |-> v] \in Packets
  /\ \A p \in Packets : p.kind \in Kinds => p \in Events
  /\ \A p \in Packets : p.kind \in Kinds \cup Requests \cup {Edge} /\ p.version \in 0 .. MaxIndications
  /\ \A e \in Events : e.kind \in Kinds \cup {Edge} /\ e.version \in 0 .. MaxIndications
BY ClientAssumption DEF Events, Packets, EdgeEvent, Answer

LEMMA TypesInit == Init => TypeOK
<1> SUFFICES ASSUME Init PROVE TypeOK
  OBVIOUS
<1>1. \A S : << >> \in Seq(S) /\ Len(<< >>) = 0
  BY EmptySeq
<1> QED BY <1>1, ClientAssumption DEF Init, TypeOK

(* Requests and the write loop.                                            *)
LEMMA CallTypes ==
  ASSUME TypeOK, NEW r \in Requests, Sending(r) \/ Ending(r)
  PROVE  TypeOK'
<1>1. CASE Register(r)
  BY <1>1 DEF TypeOK, Register, writing, inds, modem, history
<1>2. CASE HandOver(r)
  BY <1>2, Put, ClientAssumption DEF TypeOK, HandOver, inds, modem, history
<1>3. ASSUME NEW how \in {"answered", "failed", "timeout"}, Completes(r, how)
      PROVE  TypeOK'
  BY <1>3 DEF TypeOK, Completes, writing, inds, modem, history
<1>4. CASE WriteAcknowledged(r)
  BY <1>3, <1>4 DEF TypeOK, WriteAcknowledged, writing, inds, modem, history
<1>5. CASE TimesOut(r) \/ SeesClosed(r) \/ Receive(r)
  BY <1>3, <1>5 DEF TimesOut, SeesClosed, Receive
<1> QED BY <1>1, <1>2, <1>4, <1>5 DEF Sending, Ending

LEMMA WriterTypes == TypeOK /\ Writes => TypeOK'
<1> SUFFICES ASSUME TypeOK, Writes PROVE TypeOK'
  OBVIOUS
<1>1. CASE TakeWrite
  <2>1. /\ Head(writeQ) \in Requests /\ Tail(writeQ) \in Seq(Requests)
        /\ Len(Tail(writeQ)) <= QueueSize
    <3>1. writeQ \in Seq(Requests) /\ writeQ # <<>> /\ Len(writeQ) <= QueueSize
      BY <1>1 DEF TypeOK, TakeWrite
    <3>2. /\ Head(writeQ) \in Requests /\ Tail(writeQ) \in Seq(Requests)
          /\ Len(Tail(writeQ)) = Len(writeQ) - 1 /\ Len(writeQ) \in Nat
      BY <3>1, Taken
    <3> QED BY <3>1, <3>2, ClientAssumption
  <2> QED BY <1>1, <2>1 DEF TypeOK, TakeWrite, calls, inds, modem, history
<1>2. CASE WriterEnds
  BY <1>2 DEF TypeOK, WriterEnds, calls, inds, modem, history
<1>3. ASSUME NEW r \in Requests, Written(r)
      PROVE  TypeOK'
  BY <1>3 DEF TypeOK, Written, inds, history
<1> QED BY <1>1, <1>2, <1>3 DEF Writes

LEMMA ReaderTypes == TypeOK /\ (Reading \/ ReadFails) => TypeOK'
<1> SUFFICES ASSUME TypeOK, Reading \/ ReadFails PROVE TypeOK'
  OBVIOUS
<1>1. CASE ReadPacket
  <2> DEFINE p == Head(stream)
  <2>1. p \in Packets /\ Tail(stream) \in Seq(Packets) /\ Len(Tail(stream)) <= MaxStream
    BY <1>1, Taken, ClientAssumption DEF TypeOK, ReadPacket
  <2>2. ASSUME p.kind \in Kinds, EnqueueIndication(p)
        PROVE  /\ queue' \in Seq(Events) /\ Len(queue') <= QueueSize
               /\ order' \in Seq(Kinds) /\ latest' \in [Kinds -> 0 .. MaxIndications]
    <3>1. p \in Events /\ p.version \in 0 .. MaxIndications
      BY <2>1, <2>2, EventTypes
    <3>2. /\ queue \in Seq(Events) /\ Len(queue) <= QueueSize
          /\ order \in Seq(Kinds) /\ latest \in [Kinds -> 0 .. MaxIndications]
      BY DEF TypeOK
    <3>3. CASE Len(queue) < QueueSize
      <4>1. queue' = Append(queue, p) /\ order' = order /\ latest' = latest
        BY <2>2, <3>3 DEF EnqueueIndication
      <4>2. Append(queue, p) \in Seq(Events) /\ Len(Append(queue, p)) = Len(queue) + 1
        BY <3>1, <3>2, Put
      <4>3. Len(queue) \in Nat
        BY <3>2, LenProperties
      <4>4. Len(queue') <= QueueSize
        BY <3>3, <4>1, <4>2, <4>3, ClientAssumption
      <4> QED BY <3>2, <4>1, <4>2, <4>4
    <3>4. CASE ~ Len(queue) < QueueSize
      <4>1. Append(order, p.kind) \in Seq(Kinds)
        BY <2>2, <3>2, Put
      <4>2. /\ queue' = queue /\ order' \in {order, Append(order, p.kind)}
            /\ latest' = [latest EXCEPT ![p.kind] = p.version]
        BY <2>2, <3>4 DEF EnqueueIndication, StoresCoalesced
      <4>3. latest' \in [Kinds -> 0 .. MaxIndications]
        BY <2>2, <3>1, <3>2, <4>2
      <4> QED BY <3>2, <4>1, <4>2, <4>3
    <3> QED BY <3>3, <3>4
  <2>3. /\ reader' \in Requests \cup {"reading", "edge", "ended"} /\ recent' \subseteq Requests
        /\ queue' \in Seq(Events) /\ Len(queue') <= QueueSize
        /\ order' \in Seq(Kinds) /\ latest' \in [Kinds -> 0 .. MaxIndications]
        /\ read' \in [Kinds -> 0 .. MaxIndications]
    BY <1>1, <2>1, <2>2, EventTypes DEF ReadPacket, TypeOK
  <2> QED BY <1>1, <2>1, <2>3 DEF TypeOK, ReadPacket, writing
<1>2. ASSUME NEW r \in Requests, DeliverAnswer(r)
      PROVE  TypeOK'
  BY <1>2 DEF TypeOK, DeliverAnswer, writing, inds, modem, history
<1>3. CASE EnqueueEdge
  <2>1. queue \in Seq(Events) /\ Len(queue) \in Nat /\ Len(queue) <= QueueSize
    BY LenProperties DEF TypeOK
  <2>2. Append(queue, EdgeEvent) \in Seq(Events) /\ Len(Append(queue, EdgeEvent)) = Len(queue) + 1
    BY <2>1, Put, EventTypes
  <2>3. queue' = queue \/ (Len(queue) < QueueSize /\ queue' = Append(queue, EdgeEvent))
    BY <1>3 DEF EnqueueEdge
  <2>4. queue' \in Seq(Events) /\ Len(queue') <= QueueSize
    BY <2>1, <2>2, <2>3, ClientAssumption
  <2> QED BY <1>3, <2>4 DEF TypeOK, EnqueueEdge, calls, writing, modem, history
<1>4. CASE EdgeDropped \/ ReaderEnds
  BY <1>4 DEF TypeOK, EdgeDropped, ReaderEnds, calls, writing, inds, modem, history
<1>5. CASE ReadFails
  BY <1>5 DEF TypeOK, ReadFails, FailsPending, writing, inds, modem, history
<1> QED BY <1>1, <1>2, <1>3, <1>4, <1>5 DEF Reading

LEMMA LoopTypes == TypeOK /\ Looping => TypeOK'
<1> SUFFICES ASSUME TypeOK, Looping PROVE TypeOK'
  OBVIOUS
<1>o. \A e \in Events : <<e>> \in Seq(Events) /\ Len(<<e>>) = 1
  OBVIOUS
<1>1. CASE PopCoalesced
  <2>1. CASE order = << >>
    BY <1>1, <2>1 DEF TypeOK, PopCoalesced, calls, writing, modem
  <2>2. CASE order # << >>
    <3> DEFINE k == Head(order)
    <3>1. k \in Kinds /\ Tail(order) \in Seq(Kinds)
      BY <2>2, Taken DEF TypeOK
    <3>2. [kind |-> k, version |-> latest[k]] \in Events
      BY <3>1, EventTypes DEF TypeOK
    <3>3. /\ loop' = "deliver" /\ hand' = <<[kind |-> k, version |-> latest[k]]>>
          /\ order' = Tail(order) /\ latest' = [latest EXCEPT ![k] = 0]
          /\ overtaken' \subseteq overtaken \cup {k}
      BY <1>1, <2>2 DEF PopCoalesced
    <3>4. hand' \in Seq(Events) /\ Len(hand') = 1
      BY <1>o, <3>2, <3>3
    <3> HIDE DEF k
    <3>5. /\ latest' \in [Kinds -> 0 .. MaxIndications] /\ overtaken' \subseteq Kinds
          /\ order' \in Seq(Kinds)
      <4>1. 0 \in 0 .. MaxIndications
        BY ClientAssumption
      <4>2. latest \in [Kinds -> 0 .. MaxIndications] /\ overtaken \subseteq Kinds
        BY DEF TypeOK
      <4> QED BY <3>1, <3>3, <4>1, <4>2
    <3>6. UNCHANGED <<calls, writing, reader, queue, events, closing, modem, read, last, newest>>
      BY <1>1 DEF PopCoalesced
    <3> QED BY <3>3, <3>4, <3>5, <3>6 DEF TypeOK, calls, writing, modem
  <2> QED BY <2>1, <2>2
<1>2. CASE TakeIndication
  <2>1. CASE queue # << >> /\ queue' = Tail(queue) /\ loop' = "deliver" /\ hand' = <<Head(queue)>>
    <3>1. Head(queue) \in Events /\ Tail(queue) \in Seq(Events) /\ Len(Tail(queue)) <= QueueSize
      BY <2>1, Taken, ClientAssumption DEF TypeOK
    <3>2. hand' \in Seq(Events) /\ Len(hand') = 1
      BY <1>o, <2>1, <3>1
    <3> QED BY <1>2, <2>1, <3>1, <3>2 DEF TypeOK, TakeIndication, calls, writing, modem, history
  <2>2. CASE loop' \in {"top", "ended"} /\ UNCHANGED <<hand, queue>>
    BY <1>2, <2>2 DEF TypeOK, TakeIndication, calls, writing, modem, history
  <2> QED BY <1>2, <2>1, <2>2 DEF TakeIndication
<1>3. CASE DeliverEvent
  <2>1. Len(hand) = 1 /\ hand \in Seq(Events)
    BY <1>3 DEF DeliverEvent, TypeOK
  <2>2. events \o hand \in Seq(Events) /\ Len(events \o hand) = Len(events) + 1 /\ Len(events) \in Nat
    <3>1. events \in Seq(Events)
      BY DEF TypeOK
    <3> QED BY <2>1, <3>1, ConcatProperties, LenProperties
  <2>3. hand' \in Seq(Events) /\ Len(hand') = 0
    BY <1>3, EmptySeq DEF DeliverEvent
  <2>4. events' \in Seq(Events) /\ Len(events') <= QueueSize /\ loop' \in {"top", "ended"}
    <3>1. \/ Len(events) < QueueSize /\ events' = events \o hand /\ loop' = "top"
          \/ loop' = "ended" /\ events' = events
      BY <1>3 DEF DeliverEvent
    <3>2. events \in Seq(Events) /\ Len(events) <= QueueSize
      BY DEF TypeOK
    <3>3. CASE Len(events) < QueueSize /\ events' = events \o hand /\ loop' = "top"
      <4>1. Len(events) + 1 <= QueueSize
        BY <2>2, <3>3, ClientAssumption
      <4> QED BY <2>2, <3>3, <4>1
    <3> QED BY <3>1, <3>2, <3>3
  <2> QED BY <1>3, <2>3, <2>4 DEF TypeOK, DeliverEvent, calls, writing, modem, history
<1> QED BY <1>1, <1>2, <1>3 DEF Looping

(* Close, the modem and the consumer.                                      *)
LEMMA OutsideTypes ==
  ASSUME TypeOK,
         CloseBegins \/ CloseEnds \/ Indicates \/ Consume \/ \E r \in Requests : Answers(r)
  PROVE  TypeOK'
<1>1. CASE CloseBegins \/ CloseEnds
  BY <1>1 DEF TypeOK, CloseBegins, CloseEnds, FailsPending, calls, writing, inds, modem, history
<1>2. CASE Indicates
  <2>1. sent' \in 0 .. MaxIndications
    BY <1>2, ClientAssumption DEF TypeOK, Indicates
  <2>2. PICK p \in Packets : stream' = Append(stream, p)
    BY <1>2, <2>1, EventTypes DEF Indicates
  <2>3. stream' \in Seq(Packets) /\ Len(stream') <= MaxStream
    BY <1>2, <2>2, Put, ClientAssumption DEF TypeOK, Indicates
  <2> QED BY <1>2, <2>1, <2>3 DEF TypeOK, Indicates, calls, writing, inds, history
<1>3. CASE Consume
  <2>1. Head(events) \in Events /\ Tail(events) \in Seq(Events) /\ Len(Tail(events)) <= QueueSize
    BY <1>3, Taken, ClientAssumption DEF TypeOK, Consume
  <2>2. last' \in [Kinds -> 0 .. MaxIndications] /\ newest' \in [Kinds -> 0 .. MaxIndications]
    BY <1>3, <2>1, EventTypes DEF TypeOK, Consume
  <2> QED BY <1>3, <2>1, <2>2 DEF TypeOK, Consume, calls, writing, modem
<1>4. ASSUME NEW r \in Requests, Answers(r)
      PROVE  TypeOK'
  BY <1>4, Put, EventTypes, ClientAssumption DEF TypeOK, Answers, calls, writing, inds, history
<1> QED BY <1>1, <1>2, <1>3, <1>4

(* The state keeps its types, and no queue, channel or buffer ever holds   *)
(* more than its capacity (client.go:612-760).                             *)
THEOREM ClientTypes == Spec => []TypeOK
<1>1. Init => TypeOK
  BY TypesInit
<1>2. TypeOK /\ [Next]_vars => TypeOK'
  <2>1. TypeOK /\ UNCHANGED vars => TypeOK'
    BY DEF TypeOK, vars, calls, writing, inds, modem, history
  <2> QED BY <2>1, CallTypes, WriterTypes, ReaderTypes, LoopTypes, OutsideTypes DEF Next
<1> QED BY <1>1, <1>2, PTL DEF Spec

(***************************************************************************)
(* The response channels.                                                  *)
(***************************************************************************)

(* A channel that holds anything, and a transaction, belong to a request   *)
(* that has been sent.                                                     *)
SentFirst ==
  \A r \in Requests :
    pc[r] = "new" => ch[r] = "empty" /\ r \notin transactions /\ reader # r

Types ==
  /\ pc \in [Requests -> {"new", "writing", "written", "waiting", "answered",
                          "failed", "timeout"}]
  /\ ch \in [Requests -> {"empty", "answer", "closed"}]
  /\ transactions \subseteq Requests

ChannelInv == Types /\ SentFirst /\ NoSendOnClosed

LEMMA ChannelInit == Init => ChannelInv
BY NamesApart DEF Init, ChannelInv, Types, SentFirst, NoSendOnClosed

(* What a request does by itself.                                          *)
LEMMA CallKeepsChannels ==
  ASSUME ChannelInv, NEW r \in Requests, Sending(r) \/ Ending(r)
  PROVE  ChannelInv'
<1> USE DEF ChannelInv, Types, SentFirst, NoSendOnClosed
<1>1. CASE Register(r)
  BY <1>1 DEF Register, inds
<1>2. CASE HandOver(r)
  BY <1>2 DEF HandOver, inds
<1>3. CASE \E how \in {"answered", "failed", "timeout"} : pc[r] # "new" /\ Completes(r, how)
  BY <1>3 DEF Completes, inds
<1>4. CASE WriteAcknowledged(r) /\ result[r] = "ok" /\ pc' = [pc EXCEPT ![r] = "waiting"]
           /\ UNCHANGED <<transactions, ch, reader, closing, inds>>
  BY <1>4 DEF WriteAcknowledged, inds
<1>5. ASSUME TimesOut(r) \/ SeesClosed(r) \/ Receive(r)
      PROVE  \E how \in {"answered", "failed", "timeout"} : pc[r] # "new" /\ Completes(r, how)
  BY <1>5 DEF TimesOut, SeesClosed, Receive
<1>6. ASSUME WriteAcknowledged(r)
      PROVE  \/ /\ result[r] = "ok" /\ pc' = [pc EXCEPT ![r] = "waiting"]
                /\ UNCHANGED <<transactions, ch, reader, closing, inds>>
             \/ pc[r] # "new" /\ Completes(r, "failed")
  BY <1>6 DEF WriteAcknowledged
<1> QED BY <1>1, <1>2, <1>3, <1>4, <1>5, <1>6 DEF Sending, Ending

(* The read loop: what it looked up is a transaction, whose channel is     *)
(* open, and nobody but itself closes it before the answer is delivered.   *)
LEMMA ReaderKeepsChannels ==
  ASSUME ChannelInv, Reading \/ ReadFails
  PROVE  ChannelInv'
<1> USE NamesApart DEF ChannelInv, Types, SentFirst, NoSendOnClosed
<1>1. CASE ReadPacket
  <2>1. reader' \in transactions \cup {"reading", "edge"}
    BY <1>1 DEF ReadPacket
  <2> QED BY <1>1, <2>1 DEF ReadPacket
<1>2. ASSUME NEW r \in Requests, DeliverAnswer(r)
      PROVE  ChannelInv'
  BY <1>2 DEF DeliverAnswer, inds
<1>3. CASE EnqueueEdge \/ EdgeDropped \/ ReaderEnds
  <2>1. reader' \in {"reading", "ended"}
    BY <1>3 DEF EnqueueEdge, EdgeDropped, ReaderEnds
  <2>2. UNCHANGED <<pc, transactions, ch, closing, loop>>
    BY <1>3 DEF EnqueueEdge, EdgeDropped, ReaderEnds, calls, inds
  <2> QED BY <2>1, <2>2
<1>4. CASE ReadFails
  BY <1>4 DEF ReadFails, FailsPending, inds
<1> QED BY <1>1, <1>2, <1>3, <1>4 DEF Reading

(* Close closes what is left when all three loops have ended, and an ended *)
(* loop stays so.                                                          *)
LEMMA CloseKeepsChannels ==
  ASSUME ChannelInv, CloseBegins \/ CloseEnds \/ Looping
  PROVE  ChannelInv'
<1> USE NamesApart DEF ChannelInv, Types, SentFirst, NoSendOnClosed
<1>1. CASE CloseBegins
  BY <1>1 DEF CloseBegins, calls
<1>2. CASE CloseEnds
  BY <1>2 DEF CloseEnds, FailsPending, inds
<1>3. CASE Looping
  BY <1>3 DEF Looping, PopCoalesced, TakeIndication, DeliverEvent, calls
<1> QED BY <1>1, <1>2, <1>3

LEMMA ChannelStep == ChannelInv /\ [Next]_vars => ChannelInv'
<1> SUFFICES ASSUME ChannelInv, [Next]_vars PROVE ChannelInv'
  OBVIOUS
<1>1. ASSUME UNCHANGED <<pc, transactions, ch, reader, closing, loop>>
      PROVE  ChannelInv'
  BY <1>1 DEF ChannelInv, Types, SentFirst, NoSendOnClosed
<1>2. CASE Writes
  BY <1>1, <1>2 DEF Writes, TakeWrite, WriterEnds, Written, calls, inds
<1>3. CASE Indicates \/ Consume \/ \E r \in Requests : Answers(r)
  BY <1>1, <1>3 DEF Indicates, Consume, Answers, calls, inds
<1>4. CASE UNCHANGED vars
  BY <1>1, <1>4 DEF vars, calls, inds
<1>5. CASE Reading \/ ReadFails
  BY <1>5, ReaderKeepsChannels
<1>6. CASE CloseBegins \/ CloseEnds \/ Looping
  BY <1>6, CloseKeepsChannels
<1>7. CASE \E r \in Requests : Sending(r) \/ Ending(r)
  BY <1>7, CallKeepsChannels
<1> QED BY <1>2, <1>3, <1>4, <1>5, <1>6, <1>7 DEF Next

(* Nobody sends on, or closes, a closed channel: the read loop lets go of  *)
(* the mutex between the look-up and the send, but only it or a Close that *)
(* has waited for it closes response channels (client.go:402, :612).       *)
THEOREM ClosedChannelsUnused == Spec => []NoSendOnClosed
<1>1. Init => ChannelInv
  BY ChannelInit
<1>2. ChannelInv /\ [Next]_vars => ChannelInv'
  BY ChannelStep
<1>3. ChannelInv => NoSendOnClosed
  BY DEF ChannelInv
<1> QED BY <1>1, <1>2, <1>3, PTL DEF Spec

(***************************************************************************)
(* The newest indication of each kind.                                     *)
(***************************************************************************)

(* The versions of kind k in a sequence, and that they do not fall.        *)
Versions(k, s) == {s[i].version : i \in {i \in DOMAIN s : s[i].kind = k}}
Its(k, x) == IF x.kind = k THEN {x.version} ELSE {}
Sorted(k, s) ==
  \A i, j \in DOMAIN s : i < j /\ s[i].kind = k /\ s[j].kind = k => s[i].version <= s[j].version
UpTo(V, W) == \A v \in V, w \in W : v <= w

LEMMA NoVersions == \A k : Versions(k, << >>) = {} /\ Sorted(k, << >>)
BY DEF Versions, Sorted

LEMMA OneVersion ==
  ASSUME NEW k, NEW x
  PROVE  Versions(k, <<x>>) = Its(k, x)
<1>1. DOMAIN <<x>> = {1} /\ <<x>>[1] = x
  OBVIOUS
<1> QED BY <1>1 DEF Versions, Its

LEMMA AppendVersions ==
  ASSUME NEW k, NEW S, NEW s \in Seq(S), NEW x \in S
  PROVE  /\ Versions(k, Append(s, x)) = Versions(k, s) \cup Its(k, x)
         /\ Sorted(k, s) /\ UpTo(Versions(k, s), Its(k, x)) => Sorted(k, Append(s, x))
<1> DEFINE t == Append(s, x)
<1>1. /\ Len(s) \in Nat /\ DOMAIN s = 1 .. Len(s)
      /\ DOMAIN t = 1 .. Len(s) + 1
      /\ \A i \in 1 .. Len(s) : t[i] = s[i]
      /\ t[Len(s) + 1] = x
  BY AppendProperties, LenProperties
<1>2. DOMAIN t = DOMAIN s \cup {Len(s) + 1} /\ Len(s) + 1 \notin DOMAIN s
  BY <1>1
<1> HIDE DEF t
<1>3. Versions(k, t) = Versions(k, s) \cup Its(k, x)
  BY <1>1, <1>2 DEF Versions, Its
<1>4. ASSUME Sorted(k, s), UpTo(Versions(k, s), Its(k, x)),
             NEW i \in DOMAIN t, NEW j \in DOMAIN t, i < j, t[i].kind = k, t[j].kind = k
      PROVE  t[i].version <= t[j].version
  <2>1. i \in 1 .. Len(s) /\ t[i] = s[i]
    BY <1>1, <1>4
  <2>2. CASE j \in 1 .. Len(s)
    BY <1>1, <1>4, <2>1, <2>2 DEF Sorted
  <2>3. CASE j = Len(s) + 1
    <3>1. t[i].version \in Versions(k, s) /\ t[j].version \in Its(k, x)
      BY <1>1, <1>4, <2>1, <2>3 DEF Versions, Its
    <3> QED BY <1>4, <3>1 DEF UpTo
  <2> QED BY <1>1, <2>2, <2>3
<1> QED BY <1>3, <1>4 DEF Sorted, t

LEMMA TailVersions ==
  ASSUME NEW k, NEW S, NEW s \in Seq(S), s # << >>
  PROVE  /\ Versions(k, s) = Versions(k, Tail(s)) \cup Its(k, Head(s))
         /\ Sorted(k, s) => Sorted(k, Tail(s)) /\ UpTo(Its(k, Head(s)), Versions(k, Tail(s)))
<1> DEFINE t == Tail(s)
           h == Head(s)
<1>1. /\ Len(s) \in Nat /\ Len(s) > 0 /\ DOMAIN s = 1 .. Len(s)
      /\ DOMAIN t = 1 .. Len(s) - 1
      /\ \A i \in 1 .. Len(s) - 1 : t[i] = s[i + 1]
      /\ h = s[1]
  BY HeadTailProperties, LenProperties, EmptySeq
<1> HIDE DEF t, h
<1>2. /\ \A i \in DOMAIN t : i + 1 \in DOMAIN s /\ 1 < i + 1 /\ t[i] = s[i + 1]
      /\ \A j \in DOMAIN s : j = 1 \/ (j - 1 \in DOMAIN t /\ s[j] = t[j - 1])
      /\ 1 \in DOMAIN s
  BY <1>1
<1>3. Versions(k, s) = Versions(k, t) \cup Its(k, h)
  <2>1. ASSUME NEW v \in Versions(k, s)
        PROVE  v \in Versions(k, t) \cup Its(k, h)
    <3>1. PICK j \in DOMAIN s : s[j].kind = k /\ v = s[j].version
      BY <2>1 DEF Versions
    <3> QED BY <1>1, <1>2, <3>1 DEF Versions, Its
  <2>2. ASSUME NEW v \in Versions(k, t) \cup Its(k, h)
        PROVE  v \in Versions(k, s)
    BY <1>1, <1>2, <2>2 DEF Versions, Its
  <2> QED BY <2>1, <2>2
<1>4. ASSUME Sorted(k, s)
      PROVE  Sorted(k, t) /\ UpTo(Its(k, h), Versions(k, t))
  <2>1. \A i, j \in DOMAIN t : i < j => i + 1 < j + 1
    BY <1>1
  <2>2. Sorted(k, t)
    BY <1>2, <1>4, <2>1 DEF Sorted
  <2>3. UpTo(Its(k, h), Versions(k, t))
    BY <1>1, <1>2, <1>4 DEF Sorted, UpTo, Its, Versions
  <2> QED BY <2>2, <2>3
<1> QED BY <1>3, <1>4 DEF t, h

(* Packets of other kinds do not matter.                                   *)
LEMMA AppendOther ==
  ASSUME NEW k, NEW S, NEW s \in Seq(S), NEW x \in S, x.kind # k
  PROVE  /\ Versions(k, Append(s, x)) = Versions(k, s)
         /\ Sorted(k, s) => Sorted(k, Append(s, x))
         /\ Len(Append(s, x)) >= Len(s)
<1>1. Its(k, x) = {} /\ UpTo(Versions(k, s), Its(k, x))
  BY DEF Its, UpTo
<1>2. Len(Append(s, x)) = Len(s) + 1 /\ Len(s) \in Nat
  BY Put
<1>3. Versions(k, Append(s, x)) = Versions(k, s) \cup Its(k, x)
  BY AppendVersions
<1>4. Sorted(k, s) => Sorted(k, Append(s, x))
  BY <1>1, AppendVersions
<1>5. Len(Append(s, x)) >= Len(s)
  BY <1>2
<1> QED BY <1>1, <1>3, <1>4, <1>5

LEMMA TailOther ==
  ASSUME NEW k, NEW S, NEW s \in Seq(S), s # << >>, Head(s).kind # k
  PROVE  /\ Versions(k, Tail(s)) = Versions(k, s)
         /\ Sorted(k, s) => Sorted(k, Tail(s))
<1>1. Its(k, Head(s)) = {}
  BY DEF Its
<1>2. Versions(k, s) = Versions(k, Tail(s)) \cup Its(k, Head(s))
  BY TailVersions
<1>3. Sorted(k, s) => Sorted(k, Tail(s))
  BY TailVersions
<1> QED BY <1>1, <1>2, <1>3

-----------------------------------------------------------------------------
(* What is on its way to the consumer behind the coalesced events.         *)
Ahead(k) == Versions(k, events) \cup Versions(k, hand)
Pending(k) == {newest[k], latest[k]} \cup Ahead(k) \cup Versions(k, queue)

(* What the device holds is newer than what was read.                      *)
StreamInv(k) ==
  /\ read[k] <= sent
  /\ \A v \in Versions(k, stream) : 0 < v /\ read[k] <= v /\ v <= sent
  /\ Sorted(k, stream)

(* As long as none of its events has overtaken another, those of a kind    *)
(* come in their order, and a coalesced one is the next.                   *)
InOrder(k) ==
  /\ newest[k] = last[k]
  /\ Sorted(k, events) /\ Sorted(k, queue)
  /\ UpTo({newest[k]}, Ahead(k) \cup Versions(k, queue))
  /\ UpTo(Versions(k, events), Versions(k, hand))
  /\ UpTo(Ahead(k), Versions(k, queue))
  /\ latest[k] # 0 => UpTo({newest[k]} \cup Ahead(k), {latest[k]})

(* The newest version is on its way or has been got; when the loop is in   *)
(* its select, a coalesced event is newer than what has kept the queue full*)
(* since.                                                                  *)
KindInv(k) ==
  /\ read[k] \in Pending(k) /\ UpTo(Pending(k), {read[k]})
  /\ loop = "select" /\ latest[k] # 0 =>
       Len(queue) >= QueueSize /\ UpTo(Versions(k, queue), {latest[k]})
  /\ k \notin overtaken => InOrder(k)

(* The kinds that have a coalesced event are listed once.                  *)
OrderInv ==
  /\ \A k \in Kinds : latest[k] # 0 <=> \E i \in DOMAIN order : order[i] = k
  /\ \A i, j \in DOMAIN order : order[i] = order[j] => i = j

NewestInv == closing = "open" => OrderInv /\ \A k \in Kinds : StreamInv(k) /\ KindInv(k)

LEMMA KindTypes ==
  ASSUME TypeOK, NEW k \in Kinds
  PROVE  /\ {newest[k], last[k], latest[k], read[k], sent} \subseteq Nat
         /\ Pending(k) \subseteq Nat /\ Ahead(k) \subseteq Nat /\ Versions(k, stream) \subseteq Nat
         /\ Versions(k, events) \subseteq Nat /\ Versions(k, hand) \subseteq Nat
         /\ Versions(k, queue) \subseteq Nat
<1>1. \A n \in 0 .. MaxIndications : n \in Nat
  OBVIOUS
<1>2. {newest[k], last[k], latest[k], read[k], sent} \subseteq Nat
  BY <1>1 DEF TypeOK
<1>3. ASSUME NEW s \in Seq(Packets)
      PROVE  Versions(k, s) \subseteq Nat
  <2>1. \A i \in DOMAIN s : s[i] \in Packets
    BY <1>3, ElementOfSeq, LenProperties
  <2>2. \A p \in Packets : p.version \in Nat
    BY <1>1 DEF Packets
  <2> QED BY <2>1, <2>2 DEF Versions
<1>4. ASSUME NEW s \in Seq(Events)
      PROVE  Versions(k, s) \subseteq Nat
  <2>1. \A i \in DOMAIN s : s[i] \in Events
    BY <1>4, ElementOfSeq, LenProperties
  <2>2. \A p \in Events : p.version \in Nat
    BY <1>1 DEF Events
  <2> QED BY <2>1, <2>2 DEF Versions
<1> QED BY <1>2, <1>3, <1>4 DEF TypeOK, Pending, Ahead

LEMMA NewestInit == Init => NewestInv
<1> SUFFICES ASSUME Init PROVE NewestInv
  OBVIOUS
<1>1. DOMAIN order = {}
  BY DEF Init
<1>2. OrderInv
  BY <1>1 DEF Init, OrderInv
<1>3. ASSUME NEW k \in Kinds
      PROVE  StreamInv(k) /\ KindInv(k)
  <2>1. /\ Versions(k, events) = {} /\ Versions(k, hand) = {} /\ Versions(k, queue) = {}
        /\ Versions(k, stream) = {}
        /\ Sorted(k, events) /\ Sorted(k, queue) /\ Sorted(k, stream)
    BY NoVersions DEF Init
  <2>2. newest[k] = 0 /\ last[k] = 0 /\ latest[k] = 0 /\ read[k] = 0 /\ sent = 0
    BY <1>3 DEF Init
  <2> QED BY <2>1, <2>2 DEF Init, StreamInv, KindInv, InOrder, Pending, Ahead, UpTo
<1> QED BY <1>2, <1>3 DEF NewestInv

-----------------------------------------------------------------------------
(* Steps that leave what is on its way as it was.                          *)
LEMMA SameOnWay ==
  ASSUME TypeOK, NEW k \in Kinds, KindInv(k),
         Versions(k, queue') = Versions(k, queue), Sorted(k, queue) => Sorted(k, queue'),
         Len(queue') >= Len(queue), Len(queue) \in Nat, Len(queue') \in Nat,
         UNCHANGED <<hand, events, loop, overtaken>>,
         latest'[k] = latest[k], read'[k] = read[k], newest'[k] = newest[k], last'[k] = last[k]
  PROVE  KindInv(k)'
<1>1. Pending(k)' = Pending(k) /\ Ahead(k)' = Ahead(k)
  BY DEF Pending, Ahead
<1>2. k \notin overtaken' => InOrder(k)'
  BY <1>1 DEF KindInv, InOrder
<1>3. loop' = "select" /\ latest'[k] # 0 =>
        Len(queue') >= QueueSize /\ UpTo(Versions(k, queue'), {latest'[k]})
  BY ClientAssumption DEF KindInv
<1> QED BY <1>1, <1>2, <1>3 DEF KindInv

(* An indication of the kind is read.                                      *)
LEMMA ReadsKind ==
  ASSUME TypeOK, NEW k \in Kinds, StreamInv(k), KindInv(k),
         ReadPacket, Head(stream).kind = k
  PROVE  StreamInv(k)' /\ KindInv(k)'
<1> DEFINE p == Head(stream)
           v == p.version
<1>0. /\ stream # << >> /\ stream' = Tail(stream) /\ stream \in Seq(Packets)
      /\ p \in Packets /\ p \in Events
      /\ UNCHANGED <<loop, hand, events, sent, last, newest, overtaken>>
      /\ EnqueueIndication(p) /\ read' = [read EXCEPT ![k] = v]
  <2>1. stream # << >> /\ stream \in Seq(Packets)
    BY DEF ReadPacket, TypeOK
  <2>2. p \in Packets /\ p \in Events
    BY <2>1, Taken, EventTypes
  <2>3. p.kind \notin Requests /\ p.kind # Edge
    BY ClientAssumption DEF Edge
  <2>4. EnqueueIndication(p) /\ read' = [read EXCEPT ![k] = v]
    BY <2>3 DEF ReadPacket, TypeOK
  <2> QED BY <2>1, <2>2, <2>4 DEF ReadPacket
<1>1. /\ Versions(k, stream) = Versions(k, stream') \cup {v}
      /\ Sorted(k, stream') /\ UpTo({v}, Versions(k, stream'))
  BY <1>0, TailVersions DEF StreamInv, Its
<1>2. /\ {newest[k], last[k], latest[k], read[k], sent, v} \subseteq Nat
      /\ Versions(k, stream) \subseteq Nat /\ Versions(k, queue) \subseteq Nat
      /\ Versions(k, events) \subseteq Nat /\ Versions(k, hand) \subseteq Nat
  BY <1>1, KindTypes
<1>3. 0 < v /\ read[k] <= v /\ v <= sent /\ read'[k] = v
  BY <1>0, <1>1 DEF StreamInv, TypeOK
<1>4. StreamInv(k)'
  BY <1>0, <1>1, <1>2, <1>3 DEF StreamInv, UpTo
<1>5. /\ UpTo(Versions(k, queue) \cup Ahead(k) \cup {newest[k], latest[k]}, {v})
      /\ queue \in Seq(Events) /\ latest \in [Kinds -> 0 .. MaxIndications]
  BY <1>2, <1>3 DEF KindInv, Pending, Ahead, UpTo, TypeOK
<1>6. Ahead(k)' = Ahead(k) /\ newest' = newest /\ last' = last
  BY <1>0 DEF Ahead
<1> HIDE DEF v
<1>7. CASE Len(queue) < QueueSize
  <2>1. queue' = Append(queue, p) /\ latest' = latest
    BY <1>0, <1>7 DEF EnqueueIndication
  <2>2. Versions(k, queue') = Versions(k, queue) \cup {v}
        /\ (Sorted(k, queue) => Sorted(k, queue'))
    <3>1. Its(k, p) = {v}
      BY DEF Its, v
    <3>2. UpTo(Versions(k, queue), Its(k, p))
      BY <1>5, <3>1 DEF UpTo
    <3>3. p \in Events /\ queue \in Seq(Events)
      BY <1>0, <1>5
    <3> HIDE DEF p
    <3>4. Versions(k, Append(queue, p)) = Versions(k, queue) \cup Its(k, p)
      BY <3>3, AppendVersions
    <3>5. Sorted(k, queue) => Sorted(k, Append(queue, p))
      BY <3>2, <3>3, AppendVersions
    <3> QED BY <2>1, <3>1, <3>4, <3>5
  <2>3. ~ (loop = "select" /\ latest[k] # 0)
    <3>1. Len(queue) \in Nat
      BY <1>5, LenProperties
    <3> QED BY <1>7, <3>1, ClientAssumption DEF KindInv
  <2>4. read'[k] \in Pending(k)' /\ UpTo(Pending(k), {v}) /\ Pending(k)' = Pending(k) \cup {v}
    BY <1>3, <1>5, <1>6, <2>1, <2>2 DEF Pending, UpTo
  <2>5. k \notin overtaken => InOrder(k)'
    BY <1>0, <1>2, <1>5, <1>6, <2>1, <2>2 DEF KindInv, InOrder, UpTo
  <2> QED BY <1>0, <1>2, <1>3, <1>4, <2>1, <2>3, <2>4, <2>5 DEF KindInv, UpTo
<1>8. CASE ~ Len(queue) < QueueSize
  <2>1. queue' = queue /\ latest' = [latest EXCEPT ![k] = v]
    BY <1>0, <1>8 DEF EnqueueIndication, StoresCoalesced, v
  <2>2. latest'[k] = v
    BY <1>5, <2>1
  <2>3. Len(queue') >= QueueSize
    <3>1. Len(queue) \in Nat
      BY <1>5, LenProperties
    <3> QED BY <1>8, <2>1, <3>1, ClientAssumption
  <2>4. read'[k] \in Pending(k)' /\ UpTo(Pending(k)', {v})
    BY <1>2, <1>3, <1>5, <1>6, <2>1, <2>2 DEF Pending, UpTo
  <2>5. k \notin overtaken => InOrder(k)'
    BY <1>0, <1>2, <1>5, <1>6, <2>1, <2>2 DEF KindInv, InOrder, UpTo
  <2> QED BY <1>0, <1>3, <1>4, <1>5, <2>1, <2>2, <2>3, <2>4, <2>5 DEF KindInv, UpTo
<1> QED BY <1>4, <1>7, <1>8

(* Anything else is read.                                                  *)
LEMMA ReadsOther ==
  ASSUME TypeOK, TypeOK', NEW k \in Kinds, StreamInv(k), KindInv(k),
         ReadPacket, Head(stream).kind # k
  PROVE  StreamInv(k)' /\ KindInv(k)'
<1> DEFINE p == Head(stream)
<1>0. /\ stream # << >> /\ stream' = Tail(stream) /\ stream \in Seq(Packets)
      /\ UNCHANGED <<loop, hand, events, sent, last, newest, overtaken>>
      /\ queue \in Seq(Events) /\ p \in Packets
  <2>1. stream # << >> /\ stream \in Seq(Packets)
    BY DEF ReadPacket, TypeOK
  <2> QED BY <2>1, Taken DEF ReadPacket, TypeOK
<1>1. Versions(k, stream') = Versions(k, stream) /\ (Sorted(k, stream) => Sorted(k, stream'))
  BY <1>0, TailOther
<1>2. \/ UNCHANGED <<queue, latest, read>>
      \/ /\ p.kind \in Kinds /\ read' = [read EXCEPT ![p.kind] = p.version]
         /\ \/ queue' = Append(queue, p) /\ latest' = latest
            \/ queue' = queue /\ latest' = [latest EXCEPT ![p.kind] = p.version]
  BY DEF ReadPacket, EnqueueIndication, StoresCoalesced
<1>3. read'[k] = read[k] /\ latest'[k] = latest[k]
  BY <1>2 DEF TypeOK
<1>4. Len(queue) \in Nat /\ Len(queue') \in Nat
  BY LenProperties DEF TypeOK
<1>5. /\ Versions(k, queue') = Versions(k, queue) /\ (Sorted(k, queue) => Sorted(k, queue'))
      /\ Len(queue') >= Len(queue)
  <2>1. CASE queue' = queue
    BY <1>4, <2>1
  <2>2. CASE p.kind \in Kinds /\ queue' = Append(queue, p)
    <3>1. p \in Events
      BY <1>0, <2>2, EventTypes
    <3>2. p.kind # k
      OBVIOUS
    <3> HIDE DEF p
    <3> QED BY <1>0, <2>2, <3>1, <3>2, AppendOther
  <2> QED BY <1>2, <2>1, <2>2
<1>6. StreamInv(k)'
  BY <1>0, <1>1, <1>3 DEF StreamInv
<1>7. KindInv(k)'
  BY <1>0, <1>3, <1>4, <1>5, SameOnWay
<1> QED BY <1>6, <1>7

LEMMA EdgeOther ==
  ASSUME TypeOK, TypeOK', NEW k \in Kinds, StreamInv(k), KindInv(k), EnqueueEdge
  PROVE  StreamInv(k)' /\ KindInv(k)'
<1>1. /\ UNCHANGED <<loop, hand, events, sent, last, newest, overtaken, stream, read, latest>>
      /\ queue' = queue \/ queue' = Append(queue, EdgeEvent)
      /\ queue \in Seq(Events)
  BY DEF EnqueueEdge, modem, history, TypeOK
<1>2. Len(queue) \in Nat /\ Len(queue') \in Nat
  BY LenProperties DEF TypeOK
<1>3. EdgeEvent.kind # k /\ EdgeEvent \in Events
  BY EventTypes, ClientAssumption DEF EdgeEvent, Edge
<1>4. /\ Versions(k, queue') = Versions(k, queue) /\ (Sorted(k, queue) => Sorted(k, queue'))
      /\ Len(queue') >= Len(queue)
  <2>1. CASE queue' = queue
    BY <1>2, <2>1
  <2>2. CASE queue' = Append(queue, EdgeEvent)
    BY <1>1, <1>3, <2>2, AppendOther
  <2> QED BY <1>1, <2>1, <2>2
<1>5. StreamInv(k)'
  BY <1>1 DEF StreamInv
<1> QED BY <1>1, <1>2, <1>4, <1>5, SameOnWay

-----------------------------------------------------------------------------
(* The indication loop.                                                    *)
LEMMA EmptyHand ==
  ASSUME TypeOK, loop # "deliver"
  PROVE  hand = << >>
BY EmptySeq DEF TypeOK

LEMMA PopKeepsKind ==
  ASSUME TypeOK, NEW k \in Kinds, OrderInv, StreamInv(k), KindInv(k), PopCoalesced
  PROVE  StreamInv(k)' /\ KindInv(k)'
<1>1. /\ UNCHANGED <<queue, events, stream, sent, read, last, newest>>
      /\ loop = "top" /\ hand = << >> /\ Versions(k, hand) = {}
  BY EmptyHand, NoVersions DEF PopCoalesced, modem
<1>2. StreamInv(k)'
  BY <1>1 DEF StreamInv
<1>3. /\ {newest[k], last[k], latest[k], read[k]} \subseteq Nat
      /\ Versions(k, queue) \subseteq Nat /\ Versions(k, events) \subseteq Nat
  BY KindTypes
<1>4. CASE order = << >>
  <2>1. latest[k] = 0
    BY <1>4 DEF OrderInv
  <2>2. UNCHANGED <<hand, latest, overtaken>>
    BY <1>4 DEF PopCoalesced
  <2>3. Pending(k)' = Pending(k) /\ Ahead(k)' = Ahead(k)
    BY <1>1, <2>2 DEF Pending, Ahead
  <2> QED BY <1>1, <1>2, <2>1, <2>2, <2>3 DEF KindInv, InOrder
<1>5. CASE order # << >>
  <2> DEFINE q == Head(order)
             e == [kind |-> q, version |-> latest[q]]
  <2>1. /\ hand' = <<e>> /\ loop' = "deliver" /\ latest' = [latest EXCEPT ![q] = 0]
        /\ overtaken' = IF \E i \in DOMAIN queue : queue[i].kind = q
                        THEN overtaken \cup {q} ELSE overtaken
    BY <1>5 DEF PopCoalesced
  <2>2. q \in Kinds /\ \E i \in DOMAIN order : order[i] = q
    <3>1. order \in Seq(Kinds) /\ order # << >>
      BY <1>5 DEF TypeOK
    <3>2. Head(order) = order[1] /\ 1 \in DOMAIN order
      BY <3>1, HeadTailProperties, LenProperties, EmptySeq
    <3> QED BY <3>1, <3>2, Taken
  <2>3. Versions(k, hand') = Its(k, e) /\ e.kind = q /\ e.version = latest[q]
    BY <2>1, OneVersion
  <2>4. latest \in [Kinds -> 0 .. MaxIndications]
    BY DEF TypeOK
  <2> HIDE DEF e, q
  <2>5. CASE q = k
    <3>1. Versions(k, hand') = {latest[k]} /\ latest'[k] = 0 /\ latest[k] # 0
      BY <2>1, <2>2, <2>3, <2>4, <2>5 DEF Its, OrderInv
    <3>2. read'[k] \in Pending(k)' /\ UpTo(Pending(k)', {read'[k]})
      BY <1>1, <1>3, <3>1 DEF KindInv, Pending, Ahead, UpTo
    <3>3. ASSUME k \notin overtaken'
          PROVE  k \notin overtaken /\ Versions(k, queue) = {}
      BY <2>1, <2>5, <3>3 DEF Versions
    <3>4. k \notin overtaken' => InOrder(k)'
      BY <1>1, <3>1, <3>3 DEF KindInv, InOrder, Ahead, UpTo
    <3> QED BY <1>2, <2>1, <3>2, <3>4 DEF KindInv
  <2>6. CASE q # k
    <3>1. Versions(k, hand') = {} /\ latest'[k] = latest[k]
      BY <2>1, <2>3, <2>4, <2>6 DEF Its
    <3>2. Pending(k)' = Pending(k) /\ Ahead(k)' = Ahead(k)
      BY <1>1, <3>1 DEF Pending, Ahead
    <3>3. k \notin overtaken' => k \notin overtaken
      BY <2>1
    <3> QED BY <1>1, <1>2, <2>1, <3>1, <3>2, <3>3 DEF KindInv, InOrder
  <2> QED BY <2>5, <2>6
<1> QED BY <1>4, <1>5

LEMMA TakeKeepsKind ==
  ASSUME TypeOK, NEW k \in Kinds, StreamInv(k), KindInv(k), TakeIndication, closing = "open"
  PROVE  StreamInv(k)' /\ KindInv(k)'
<1>1. /\ UNCHANGED <<events, stream, sent, read, last, newest, latest, overtaken>>
      /\ loop = "select" /\ hand = << >> /\ Versions(k, hand) = {} /\ loop' # "select"
      /\ queue \in Seq(Events)
  BY EmptyHand, NoVersions DEF TakeIndication, modem, history, TypeOK
<1>2. StreamInv(k)'
  BY <1>1 DEF StreamInv
<1>3. CASE UNCHANGED <<hand, queue>>
  <2>1. Pending(k)' = Pending(k) /\ Ahead(k)' = Ahead(k)
    BY <1>1, <1>3 DEF Pending, Ahead
  <2> QED BY <1>1, <1>2, <1>3, <2>1 DEF KindInv, InOrder
<1>4. CASE queue # << >> /\ queue' = Tail(queue) /\ hand' = <<Head(queue)>>
  <2>1. /\ Versions(k, hand') = Its(k, Head(queue))
        /\ Versions(k, queue) = Versions(k, queue') \cup Its(k, Head(queue))
        /\ Sorted(k, queue) => Sorted(k, queue') /\ UpTo(Its(k, Head(queue)), Versions(k, queue'))
    BY <1>1, <1>4, OneVersion, TailVersions
  <2>2. Pending(k)' = Pending(k)
    BY <1>1, <2>1 DEF Pending, Ahead
  <2>3. Ahead(k)' = Versions(k, events) \cup Its(k, Head(queue)) /\ Ahead(k) = Versions(k, events)
    BY <1>1, <2>1 DEF Ahead
  <2>4. ASSUME k \notin overtaken
        PROVE  InOrder(k)'
    <3>1. InOrder(k) /\ (latest[k] # 0 => UpTo(Versions(k, queue), {latest[k]}))
      BY <1>1, <2>4 DEF KindInv
    <3> QED BY <1>1, <2>1, <2>3, <3>1 DEF InOrder, UpTo
  <2> QED BY <1>1, <1>2, <2>2, <2>4 DEF KindInv
<1> QED BY <1>3, <1>4 DEF TakeIndication

LEMMA DeliverKeepsKind ==
  ASSUME TypeOK, NEW k \in Kinds, StreamInv(k), KindInv(k), DeliverEvent, closing = "open"
  PROVE  StreamInv(k)' /\ KindInv(k)'
<1>1. /\ UNCHANGED <<queue, stream, sent, read, last, newest, latest, overtaken>>
      /\ events' = events \o hand /\ hand' = << >> /\ loop' = "top"
      /\ events \in Seq(Events) /\ hand \in Seq(Events) /\ Len(hand) = 1
  BY DEF DeliverEvent, modem, history, TypeOK
<1>2. StreamInv(k)'
  BY <1>1 DEF StreamInv
<1>3. PICK e \in Events : hand = <<e>>
  <2>1. hand[1] \in Events
    <3>1. 1 \in 1 .. Len(hand)
      BY <1>1
    <3> QED BY <1>1, <3>1, ElementOfSeq, Zenon
  <2>2. hand = <<hand[1]>>
    BY <1>1
  <2> QED BY <2>1, <2>2
<1>4. events' = Append(events, e)
  BY <1>1, <1>3
<1>5. Versions(k, hand) = Its(k, e) /\ Versions(k, hand') = {}
  BY <1>1, <1>3, OneVersion, NoVersions
<1>6. /\ Versions(k, events') = Versions(k, events) \cup Its(k, e)
      /\ Sorted(k, events) /\ UpTo(Versions(k, events), Its(k, e)) => Sorted(k, events')
  BY <1>1, <1>4, AppendVersions
<1>7. Pending(k)' = Pending(k) /\ Ahead(k)' = Ahead(k)
  BY <1>1, <1>5, <1>6 DEF Pending, Ahead
<1>8. k \notin overtaken => InOrder(k)'
  BY <1>1, <1>5, <1>6, <1>7 DEF KindInv, InOrder, UpTo
<1> QED BY <1>1, <1>2, <1>7, <1>8 DEF KindInv

(* The consumer.                                                           *)
LEMMA ConsumeKeepsKind ==
  ASSUME TypeOK, NEW k \in Kinds, StreamInv(k), KindInv(k), Consume
  PROVE  StreamInv(k)' /\ KindInv(k)'
<1> DEFINE e == Head(events)
<1>1. /\ UNCHANGED <<queue, hand, loop, stream, sent, read, latest, overtaken>>
      /\ events' = Tail(events) /\ events # << >> /\ events \in Seq(Events)
  BY DEF Consume, modem, TypeOK
<1>2. StreamInv(k)'
  BY <1>1 DEF StreamInv
<1>3. /\ {newest[k], last[k], latest[k], read[k]} \subseteq Nat
      /\ Versions(k, queue) \subseteq Nat /\ Versions(k, events) \subseteq Nat
      /\ Versions(k, hand) \subseteq Nat
      /\ last \in [Kinds -> 0 .. MaxIndications] /\ newest \in [Kinds -> 0 .. MaxIndications]
  BY KindTypes DEF TypeOK
<1>4. /\ Versions(k, events) = Versions(k, events') \cup Its(k, e)
      /\ Sorted(k, events) => Sorted(k, events') /\ UpTo(Its(k, e), Versions(k, events'))
  BY <1>1, TailVersions
<1>5. Ahead(k) = Ahead(k)' \cup Its(k, e)
  BY <1>1, <1>4 DEF Ahead
<1>6. CASE e.kind # k
  <2>1. newest'[k] = newest[k] /\ last'[k] = last[k] /\ Its(k, e) = {}
    BY <1>3, <1>6 DEF Consume, Its
  <2>2. Ahead(k)' = Ahead(k) /\ Versions(k, events') = Versions(k, events)
    BY <1>4, <1>5, <2>1
  <2>3. Pending(k)' = Pending(k)
    BY <1>1, <2>1, <2>2 DEF Pending
  <2> QED BY <1>1, <1>2, <1>4, <2>1, <2>2, <2>3 DEF KindInv, InOrder
<1>7. CASE e.kind = k
  <2> DEFINE v == e.version
  <2>1. /\ last'[k] = v /\ newest'[k] = (IF v > newest[k] THEN v ELSE newest[k])
        /\ Its(k, e) = {v}
    BY <1>3, <1>7 DEF Consume, Its
  <2> HIDE DEF v, e
  <2>2. v \in Nat /\ v <= read[k] /\ newest[k] <= read[k]
    BY <1>3, <1>4, <2>1 DEF KindInv, Pending, Ahead, UpTo
  <2>3. read[k] \in Pending(k)' /\ UpTo(Pending(k)', {read[k]})
    BY <1>1, <1>3, <1>4, <1>5, <2>1, <2>2 DEF KindInv, Pending, UpTo
  <2>4. ASSUME k \notin overtaken
        PROVE  InOrder(k)'
    <3>1. InOrder(k)
      BY <2>4 DEF KindInv
    <3>2. newest'[k] = v /\ last'[k] = v
      BY <1>3, <1>4, <1>5, <2>1, <2>2, <3>1 DEF InOrder, UpTo
    <3>3. Sorted(k, events) /\ UpTo({v}, Versions(k, events')) /\ Sorted(k, events')
      BY <1>4, <2>1, <3>1 DEF InOrder
    <3>4. v \in Versions(k, events) /\ v \in Ahead(k)
          /\ Versions(k, events') \subseteq Versions(k, events) /\ Ahead(k)' \subseteq Ahead(k)
      BY <1>4, <1>5, <2>1
    <3>5. UpTo({v}, Ahead(k)' \cup Versions(k, queue))
      BY <1>1, <3>1, <3>3, <3>4 DEF InOrder, UpTo, Ahead
    <3>6. latest[k] # 0 => UpTo({v} \cup Ahead(k)', {latest[k]})
      BY <3>1, <3>4 DEF InOrder, UpTo
    <3>7. UpTo(Versions(k, events'), Versions(k, hand)) /\ UpTo(Ahead(k)', Versions(k, queue))
      BY <3>1, <3>4 DEF InOrder, UpTo
    <3> QED BY <1>1, <3>1, <3>2, <3>3, <3>5, <3>6, <3>7 DEF InOrder
  <2> QED BY <1>1, <1>2, <2>3, <2>4 DEF KindInv
<1> QED BY <1>6, <1>7

(* The modem.                                                              *)
LEMMA ModemKeepsKind ==
  ASSUME TypeOK, NEW k \in Kinds, StreamInv(k), KindInv(k),
         Indicates \/ \E r \in Requests : Answers(r)
  PROVE  StreamInv(k)' /\ KindInv(k)'
<1>1. /\ UNCHANGED <<queue, hand, events, loop, read, latest, overtaken, newest, last>>
      /\ stream \in Seq(Packets)
  BY DEF Indicates, Answers, inds, history, TypeOK
<1>2. Pending(k)' = Pending(k) /\ Ahead(k)' = Ahead(k)
  BY <1>1 DEF Pending, Ahead
<1>3. KindInv(k)'
  BY <1>1, <1>2 DEF KindInv, InOrder
<1>4. sent \in Nat /\ read[k] \in Nat /\ Versions(k, stream) \subseteq Nat
  BY KindTypes
<1>5. ASSUME NEW p \in Packets, p.kind # k, stream' = Append(stream, p), sent' \in {sent, sent + 1}
      PROVE  StreamInv(k)'
  <2>1. Versions(k, stream') = Versions(k, stream) /\ (Sorted(k, stream) => Sorted(k, stream'))
    BY <1>1, <1>5, AppendOther
  <2> QED BY <1>1, <1>4, <1>5, <2>1 DEF StreamInv
<1>6. ASSUME NEW r \in Requests, Answers(r)
      PROVE  StreamInv(k)'
  <2>1. Answer(r) \in Packets /\ Answer(r).kind # k
    BY EventTypes, ClientAssumption DEF Answer
  <2> QED BY <1>5, <1>6, <2>1 DEF Answers
<1>7. ASSUME Indicates
      PROVE  StreamInv(k)'
  <2>1. sent' = sent + 1 /\ sent' \in 0 .. MaxIndications
    BY <1>4, <1>7, ClientAssumption DEF Indicates
  <2>2. PICK j \in Kinds \cup {Edge} :
          stream' = Append(stream, IF j = Edge THEN EdgeEvent ELSE [kind |-> j, version |-> sent'])
    BY <1>7 DEF Indicates
  <2>3. CASE j = k
    <3>1. k # Edge
      BY ClientAssumption DEF Edge
    <3>2. PICK p \in Packets :
            stream' = Append(stream, p) /\ p.kind = k /\ p.version = sent'
      BY <2>1, <2>2, <2>3, <3>1, EventTypes
    <3>3. UpTo(Versions(k, stream), {sent'})
      BY <1>4, <2>1 DEF StreamInv, UpTo
    <3>4. Versions(k, Append(stream, p)) = Versions(k, stream) \cup Its(k, p)
      BY <1>1, <3>2, AppendVersions
    <3>5. Sorted(k, stream) /\ UpTo(Versions(k, stream), Its(k, p)) => Sorted(k, Append(stream, p))
      BY <1>1, <3>2, AppendVersions
    <3>6. Versions(k, stream') = Versions(k, stream) \cup {sent'} /\ Sorted(k, stream')
      BY <3>2, <3>3, <3>4, <3>5 DEF StreamInv, Its
    <3> QED BY <1>1, <1>4, <2>1, <3>6 DEF StreamInv
  <2>4. CASE j # k
    <3> DEFINE p == IF j = Edge THEN EdgeEvent ELSE [kind |-> j, version |-> sent']
    <3>1. p \in Packets /\ p.kind # k
      BY <2>1, <2>2, <2>4, EventTypes, ClientAssumption DEF EdgeEvent, Edge
    <3> QED BY <1>5, <2>1, <2>2, <3>1
  <2> QED BY <2>3, <2>4
<1> QED BY <1>3, <1>6, <1>7

-----------------------------------------------------------------------------
(* The list of coalesced kinds.                                            *)
LEMMA StoreKeepsOrder ==
  ASSUME TypeOK, OrderInv, NEW k \in Kinds, NEW v, v # 0,
         latest' = [latest EXCEPT ![k] = v],
         order' = IF latest[k] = 0 THEN Append(order, k) ELSE order
  PROVE  OrderInv'
<1>1. /\ order \in Seq(Kinds) /\ Len(order) \in Nat /\ DOMAIN order = 1 .. Len(order)
      /\ latest'[k] = v /\ \A j \in Kinds \ {k} : latest'[j] = latest[j]
  BY LenProperties DEF TypeOK
<1>2. CASE latest[k] # 0
  BY <1>1, <1>2 DEF OrderInv
<1>3. CASE latest[k] = 0
  <2>1. /\ DOMAIN order' = DOMAIN order \cup {Len(order) + 1} /\ Len(order) + 1 \notin DOMAIN order
        /\ order'[Len(order) + 1] = k /\ \A i \in DOMAIN order : order'[i] = order[i]
    <3>1. order' = Append(order, k)
      BY <1>3
    <3>2. /\ Len(order') = Len(order) + 1 /\ order'[Len(order) + 1] = k
          /\ \A i \in 1 .. Len(order) : order'[i] = order[i] /\ order' \in Seq(Kinds)
      BY <1>1, <3>1, AppendProperties
    <3>3. DOMAIN order' = 1 .. Len(order) + 1
      BY <1>1, <3>1, <3>2, AppendProperties, LenProperties
    <3> QED BY <1>1, <3>2, <3>3
  <2>2. \A i \in DOMAIN order : order[i] # k
    BY <1>3 DEF OrderInv
  <2> QED BY <1>1, <1>3, <2>1, <2>2 DEF OrderInv
<1> QED BY <1>2, <1>3

LEMMA PopKeepsOrder ==
  ASSUME TypeOK, OrderInv, order # << >>,
         latest' = [latest EXCEPT ![Head(order)] = 0], order' = Tail(order)
  PROVE  OrderInv'
<1> DEFINE k == Head(order)
<1>1. /\ Len(order) \in Nat /\ Len(order) > 0 /\ DOMAIN order = 1 .. Len(order)
      /\ DOMAIN order' = 1 .. Len(order) - 1
      /\ \A i \in 1 .. Len(order) - 1 : order'[i] = order[i + 1]
      /\ k = order[1] /\ k \in Kinds
  <2>1. order \in Seq(Kinds)
    BY DEF TypeOK
  <2> QED BY <2>1, HeadTailProperties, LenProperties, EmptySeq
<1>2. latest'[k] = 0 /\ \A j \in Kinds \ {k} : latest'[j] = latest[j]
  BY <1>1 DEF TypeOK
<1> HIDE DEF k
<1>3. /\ \A i \in DOMAIN order' : i + 1 \in DOMAIN order /\ i + 1 # 1 /\ order'[i] = order[i + 1]
      /\ \A j \in DOMAIN order : j = 1 \/ (j - 1 \in DOMAIN order' /\ order[j] = order'[j - 1])
      /\ 1 \in DOMAIN order /\ \A i, j \in DOMAIN order' : i + 1 = j + 1 => i = j
  BY <1>1
<1>4. \A i \in DOMAIN order' : order'[i] # k
  BY <1>1, <1>3 DEF OrderInv
<1>5. ASSUME NEW j \in Kinds \ {k}
      PROVE  (\E i \in DOMAIN order : order[i] = j) <=> \E i \in DOMAIN order' : order'[i] = j
  <2>1. ASSUME NEW i \in DOMAIN order, order[i] = j
        PROVE  \E h \in DOMAIN order' : order'[h] = j
    <3>1. i # 1
      BY <1>1, <1>5, <2>1
    <3>2. i - 1 \in DOMAIN order' /\ order[i] = order'[i - 1]
      BY <1>3, <3>1
    <3> QED BY <2>1, <3>2
  <2>2. ASSUME NEW i \in DOMAIN order', order'[i] = j
        PROVE  \E h \in DOMAIN order : order[h] = j
    <3>1. i + 1 \in DOMAIN order /\ order'[i] = order[i + 1]
      BY <1>3
    <3> QED BY <2>2, <3>1
  <2> QED BY <2>1, <2>2
<1>6. \A j \in Kinds : latest'[j] # 0 <=> \E i \in DOMAIN order' : order'[i] = j
  BY <1>2, <1>4, <1>5 DEF OrderInv
<1>7. \A i, j \in DOMAIN order' : order'[i] = order'[j] => i = j
  BY <1>3 DEF OrderInv
<1> QED BY <1>6, <1>7 DEF OrderInv

LEMMA NewestStep == TypeOK /\ TypeOK' /\ NewestInv /\ [Next]_vars => NewestInv'
<1> SUFFICES ASSUME TypeOK, TypeOK', NewestInv, [Next]_vars, closing' = "open"
             PROVE  OrderInv' /\ \A k \in Kinds : StreamInv(k)' /\ KindInv(k)'
  BY DEF NewestInv
<1>1. closing = "open" => OrderInv /\ \A k \in Kinds : StreamInv(k) /\ KindInv(k)
  BY DEF NewestInv
<1>2. CASE ReadPacket
  <2>1. OrderInv /\ \A k \in Kinds : StreamInv(k) /\ KindInv(k)
    BY <1>1, <1>2 DEF ReadPacket
  <2>2. \A k \in Kinds : StreamInv(k)' /\ KindInv(k)'
    BY <1>2, <2>1, ReadsKind, ReadsOther
  <2>3. ASSUME ~ UNCHANGED <<order, latest>>
        PROVE  OrderInv'
    <3> DEFINE p == Head(stream)
    <3>1. /\ p.kind \in Kinds /\ stream # << >> /\ stream \in Seq(Packets)
          /\ latest' = [latest EXCEPT ![p.kind] = p.version]
          /\ order' = IF latest[p.kind] = 0 THEN Append(order, p.kind) ELSE order
      BY <1>2, <2>3 DEF ReadPacket, EnqueueIndication, StoresCoalesced, TypeOK
    <3>2. p.version \in Versions(p.kind, stream)
      BY <3>1, TailVersions DEF Its
    <3>3. p.version # 0
      BY <2>1, <3>1, <3>2, KindTypes DEF StreamInv
    <3> HIDE DEF p
    <3> QED BY <2>1, <3>1, <3>3, StoreKeepsOrder
  <2>4. UNCHANGED <<order, latest>> => OrderInv'
    BY <2>1 DEF OrderInv
  <2> QED BY <2>2, <2>3, <2>4
<1>3. CASE PopCoalesced
  <2>1. OrderInv /\ \A k \in Kinds : StreamInv(k) /\ KindInv(k)
    BY <1>1, <1>3 DEF PopCoalesced
  <2>2. order # << >> => latest' = [latest EXCEPT ![Head(order)] = 0] /\ order' = Tail(order)
    BY <1>3 DEF PopCoalesced
  <2>3. order = << >> => UNCHANGED <<order, latest>>
    BY <1>3 DEF PopCoalesced
  <2>4. OrderInv'
    BY <2>1, <2>2, <2>3, PopKeepsOrder DEF OrderInv
  <2> QED BY <1>3, <2>1, <2>4, PopKeepsKind
<1>4. CASE EnqueueEdge \/ TakeIndication \/ DeliverEvent \/ Consume \/ Indicates
           \/ \E r \in Requests : Answers(r)
  <2>1. closing = "open" /\ UNCHANGED <<order, latest>>
    BY <1>4 DEF EnqueueEdge, TakeIndication, DeliverEvent, Consume, Indicates, Answers, inds
  <2>2. OrderInv' /\ \A k \in Kinds : StreamInv(k) /\ KindInv(k)
    BY <1>1, <2>1 DEF OrderInv
  <2>3. \A k \in Kinds : StreamInv(k)' /\ KindInv(k)'
    BY <1>4, <2>1, <2>2, EdgeOther, TakeKeepsKind, DeliverKeepsKind, ConsumeKeepsKind,
       ModemKeepsKind
  <2> QED BY <2>2, <2>3
<1>5. ASSUME closing = "open", UNCHANGED <<inds, stream, sent, history>>
      PROVE  OrderInv' /\ \A k \in Kinds : StreamInv(k)' /\ KindInv(k)'
  <2>1. UNCHANGED <<queue, order, latest, loop, hand, events, read, last, newest, overtaken>>
    BY <1>5 DEF inds, history
  <2>2. OrderInv'
    BY <1>1, <1>5, <2>1 DEF OrderInv
  <2>3. ASSUME NEW k \in Kinds
        PROVE  StreamInv(k)' /\ KindInv(k)'
    BY <1>1, <1>5, <2>1 DEF StreamInv, KindInv, InOrder, Pending, Ahead
  <2> QED BY <2>2, <2>3
<1>6. CASE \/ \E r \in Requests : DeliverAnswer(r) \/ Sending(r) \/ Ending(r)
           \/ EdgeDropped \/ ReaderEnds \/ ReadFails \/ Writes \/ CloseBegins \/ CloseEnds
           \/ UNCHANGED vars
  <2>1. CASE \E r \in Requests : DeliverAnswer(r) \/ Sending(r)
    BY <1>5, <2>1 DEF DeliverAnswer, Sending, Register, HandOver, TimesOut, Completes, modem
  <2>2. CASE \E r \in Requests : Ending(r)
    BY <1>5, <2>2 DEF Ending, WriteAcknowledged, Receive, SeesClosed, Completes, modem
  <2>3. CASE EdgeDropped \/ ReaderEnds \/ ReadFails \/ CloseBegins \/ CloseEnds \/ UNCHANGED vars
    BY <1>5, <2>3 DEF EdgeDropped, ReaderEnds, ReadFails, CloseBegins, CloseEnds, vars, modem
  <2>4. CASE Writes
    BY <1>5, <2>4 DEF Writes, TakeWrite, WriterEnds, Written, modem
  <2> QED BY <1>6, <2>1, <2>2, <2>3, <2>4
<1> QED BY <1>2, <1>3, <1>4, <1>6 DEF Next, Reading, Looping

LEMMA NewestFollows == TypeOK /\ NewestInv => NewestArrives
<1> SUFFICES ASSUME TypeOK, NewestInv, closing = "open", NEW k \in Kinds, ~ InFlight(k)
             PROVE  read[k] = IF k \in overtaken THEN newest[k] ELSE last[k]
  BY DEF NewestArrives
<1>1. /\ latest[k] = 0 /\ Versions(k, events) = {} /\ Versions(k, hand) = {}
      /\ Versions(k, queue) = {}
  BY DEF InFlight, Versions
<1>2. KindInv(k)
  BY DEF NewestInv
<1>3. read[k] \in Nat /\ newest[k] \in Nat
  BY KindTypes
<1>4. read[k] = newest[k]
  BY <1>1, <1>2, <1>3 DEF KindInv, Pending, Ahead, UpTo
<1> QED BY <1>2, <1>4 DEF KindInv, InOrder

(* Coalescing never loses the newest indication of a kind: while the client*)
(* is open and nothing of the kind is under way, the consumer has had what *)
(* was last read, and had it last unless it overtook an older one that was *)
(* still queued (client.go:656-770).                                       *)
THEOREM NewestAlwaysArrives == Spec => []NewestArrives
BY ClientTypes, NewestInit, NewestStep, NewestFollows, PTL DEF Spec
=============================================================================
