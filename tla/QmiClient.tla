------------------------------ MODULE QmiClient ------------------------------
(***************************************************************************)
(* The QMI client of quectel-qmi-go (pkg/qmi/client.go): requests that     *)
(* register a transaction, hand their packet to the writer and wait; the   *)
(* read loop that matches answers and sorts out indications; the           *)
(* indication loop that feeds a consumer who may stall; and Close.         *)
(*                                                                         *)
(* Every request stands for one call of SendRequest and for its key: that  *)
(* no transaction ID comes round (after 65 535 requests, 255 on the        *)
(* control service) while its last user is outstanding is assumed.         *)
(***************************************************************************)
EXTENDS Naturals, Sequences

CONSTANTS
  Requests,        \* calls of SendRequest
  Kinds,           \* coalescing keys of indications
  QueueSize,       \* capacity of indicationInCh, eventCh (and here writeCh)
  MaxIndications,  \* bound on indications the modem sends
  MaxStream        \* bound on packets the device holds unread

ASSUME ClientAssumption ==
  /\ Requests \cap (Kinds \cup {"edge", "reading", "idle", "ended"}) = {}
  /\ "edge" \notin Kinds
  /\ QueueSize \in Nat \ {0} /\ MaxIndications \in Nat /\ MaxStream \in Nat

VARIABLES
  pc,            \* where each SendRequest is
  transactions,  \* c.transactions: the registered requests
  recent,        \* c.recentTransactions: given up by their context
  ch,            \* each request's response channel
  result,        \* each request's writeRequest.result
  writeQ, writer,       \* c.writeCh; the request the write loop is writing
  reader,        \* the read loop: reading, or holding a looked-up request
  queue,         \* c.indicationInCh
  order, latest, \* c.coalesced: order and events
  loop, hand,    \* the indication loop: at its top, in its select, delivering; what
  events,        \* c.eventCh
  closing,       \* how far Close is
  wire, stream,  \* requests the modem has; packets the device holds unread
  sent,          \* indications sent so far
  read, last, newest,  \* history, per kind: newest version read by the client,
                       \* last and newest version the consumer has got
  overtaken      \* history: kinds one of whose events has overtaken an older

calls   == <<pc, transactions, recent, ch, result>>
writing == <<writeQ, writer>>
inds    == <<queue, order, latest, loop, hand, events>>
modem   == <<wire, stream, sent>>
history == <<read, last, newest, overtaken>>
vars == <<calls, writing, reader, inds, closing, modem, history>>

\* A packet is an answer to a request, or an indication of a kind in a version;
\* an edge indication has a kind of its own and is never coalesced.
Edge          == "edge"
Answer(r)     == [kind |-> r, version |-> 0]
EdgeEvent     == [kind |-> Edge, version |-> 0]

Init ==
  /\ pc = [r \in Requests |-> "new"] /\ transactions = {} /\ recent = {}
  /\ ch = [r \in Requests |-> "empty"] /\ result = [r \in Requests |-> "none"]
  /\ writeQ = <<>> /\ writer = "idle" /\ reader = "reading"
  /\ queue = <<>> /\ order = <<>> /\ latest = [k \in Kinds |-> 0]
  /\ loop = "top" /\ hand = <<>> /\ events = <<>> /\ closing = "open"
  /\ wire = {} /\ stream = <<>> /\ sent = 0
  /\ read = [k \in Kinds |-> 0] /\ last = [k \in Kinds |-> 0]
  /\ newest = [k \in Kinds |-> 0] /\ overtaken = {}

-----------------------------------------------------------------------------
(* SendRequest *)

Register(r) ==
  /\ pc[r] = "new"
  /\ pc' = [pc EXCEPT ![r] = "writing"]
  /\ transactions' = transactions \cup {r}
  /\ UNCHANGED <<recent, ch, result, writing, reader, inds, closing, modem, history>>

HandOver(r) ==
  /\ pc[r] = "writing" /\ Len(writeQ) < QueueSize
  /\ writeQ' = Append(writeQ, r)
  /\ pc' = [pc EXCEPT ![r] = "written"]
  /\ UNCHANGED <<transactions, recent, ch, result, writer, reader, inds, closing,
                 modem, history>>

\* completeTransaction in the deferred call of every return.
Completes(r, how) ==
  /\ pc' = [pc EXCEPT ![r] = how]
  /\ transactions' = transactions \ {r}
  /\ recent' = IF how = "timeout" THEN recent \cup {r} ELSE recent
  /\ UNCHANGED <<ch, result, writing, reader, inds, closing, modem, history>>

WriteAcknowledged(r) ==
  /\ pc[r] = "written"
  /\ \/ /\ result[r] = "ok" /\ pc' = [pc EXCEPT ![r] = "waiting"]
        /\ UNCHANGED <<transactions, recent, ch, result, writing, reader, inds,
                       closing, modem, history>>
     \/ result[r] = "failed" /\ Completes(r, "failed")

Receive(r) ==
  /\ pc[r] = "waiting" /\ ch[r] # "empty"
  /\ Completes(r, IF ch[r] = "answer" THEN "answered" ELSE "failed")

\* The other branches of the three selects: the context, and closeCh.
TimesOut(r) ==
  pc[r] \in {"writing", "written", "waiting"} /\ Completes(r, "timeout")

SeesClosed(r) ==
  /\ pc[r] \in {"writing", "written", "waiting"} /\ closing # "open"
  /\ Completes(r, "failed")

-----------------------------------------------------------------------------
(* writerLoop *)

TakeWrite ==
  /\ writer = "idle" /\ writeQ # <<>>
  /\ writer' = Head(writeQ) /\ writeQ' = Tail(writeQ)
  /\ UNCHANGED <<calls, reader, inds, closing, modem, history>>

\* The device takes the packet, or the write fails (at once when it is closed).
Written(r) ==
  /\ writer = r /\ writer' = "idle"
  /\ \/ closing = "open" /\ wire' = wire \cup {r} /\ result' = [result EXCEPT ![r] = "ok"]
     \/ UNCHANGED wire /\ result' = [result EXCEPT ![r] = "failed"]
  /\ UNCHANGED <<pc, transactions, recent, ch, writeQ, reader, inds, closing, stream,
                 sent, history>>

WriterEnds ==
  /\ writer = "idle" /\ closing # "open" /\ writer' = "ended"
  /\ UNCHANGED <<calls, writeQ, reader, inds, closing, modem, history>>

-----------------------------------------------------------------------------
(* readLoop *)

\* failPendingTransactions.
FailsPending ==
  /\ transactions' = {}
  /\ ch' = [r \in Requests |-> IF r \in transactions THEN "closed" ELSE ch[r]]

\* Wrong variant: what is stored first for a kind stays.
KeepsFirst(event) ==
  /\ order' = IF latest[event.kind] = 0 THEN Append(order, event.kind) ELSE order
  /\ latest' = IF latest[event.kind] = 0
               THEN [latest EXCEPT ![event.kind] = event.version] ELSE latest

\* storeCoalescedEvent: the newer event takes the older one's place.
StoresCoalesced(event) ==
  /\ order' = IF latest[event.kind] = 0 THEN Append(order, event.kind) ELSE order
  /\ latest' = [latest EXCEPT ![event.kind] = event.version]

\* enqueueIndication for an event that may be coalesced.
EnqueueIndication(event) ==
  IF Len(queue) < QueueSize
  THEN queue' = Append(queue, event) /\ UNCHANGED <<order, latest>>
  ELSE StoresCoalesced(event) /\ UNCHANGED queue

\* An answer is looked up under the mutex and delivered after it; one given up
\* by its context is only logged, any other stray answer becomes an event. What
\* one read has brought in is still worked off when Close has begun.
ReadPacket ==
  /\ reader = "reading" /\ stream # <<>>
  /\ stream' = Tail(stream)
  /\ LET p == Head(stream) IN
     \/ /\ p.kind \in transactions /\ reader' = p.kind
        /\ UNCHANGED <<recent, queue, order, latest, read>>
     \/ /\ p.kind \in Requests \ transactions
        /\ reader' = IF p.kind \in recent THEN "reading" ELSE "edge"
        /\ recent' = recent \ {p.kind}
        /\ UNCHANGED <<queue, order, latest, read>>
     \/ /\ p.kind = Edge /\ reader' = "edge"
        /\ UNCHANGED <<recent, queue, order, latest, read>>
     \/ /\ p.kind \in Kinds /\ EnqueueIndication(p)
        /\ read' = [read EXCEPT ![p.kind] = p.version]
        /\ UNCHANGED <<reader, recent>>
  /\ UNCHANGED <<pc, transactions, ch, result, writing, loop, hand, events, closing, wire,
                 sent, last, newest, overtaken>>

\* The send does not block: the channel holds one answer.
DeliverAnswer(r) ==
  /\ reader = r /\ reader' = "reading"
  /\ ch' = IF ch[r] = "empty" THEN [ch EXCEPT ![r] = "answer"] ELSE ch
  /\ UNCHANGED <<pc, transactions, recent, result, writing, inds, closing, modem,
                 history>>

\* An edge indication finds room, or Close.
EnqueueEdge ==
  /\ reader = "edge" /\ reader' = "reading"
  /\ IF Len(queue) < QueueSize THEN queue' = Append(queue, EdgeEvent)
     ELSE closing # "open" /\ UNCHANGED queue
  /\ UNCHANGED <<calls, writing, order, latest, loop, hand, events, closing, modem,
                 history>>

\* Or it has waited for ReadDeadline.
EdgeDropped ==
  /\ reader = "edge" /\ Len(queue) >= QueueSize /\ reader' = "reading"
  /\ UNCHANGED <<calls, writing, inds, closing, modem, history>>

\* A read fails: everybody who waits is told, and nothing is read any more.
ReadFails ==
  /\ reader = "reading" /\ closing = "open" /\ reader' = "ended"
  /\ FailsPending
  /\ UNCHANGED <<pc, recent, result, writing, inds, closing, modem, history>>

ReaderEnds ==
  /\ reader = "reading" /\ closing # "open" /\ reader' = "ended"
  /\ UNCHANGED <<calls, writing, inds, closing, modem, history>>

-----------------------------------------------------------------------------
(* indicationLoop *)

\* Coalesced events come first, before older ones that are still queued.
PopCoalesced ==
  /\ loop = "top"
  /\ IF order = <<>>
     THEN loop' = "select" /\ UNCHANGED <<hand, order, latest, overtaken>>
     ELSE LET k == Head(order) IN
          /\ loop' = "deliver" /\ hand' = <<[kind |-> k, version |-> latest[k]]>>
          /\ order' = Tail(order) /\ latest' = [latest EXCEPT ![k] = 0]
          /\ overtaken' = IF \E i \in DOMAIN queue : queue[i].kind = k
                          THEN overtaken \cup {k} ELSE overtaken
  /\ UNCHANGED <<calls, writing, reader, queue, events, closing, modem, read, last,
                 newest>>

\* The select: an event, the signal that something was coalesced, or the end.
TakeIndication ==
  /\ loop = "select"
  /\ \/ /\ queue # <<>> /\ queue' = Tail(queue)
        /\ loop' = "deliver" /\ hand' = <<Head(queue)>>
     \/ order # <<>> /\ loop' = "top" /\ UNCHANGED <<hand, queue>>
     \/ closing # "open" /\ loop' = "ended" /\ UNCHANGED <<hand, queue>>
  /\ UNCHANGED <<calls, writing, reader, order, latest, events, closing, modem, history>>

\* Wrong variant: the send to the consumer does not look at closeCh.
DeliverWhenRoom ==
  /\ loop = "deliver" /\ Len(events) < QueueSize
  /\ events' = events \o hand /\ hand' = <<>> /\ loop' = "top"
  /\ UNCHANGED <<calls, writing, reader, queue, order, latest, closing, modem, history>>

DeliverEvent ==
  /\ loop = "deliver" /\ hand' = <<>>
  /\ \/ Len(events) < QueueSize /\ events' = events \o hand /\ loop' = "top"
     \/ closing # "open" /\ loop' = "ended" /\ UNCHANGED events
  /\ UNCHANGED <<calls, writing, reader, queue, order, latest, closing, modem, history>>

-----------------------------------------------------------------------------
(* Close *)

CloseBegins ==
  /\ closing = "open" /\ closing' = "closing"
  /\ UNCHANGED <<calls, writing, reader, inds, modem, history>>

\* Wrong variant: the pending requests are failed before the loops have ended.
CloseFailsFirst ==
  /\ closing = "closing" /\ closing' = "closed" /\ FailsPending
  /\ UNCHANGED <<pc, recent, result, writing, reader, inds, modem, history>>

CloseEnds ==
  /\ closing = "closing" /\ reader = "ended" /\ writer = "ended" /\ loop = "ended"
  /\ closing' = "closed" /\ FailsPending
  /\ UNCHANGED <<pc, recent, result, writing, reader, inds, modem, history>>

-----------------------------------------------------------------------------
(* The modem and the consumer *)

Answers(r) ==
  /\ r \in wire /\ Len(stream) < MaxStream
  /\ wire' = wire \ {r} /\ stream' = Append(stream, Answer(r))
  /\ UNCHANGED <<calls, writing, reader, inds, closing, sent, history>>

Indicates ==
  /\ sent < MaxIndications /\ Len(stream) < MaxStream /\ sent' = sent + 1
  /\ \E k \in Kinds \cup {Edge} :
       stream' = Append(stream, IF k = Edge THEN EdgeEvent
                                ELSE [kind |-> k, version |-> sent'])
  /\ UNCHANGED <<calls, writing, reader, inds, closing, wire, history>>

Consume ==
  /\ events # <<>> /\ events' = Tail(events)
  /\ LET e == Head(events) IN
     IF e.kind \in Kinds
     THEN /\ last' = [last EXCEPT ![e.kind] = e.version]
          /\ newest' = IF e.version > newest[e.kind]
                       THEN [newest EXCEPT ![e.kind] = e.version] ELSE newest
     ELSE UNCHANGED <<last, newest>>
  /\ UNCHANGED <<calls, writing, reader, queue, order, latest, loop, hand, closing, modem,
                 read, overtaken>>

-----------------------------------------------------------------------------
Reading == \/ ReadPacket \/ \E r \in Requests : DeliverAnswer(r)
           \/ EnqueueEdge \/ EdgeDropped \/ ReaderEnds
Looping == PopCoalesced \/ TakeIndication \/ DeliverEvent
Writes  == TakeWrite \/ WriterEnds \/ \E r \in Requests : Written(r)
Sending(r) == Register(r) \/ HandOver(r) \/ TimesOut(r)
Ending(r)  == WriteAcknowledged(r) \/ Receive(r) \/ SeesClosed(r)

Next ==
  \/ Reading \/ ReadFails \/ Looping \/ Writes
  \/ \E r \in Requests : Sending(r) \/ Ending(r) \/ Answers(r)
  \/ CloseBegins \/ CloseEnds \/ Indicates \/ Consume

\* The loops are scheduled, a closed device ends a write, and the timer of an
\* edge indication fires; neither the modem nor the consumer owes anything, and
\* no request's context is counted on.
Fairness ==
  /\ WF_vars(Reading) /\ WF_vars(Looping) /\ WF_vars(CloseEnds)
  /\ WF_vars(closing # "open" /\ Writes)
  /\ \A r \in Requests : WF_vars(Ending(r))

Spec == Init /\ [][Next]_vars
FairSpec == Spec /\ Fairness

-----------------------------------------------------------------------------
(* Properties *)

Events  == [kind : Kinds \cup {Edge}, version : 0 .. MaxIndications]
Packets == [kind : Kinds \cup Requests \cup {Edge}, version : 0 .. MaxIndications]

\* Types; no channel holds more than its capacity.
TypeOK ==
  /\ pc \in [Requests -> {"new", "writing", "written", "waiting", "answered",
                          "failed", "timeout"}]
  /\ transactions \subseteq Requests /\ recent \subseteq Requests
  /\ ch \in [Requests -> {"empty", "answer", "closed"}]
  /\ result \in [Requests -> {"none", "ok", "failed"}]
  /\ writeQ \in Seq(Requests) /\ Len(writeQ) <= QueueSize
  /\ writer \in Requests \cup {"idle", "ended"}
  /\ reader \in Requests \cup {"reading", "edge", "ended"}
  /\ queue \in Seq(Events) /\ Len(queue) <= QueueSize
  /\ order \in Seq(Kinds) /\ latest \in [Kinds -> 0 .. MaxIndications]
  /\ loop \in {"top", "select", "deliver", "ended"}
  /\ hand \in Seq(Events) /\ Len(hand) = (IF loop = "deliver" THEN 1 ELSE 0)
  /\ events \in Seq(Events) /\ Len(events) <= QueueSize
  /\ closing \in {"open", "closing", "closed"}
  /\ wire \subseteq Requests /\ sent \in 0 .. MaxIndications
  /\ stream \in Seq(Packets) /\ Len(stream) <= MaxStream
  /\ {read, last, newest} \subseteq [Kinds -> 0 .. MaxIndications]
  /\ overtaken \subseteq Kinds

\* Nobody sends on a closed channel: the read loop, which has let go of the mutex
\* when it delivers an answer, and the indication loop, whose consumer may stall;
\* only the read loop's own end, or a Close that has waited for all three loops,
\* closes a channel, and none is closed twice.
NoSendOnClosed ==
  /\ \A r \in Requests : reader = r \/ r \in transactions => ch[r] # "closed"
  /\ closing = "closed" => loop = "ended"

InFlight(k) ==
  \/ latest[k] # 0
  \/ \E i \in DOMAIN queue : queue[i].kind = k
  \/ \E i \in DOMAIN hand : hand[i].kind = k
  \/ \E i \in DOMAIN events : events[i].kind = k

\* Coalescing never loses the newest state of a kind: when nothing of it is
\* under way the consumer has had it, and has had it last unless it overtook an
\* older one in the queue.
NewestArrives ==
  closing = "open" =>
    \A k \in Kinds : InFlight(k)
                       \/ read[k] = (IF k \in overtaken THEN newest[k] ELSE last[k])

InStream(r) == \E i \in DOMAIN stream : stream[i].kind = r

\* A stalled consumer keeps neither an answer from its request nor Close from
\* returning: both go on without it. (A request sent after a read has failed has
\* only its own context.)
GoesOnWithoutConsumer ==
  /\ \A r \in Requests :
       (InStream(r) /\ pc[r] = "waiting" /\ reader # "ended") ~>
         (pc[r] \in {"answered", "failed", "timeout"})
  /\ closing = "closing" ~> closing = "closed"
=============================================================================
