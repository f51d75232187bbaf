----------------------------- MODULE IkeWindow ------------------------------
(***************************************************************************)
(* The window of IKE requests in flight (swu-go/pkg/swu/window.go,         *)
(* TaskManager).  Every operation holds tm.mu from its beginning to its    *)
(* end and is one action.                                                  *)
(*                                                                         *)
(* tm.pending is a map from message IDs to messages.  It is modelled by    *)
(* the set of the messages in it, each with the ID it was put under: a     *)
(* message that is put under an occupied ID takes the place of the other.  *)
(***************************************************************************)
EXTENDS Naturals, Sequences, FiniteSets

CONSTANTS
  Requests,          \* the messages that may ever be enqueued
  MaxMsgID,          \* message IDs are counted modulo MaxMsgID + 1 (2^32)
  WindowSizes,       \* at least 1, whatever NewTaskManager is called with
  MaxRetries

ASSUME WindowAssumption ==
  WindowSizes \subseteq Nat \ {0} /\ MaxRetries \in Nat /\ MaxMsgID \in Nat

MsgIDs == 0 .. MaxMsgID

VARIABLES
  windowSize, pending, queue,    \* the fields of TaskManager
  msgID, retries,    \* OutgoingMessage.MsgID, RetryCount
  made,              \* messages whose CompletionCh exists
  delivered,         \* what was sent to each CompletionCh, buffered or taken
  closed,            \* messages whose CompletionCh is closed
  sent,              \* messages handed to sendFunc at least once
  loop               \* windowLoop and tm.ctx

window == <<windowSize, pending, queue, msgID, retries, made, delivered, closed, sent, loop>>

Queued == {queue[i] : i \in 1 .. Len(queue)}
Completed == {r \in Requests : delivered[r] # <<>> \/ r \in closed}

WindowInit ==
  /\ windowSize \in WindowSizes
  /\ pending = {} /\ queue = <<>> /\ made = {} /\ closed = {} /\ sent = {}
  /\ msgID = [r \in Requests |-> 0]
  /\ retries = [r \in Requests |-> 0]
  /\ delivered = [r \in Requests |-> <<>>]
  /\ loop = "running"

(* activateMessage: r goes into the map, which holds the messages of      *)
(* rest.                                                                   *)
Activate(r, id, rest) ==
  /\ pending' = {s \in rest : msgID[s] # id} \cup {r}
  /\ sent' = sent \cup {r}

(* Wrong variant: the window takes one message too many.                   *)
EnqueuePastLimit(r, id) ==
  /\ r \notin made
  /\ made' = made \cup {r}
  /\ msgID' = [msgID EXCEPT ![r] = id]
  /\ IF Cardinality(pending) <= windowSize
       THEN Activate(r, id, pending) /\ UNCHANGED queue
       ELSE queue' = Append(queue, r) /\ UNCHANGED <<pending, sent>>
  /\ UNCHANGED <<windowSize, retries, delivered, closed, loop>>

EnqueueRequest(r, id) ==
  /\ r \notin made
  /\ made' = made \cup {r}
  /\ msgID' = [msgID EXCEPT ![r] = id]
  /\ IF Cardinality(pending) < windowSize
       THEN Activate(r, id, pending) /\ UNCHANGED queue
       ELSE queue' = Append(queue, r) /\ UNCHANGED <<pending, sent>>
  /\ UNCHANGED <<windowSize, retries, delivered, closed, loop>>

(* pumpQueue, when the map holds the messages of rest.                     *)
PumpQueue(rest) ==
  IF queue # <<>> /\ Cardinality(rest) < windowSize
    THEN Activate(Head(queue), msgID[Head(queue)], rest) /\ queue' = Tail(queue)
    ELSE pending' = rest /\ UNCHANGED <<queue, sent>>

Under(id) == {r \in pending : msgID[r] = id}

(* Wrong variant: an answered message stays in the map.                    *)
AnswerAndKeep(id, data) ==
  IF Under(id) = {} THEN UNCHANGED window
  ELSE \E r \in Under(id) :
         /\ delivered' = [delivered EXCEPT ![r] = Append(@, data)]
         /\ PumpQueue(pending)
         /\ UNCHANGED <<windowSize, msgID, retries, made, closed, loop>>

(* The data of a response is the request that it answers; a response to    *)
(* no message in the map is not taken.                                     *)
HandleResponse(id, data) ==
  IF Under(id) = {} THEN UNCHANGED window
  ELSE \E r \in Under(id) :
         /\ delivered' = [delivered EXCEPT ![r] = Append(@, data)]
         /\ PumpQueue(pending \ {r})
         /\ UNCHANGED <<windowSize, msgID, retries, made, closed, loop>>

(* Wrong variant: the channels of given-up messages are not closed.        *)
TimeOutSilently(late) ==
  LET dead == {r \in late : retries[r] >= MaxRetries} IN
  /\ loop # "ended"
  /\ retries' = [r \in Requests |-> IF r \in late \ dead THEN retries[r] + 1 ELSE retries[r]]
  /\ IF dead # {} THEN PumpQueue(pending \ dead) ELSE UNCHANGED <<pending, queue, sent>>
  /\ UNCHANGED <<windowSize, msgID, made, delivered, closed, loop>>

(* The deadlines of the messages of late have passed.  They are sent again *)
(* or given up; however many are given up, one message of the queue takes  *)
(* their place.                                                            *)
CheckTimeouts(late) ==
  LET dead == {r \in late : retries[r] >= MaxRetries} IN
  /\ loop # "ended"
  /\ retries' = [r \in Requests |-> IF r \in late \ dead THEN retries[r] + 1 ELSE retries[r]]
  /\ closed' = closed \cup dead
  /\ IF dead # {} THEN PumpQueue(pending \ dead) ELSE UNCHANGED <<pending, queue, sent>>
  /\ UNCHANGED <<windowSize, msgID, made, delivered, loop>>

(* The session's context, of which tm.ctx is a child, is done.             *)
Cancel ==
  /\ loop = "running"
  /\ loop' = "cancelled"
  /\ UNCHANGED <<windowSize, pending, queue, msgID, retries, made, delivered, closed, sent>>

(* windowLoop sees that, and leaves.                                       *)
EndLoop ==
  /\ loop = "cancelled"
  /\ loop' = "ended"
  /\ closed' = closed \cup pending \cup Queued
  /\ pending' = {} /\ queue' = <<>>
  /\ UNCHANGED <<windowSize, msgID, retries, made, delivered, sent>>

WindowNext ==
  \/ \E r \in Requests, id \in MsgIDs : EnqueueRequest(r, id)
  \/ \E id \in MsgIDs, data \in Requests : HandleResponse(id, data)
  \/ \E late \in SUBSET pending : CheckTimeouts(late)
  \/ Cancel \/ EndLoop

WindowSpec == WindowInit /\ [][WindowNext]_window

-----------------------------------------------------------------------------
(* Types; never more than windowSize messages are in flight.               *)
WindowTypes ==
  /\ pending \subseteq made /\ made \subseteq Requests
  /\ queue \in Seq(made)
  /\ msgID \in [Requests -> MsgIDs]
  /\ retries \in [Requests -> 0 .. MaxRetries]
  /\ delivered \in [Requests -> Seq(Requests)]
  /\ closed \subseteq made /\ sent \subseteq made
  /\ loop \in {"running", "cancelled", "ended"} /\ windowSize \in WindowSizes
  /\ Cardinality(pending) <= windowSize

Displaced(r) == \E s \in made : s # r /\ msgID[s] = msgID[r]

(* No message is forgotten or kept twice: one that was enqueued and is not *)
(* completed is in the map or in the queue, once, unless another has been  *)
(* enqueued under its ID; and a map entry is the only one of its ID.       *)
OneSlotEach ==
  /\ \A i, j \in 1 .. Len(queue) : queue[i] = queue[j] => i = j
  /\ \A r \in made :
       \/ r \in (pending \cup Queued) \ Completed /\ ~ (r \in pending /\ r \in Queued)
       \/ r \in Completed \ (pending \cup Queued)
       \/ r \notin pending \cup Queued /\ Displaced(r)
  /\ \A r, s \in pending : msgID[r] = msgID[s] => r = s

(* A completion channel gets one response or is closed, and only once: a   *)
(* second response would block under tm.mu for ever, one after the close   *)
(* would panic.                                                            *)
OneCompletion ==
  \A r \in Requests :
    /\ Len(delivered[r]) <= 1
    /\ r \in closed => delivered[r] = <<>>

\* Every request is kept in one place, and completed once.
KeptOnce == OneSlotEach /\ OneCompletion

(* Queued messages are not stranded: there is one in flight whose end will *)
(* make the queue move, although a round of checkTimeouts that gives up    *)
(* several messages takes only one from the queue.                         *)
QueueMoves == queue # <<>> => pending # {}

(* The window keeps the promise of RequestWindow.                          *)
StatusOf ==
  [r \in Requests |->
     IF r \notin made THEN "new"
     ELSE IF r \in closed THEN "failed"
     ELSE IF delivered[r] # <<>> THEN "answered"
     ELSE IF r \in pending THEN "inFlight"
     ELSE IF r \in Queued THEN "queued"
     ELSE "displaced"]

Promise == INSTANCE RequestWindow WITH status <- StatusOf

ImplementsWindow == Promise!Spec
=============================================================================
