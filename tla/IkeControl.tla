----------------------------- MODULE IkeControl -----------------------------
(***************************************************************************)
(* The control plane of an established IKE session: goroutines that probe  *)
(* the peer or rekey (informational.go, state_rekey.go,                    *)
(* state_rekey_ike.go) send their requests through the window of IkeWindow *)
(* by sendEncryptedWithRetry (session.go), and one dispatcher              *)
(* (ike_control.go) hands the responses to the window and answers the      *)
(* peer's own requests.                                                    *)
(*                                                                         *)
(* Request <<t, 1>> is the first request of task t, <<t, 2>> its delete    *)
(* notice.  A security association is named by the request that asked for  *)
(* it and the one whose answer its keys were made from.                    *)
(***************************************************************************)
EXTENDS IkeWindow

CONSTANTS
  Tasks,             \* calls of the operations, each made at most once
  FirstID,           \* message IDs used up when the session was set up
  Nobody, Dispatcher \* who else may have the mutex

ASSUME ControlAssumption ==
  /\ Requests = Tasks \X {1, 2}
  /\ FirstID \in MsgIDs
  /\ Nobody \notin Tasks /\ Dispatcher \notin Tasks \cup {Nobody}

(* A session ends long before its 2^32 message IDs are used up.            *)
ASSUME NumbersAssumption ==
  IsFiniteSet(Requests) /\ FirstID + Cardinality(Requests) <= MaxMsgID

Kinds == {"dpd", "childRekey", "ikeRekey"}

VARIABLES
  seq,               \* Session.SequenceNumber
  ikeSA, childSA,    \* SPIi, SPIr and Keys; ChildSAOut and ChildSAIn
  rekeyMu,           \* who holds Session.rekeyMu
  task,              \* where each task is, its kind, which request is next
  header,            \* message ID and SA in the header of each packet
  reply,             \* what the peer answers to each request
  peerSAs,           \* the IKE SAs that the peer keeps
  raced              \* history: numbers were taken side by side

session == <<seq, ikeSA, childSA, rekeyMu>>
peer == <<reply, peerSAs>>
vars == <<window, session, peer, task, header, raced>>

SA(asked, answered) == [asked |-> asked, answered |-> answered]
FirstSA == SA(<<>>, <<>>)
PeerSA == SA(<<"peer">>, <<"peer">>)

NoHeader == [id |-> 0, sa |-> SA(<<"none">>, <<"none">>)]

Init ==
  /\ WindowInit
  /\ seq = FirstID /\ ikeSA = FirstSA /\ childSA = FirstSA /\ rekeyMu = Nobody
  /\ task = [t \in Tasks |-> [pc |-> "idle", kind |-> "none", step |-> 1]]
  /\ header = [r \in Requests |-> NoHeader]
  /\ reply = [r \in Requests |-> "none"] /\ peerSAs = {FirstSA}
  /\ raced = FALSE

At(t, pc) == task[t].pc = pc
Goto(t, pc) == task' = [task EXCEPT ![t].pc = pc]
Request(t) == <<t, task[t].step>>
Kind(t) == task[t].kind
Rekeys(t) == Kind(t) \in {"childRekey", "ikeRekey"}

Succ(n) == (n + 1) % (MaxMsgID + 1)
Pred(n) == (n + MaxMsgID) % (MaxMsgID + 1)

(* Somebody has taken a message ID and not yet entered the window, or has  *)
(* changed the SA and not yet restarted its numbers.                       *)
Numbered == \E t \in Tasks : At(t, "register") \/ At(t, "reset")

(* The call returns; a rekey unlocks.                                      *)
Return(t) ==
  /\ Goto(t, "returned")
  /\ rekeyMu' = IF rekeyMu = t THEN Nobody ELSE rekeyMu

-----------------------------------------------------------------------------
Call(t, kind) ==
  /\ At(t, "idle")
  /\ task' = [task EXCEPT ![t].kind = kind, ![t].pc = IF kind = "dpd" THEN "number" ELSE "lock"]
  /\ UNCHANGED <<window, session, peer, header, raced>>

(* A rekey within 30 s of the last one returns at once.                    *)
LockRekey(t) ==
  /\ At(t, "lock") /\ rekeyMu = Nobody
  /\ \/ rekeyMu' = t /\ Goto(t, "number")
     \/ /\ (IF Kind(t) = "ikeRekey" THEN ikeSA ELSE childSA) # FirstSA
        /\ Return(t)
  /\ UNCHANGED <<window, seq, ikeSA, childSA, peer, header, raced>>

(* encryptAndWrap: the next number, under the current SA.                  *)
TakeNumber(t) ==
  /\ At(t, "number")
  /\ header' = [header EXCEPT ![Request(t)] = [id |-> seq, sa |-> ikeSA]]
  /\ seq' = Succ(seq)
  /\ raced' = (raced \/ Numbered)
  /\ Goto(t, "register")
  /\ UNCHANGED <<window, ikeSA, childSA, rekeyMu, peer>>

(* Wrong variant: the number after the packet's is taken.                  *)
NextID(n) == n

(* The ID is not the one in the packet but the number before the next,     *)
(* which another sender may have moved.                                    *)
LastID(n) == Pred(n)

Register(t) ==
  /\ At(t, "register")
  /\ EnqueueRequest(Request(t), LastID(seq))
  /\ Goto(t, "wait")
  /\ UNCHANGED <<session, peer, header, raced>>

(* The wait ends without an answer: ErrWindowTimeout, or the session's     *)
(* context is done.  A failed dead-peer probe ends the session, a failed   *)
(* delete notice is logged.                                                *)
Unanswered(t) == At(t, "wait") /\ (Request(t) \in closed \/ loop # "running")

FailCall(t) ==
  /\ Unanswered(t) /\ task[t].step = 1
  /\ Return(t)
  /\ IF Kind(t) = "dpd" /\ loop = "running" THEN Cancel ELSE UNCHANGED window
  /\ UNCHANGED <<seq, ikeSA, childSA, peer, header, raced>>

-----------------------------------------------------------------------------
(* What a task does with the response in its channel.                      *)
Answered(t) == At(t, "wait") /\ delivered[Request(t)] # <<>>
Answer(r) == Head(delivered[r])

(* Wrong variant: an error notification in the response is overlooked.     *)
UsableIfOpened(t, a) ==
  header[a].sa = ikeSA /\ Kind(a[1]) = Kind(t) /\ a[2] = 1

(* Wrong variant: the payloads of the response are not looked for.         *)
UsableIfAccepted(t, a) == header[a].sa = ikeSA /\ reply[a] = "accept"

(* It can be decrypted, is no refusal, and has the payloads looked for.    *)
Usable(t, a) ==
  /\ header[a].sa = ikeSA
  /\ reply[a] = "accept"
  /\ Kind(a[1]) = Kind(t) /\ a[2] = 1

ProbeEnds(t) ==
  /\ Answered(t) /\ ~ Rekeys(t)
  /\ Return(t)
  /\ UNCHANGED <<window, seq, ikeSA, childSA, peer, header, raced>>

RejectAnswer(t) ==
  /\ Answered(t) /\ Rekeys(t) /\ task[t].step = 1
  /\ ~ Usable(t, Answer(Request(t)))
  /\ Return(t)
  /\ UNCHANGED <<window, seq, ikeSA, childSA, peer, header, raced>>

(* handleCreateChildSAResp.                                                *)
AdoptChildSA(t) ==
  /\ Answered(t) /\ Kind(t) = "childRekey" /\ Usable(t, Answer(Request(t)))
  /\ childSA' = SA(Request(t), Answer(Request(t)))
  /\ task' = [task EXCEPT ![t].pc = "notice", ![t].step = 2]
  /\ UNCHANGED <<window, seq, ikeSA, rekeyMu, peer, header, raced>>

(* sendDeleteChildSA takes a number and sends beside the window.           *)
SendNotice(t) ==
  /\ At(t, "notice")
  /\ header' = [header EXCEPT ![Request(t)] = [id |-> seq, sa |-> ikeSA]]
  /\ seq' = Succ(seq)
  /\ raced' = (raced \/ Numbered)
  /\ Return(t)
  /\ UNCHANGED <<window, ikeSA, childSA, peer>>

(* handleRekeyIKESAResp deletes the old SA, and waits for that.            *)
AcceptIkeSA(t) ==
  /\ Answered(t) /\ Kind(t) = "ikeRekey" /\ task[t].step = 1
  /\ Usable(t, Answer(Request(t)))
  /\ task' = [task EXCEPT ![t].pc = "number", ![t].step = 2]
  /\ UNCHANGED <<window, session, peer, header, raced>>

(* Then it switches, whether or not the delete was answered: first SPIs    *)
(* and keys, then the sequence number.                                     *)
SwitchIkeSA(t) ==
  /\ task[t].step = 2 /\ (Unanswered(t) \/ Answered(t))
  /\ ikeSA' = SA(<<t, 1>>, Answer(<<t, 1>>))
  /\ Goto(t, "reset")
  /\ UNCHANGED <<window, seq, childSA, rekeyMu, peer, header, raced>>

ResetSequence(t) ==
  /\ At(t, "reset")
  /\ seq' = 0
  /\ raced' = (raced \/ \E u \in Tasks : At(u, "register"))
  /\ Return(t)
  /\ UNCHANGED <<window, ikeSA, childSA, peer, header>>

-----------------------------------------------------------------------------
(* The peer: it may answer whatever reached it under an SA that it keeps,  *)
(* it accepts or refuses a rekey, and forgets a deleted SA.                *)
OnWire(r) == header[r] # NoHeader /\ (r \in sent \/ (r[2] = 2 /\ Kind(r[1]) = "childRekey"))

PeerReplies(r) ==
  /\ OnWire(r) /\ reply[r] = "none" /\ header[r].sa \in peerSAs
  /\ \/ /\ reply' = [reply EXCEPT ![r] = "accept"]
        /\ peerSAs' = IF Kind(r[1]) # "ikeRekey" THEN peerSAs
                      ELSE IF r[2] = 1 THEN peerSAs \cup {SA(r, r)}
                      ELSE peerSAs \ {header[r].sa}
     \/ /\ Rekeys(r[1]) /\ r[2] = 1
        /\ reply' = [reply EXCEPT ![r] = "refuse"] /\ UNCHANGED peerSAs
  /\ UNCHANGED <<window, session, task, header, raced>>

Dispatching == rekeyMu # Dispatcher

(* ikeDispatchLoop: an answer arrives, at any time and any number of       *)
(* times; only its message ID is looked at.                                *)
DispatchResponse(r) ==
  /\ Dispatching /\ reply[r] # "none"
  /\ HandleResponse(header[r].id, r)
  /\ UNCHANGED <<session, peer, task, header, raced>>

(* handleIncomingCreateChildSAParsed; while a rekey holds rekeyMu the      *)
(* answer is TEMPORARY_FAILURE and nothing changes.                        *)
PeerRekeysChild ==
  /\ Dispatching /\ rekeyMu = Nobody
  /\ childSA' = PeerSA
  /\ UNCHANGED <<window, seq, ikeSA, rekeyMu, peer, task, header, raced>>

(* If it asks for a new IKE SA instead, HandleRekeyIKESARequest answers    *)
(* and then locks rekeyMu, which the dispatcher holds already: neither the *)
(* mutex nor the dispatcher is seen again.                                 *)
PeerRekeysIke ==
  /\ Dispatching /\ rekeyMu = Nobody
  /\ rekeyMu' = Dispatcher
  /\ UNCHANGED <<window, seq, ikeSA, childSA, peer, task, header, raced>>

-----------------------------------------------------------------------------
TaskStep(t) ==
  \/ TakeNumber(t) \/ Register(t) \/ FailCall(t)
  \/ ProbeEnds(t) \/ RejectAnswer(t) \/ AdoptChildSA(t) \/ SendNotice(t)
  \/ AcceptIkeSA(t) \/ SwitchIkeSA(t) \/ ResetSequence(t)

Alone(WindowStep) == WindowStep /\ UNCHANGED <<session, peer, task, header, raced>>

Next ==
  \/ \E t \in Tasks : (\E kind \in Kinds : Call(t, kind)) \/ LockRekey(t) \/ TaskStep(t)
  \/ \E r \in Requests : PeerReplies(r) \/ DispatchResponse(r)
  \/ \E late \in SUBSET pending : Alone(CheckTimeouts(late))
  \/ Alone(Cancel) \/ Alone(EndLoop)
  \/ PeerRekeysChild \/ PeerRekeysIke

Spec == Init /\ [][Next]_vars

(* Goroutines run, deadlines pass, the mutex does not starve its waiters.  *)
(* Nothing is assumed of the peer.                                         *)
Fairness ==
  /\ \A t \in Tasks : WF_vars(TaskStep(t)) /\ SF_vars(LockRekey(t))
  /\ \A r \in Requests :
       WF_vars(\E late \in SUBSET pending : r \in late /\ Alone(CheckTimeouts(late)))
  /\ WF_vars(Alone(EndLoop))

FairSpec == Spec /\ Fairness

-----------------------------------------------------------------------------
(* Types; the mutex belongs to a rekey that has not returned.              *)
TypeOK ==
  /\ WindowTypes
  /\ seq \in MsgIDs
  /\ task \in [Tasks -> [pc : {"idle", "lock", "number", "register", "wait", "notice",
                               "reset", "returned"},
                         kind : Kinds \cup {"none"}, step : 1 .. 2]]
  /\ raced \in BOOLEAN
  /\ rekeyMu \in {Nobody, Dispatcher} \cup
        {t \in Tasks : Rekeys(t) /\ task[t].pc \notin {"idle", "lock", "returned"}}

(* Within one IKE SA a caller gets the answer to its own request, as long  *)
(* as no two senders took their numbers side by side.  Retransmissions,    *)
(* repeated answers, given-up requests and the queue do not mix them up.   *)
OwnAnswer ==
  raced \/ \A r \in Requests :
    delivered[r] # <<>> /\ header[Answer(r)].sa = header[r].sa => Answer(r) = r

(* Whoever gets whose answer, no keys are made of one party's half of one  *)
(* exchange and the other's half of another.                               *)
KeysFromOneExchange ==
  ikeSA.asked = ikeSA.answered /\ childSA.asked = childSA.answered

(* The peer keeps the IKE SA that requests are sent under, whatever is     *)
(* lost or refused, but for the time in which the old one is being deleted.*)
KeysAgree ==
  \/ ikeSA \in peerSAs
  \/ \E t \in Tasks : Kind(t) = "ikeRekey" /\ At(t, "wait") /\ task[t].step = 2

(* Every call returns although the peer may never answer, if numbers are   *)
(* not taken side by side and the peer does not rekey the IKE SA.          *)
CallsReturn ==
  \A t \in Tasks :
    ~ At(t, "idle") ~> At(t, "returned") \/ raced \/ rekeyMu = Dispatcher

(* session.go:51: the sequence number is atomic so that requests may enter *)
(* the window concurrently.  Every call then returns, however the senders  *)
(* interleave.                                                             *)
ConcurrentCallsReturn ==
  \A t \in Tasks : ~ At(t, "idle") ~> At(t, "returned") \/ rekeyMu = Dispatcher
=============================================================================
