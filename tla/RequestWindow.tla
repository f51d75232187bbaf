--------------------------- MODULE RequestWindow ----------------------------
(***************************************************************************)
(* What the callers of the IKE request window (swu-go/pkg/swu/window.go)   *)
(* rely on: a request that is submitted waits or is in flight, at most     *)
(* windowSize are in flight, and each comes to one end that is final.  It  *)
(* is answered, it fails, or a request under the same message ID takes its *)
(* place; callers who number their requests apart never see the last.      *)
(***************************************************************************)
EXTENDS Naturals, FiniteSets

CONSTANT Requests

VARIABLES status, windowSize

Ends == {"answered", "failed", "displaced"}

After ==
  [new |-> {"queued", "inFlight"},
   queued |-> {"inFlight", "failed"},
   inFlight |-> Ends,
   answered |-> {}, failed |-> {}, displaced |-> {}]

Now(what) == {r \in Requests : status[r] = what}
Become(what) == {r \in Requests : status[r] # what /\ status'[r] = what}
AtMostOne(S) == \A r, s \in S : r = s

Init == status = [r \in Requests |-> "new"] /\ windowSize \in Nat \ {0}

(* One call or one round of the background loop: any number of requests    *)
(* may fail together, one is answered, one starts.                         *)
Step ==
  /\ \A r \in Requests : status'[r] \in After[status[r]] \cup {status[r]}
  /\ AtMostOne(Become("answered")) /\ AtMostOne(Become("inFlight"))
  /\ AtMostOne(Become("displaced"))
  /\ Become("displaced") # {} => Become("inFlight") # {}
  /\ Cardinality(Now("inFlight")') <= windowSize
  /\ UNCHANGED windowSize

Spec == Init /\ [][Step]_<<status, windowSize>>
=============================================================================
