----------------------------- MODULE ApduAccess -----------------------------
(***************************************************************************)
(* What the APDU arbiter promises to the callers of one SIM card, without  *)
(* saying how: calls wait in the order they arrived, the leases granted    *)
(* together are compatible, a barrier is entered when no APDU is in        *)
(* flight, classes it blocks stay out until it is left, and nothing that   *)
(* arrived after a waiting barrier is served before it.  Which of several  *)
(* admissible calls is served next, who is parked on which channel, and    *)
(* when a lease is revoked are left open.                                  *)
(***************************************************************************)
EXTENDS Naturals, FiniteSets, SequencesExt

CONSTANTS
  CallTickets,       \* what a call may ask for
  SessionLimit,      \* leases of type session granted together
  ChannelLimit       \* QMI logical channels that transmit together

VARIABLES
  calls,             \* the waiting calls, oldest first
  granted,           \* the leases in force
  entered            \* the barriers in force

accessVars == <<calls, granted, entered>>

-----------------------------------------------------------------------------

IsBarrier(t) == t.leaseType = "barrier"

(* Two APDU exchanges may overlap on the card only as two legacy sessions  *)
(* or as two QMI transports on different logical channels.                 *)
MayOverlap(s, t) ==
  \/ s.leaseType = "session" /\ t.leaseType = "session"
  \/ /\ s.leaseType = "transport" /\ t.leaseType = "transport"
     /\ s.scope = "qmi_channel" /\ t.scope = "qmi_channel"
     /\ s.channel # t.channel

Sessions(S) == {t \in S : t.leaseType = "session"}
Channels(S) == {t \in S : t.leaseType = "transport" /\ t.scope = "qmi_channel"}

Compatible(S) ==
  /\ \A s, t \in S : s # t => MayOverlap(s, t)
  /\ Cardinality(Sessions(S)) <= SessionLimit
  /\ Cardinality(Channels(S)) <= ChannelLimit

-----------------------------------------------------------------------------

AccessInit ==
  /\ calls = <<>>
  /\ granted = {}
  /\ entered = {}

(* The call at position k of q leaves the queue and is served.             *)
ServeFrom(q, k) ==
  /\ \A j \in 1 .. k - 1 : ~ IsBarrier(q[j])
  /\ calls' = RemoveAt(q, k)
  /\ IF IsBarrier(q[k])
       THEN /\ granted = {}
            /\ entered' = entered \cup {q[k]}
            /\ granted' = granted
       ELSE /\ \A b \in entered : q[k].class \notin b.blocked
            /\ granted' = granted \cup {q[k]}
            /\ Compatible(granted')
            /\ entered' = entered

Arrive ==
  \E t \in CallTickets :
    calls' = Append(calls, t) /\ granted' = granted /\ entered' = entered

ArriveAndServe ==
  \E t \in CallTickets : ServeFrom(Append(calls, t), Len(calls) + 1)

Serve == \E k \in DOMAIN calls : ServeFrom(calls, k)

GiveUp ==
  \E k \in DOMAIN calls :
    calls' = RemoveAt(calls, k) /\ granted' = granted /\ entered' = entered

Return ==
  \E t \in granted :
    granted' = granted \ {t} /\ calls' = calls /\ entered' = entered

Leave ==
  \E b \in entered :
    entered' = entered \ {b} /\ calls' = calls /\ granted' = granted

AccessNext == Arrive \/ ArriveAndServe \/ Serve \/ GiveUp \/ Return \/ Leave

AccessSpec == AccessInit /\ [][AccessNext]_accessVars

-----------------------------------------------------------------------------

(* The leases in force are compatible: a legacy one-shot and an exclusive  *)
(* transport are alone on the card, sessions and transports never mix, and *)
(* two QMI transports are on different channels, within the limits.        *)
LeaseExclusion == Compatible(granted)

(* No APDU of a class that an entered barrier blocks is in flight.         *)
BarrierExclusion ==
  \A b \in entered, t \in granted : t.class \notin b.blocked
=============================================================================
