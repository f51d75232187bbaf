----------------------------- MODULE MCArbiter ------------------------------
(* Instances of Arbiter for TLC: what production callers ask for, and a    *)
(* legacy lease that shares the queue with them.                           *)
EXTENDS Arbiter

Call(lease, class, scope, channel) ==
  [leaseType |-> lease, class |-> class, scope |-> scope, mode |-> "QMI",
   channel |-> channel, blocked |-> {}]

(* esim/manager.go, qmi/manager.go: eUICC commands alone on the card, AKA  *)
(* and eUICC reads on logical channels; device/pool_esim_switch.go: the    *)
(* switch barrier with the default blocked classes.                        *)
MixedRequests ==
  {Call("transport", "EUICCWrite", "exclusive", 0),
   Call("transport", "USIMAKA", "qmi_channel", 1),
   Call("transport", "EUICCRead", "qmi_channel", 2),
   Call("session", "", "", 0), Call("barrier", "", "", 0)}

EuiccAndAka ==
  {Call("transport", "EUICCWrite", "exclusive", 0),
   Call("transport", "USIMAKA", "exclusive", 0)}
=============================================================================
