---------------------------- MODULE MCESIMSwitch ----------------------------
(* The instances of ESIMSwitch: two cards, the second of which is used for  *)
(* VoWiFi, the first in either way.                                         *)
EXTENDS ESIMSwitch
SecondForVoWiFi == {use \in [Profiles -> {"online", "vowifi"}] : use["B"] = "vowifi"}
=============================================================================
