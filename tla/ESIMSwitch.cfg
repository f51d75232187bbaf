SPECIFICATION FairSpec
CONSTANTS
  Callers = {1, 2}
  MaxInvalidations = 2
  Profiles = {"A", "B"}
  First = "A"
  Policies <- SecondForVoWiFi
  RadioCycle = TRUE
  Qmi = TRUE
  Retrying = {1}
INVARIANTS FlagFollowsSwitch IdentityConverges 
PROPERTIES NilIsCurrent SwitchesEnd
CHECK_DEADLOCK FALSE
