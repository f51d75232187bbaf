SPECIFICATION Spec
CONSTANTS
  MaxCommands = 3
  MaxSwitches = 2
  MaxRestarts = 1
  Kinds = {"enable", "disable", "restart", "recover", "switchBegin", "switchEnd", "reconnect"}
INVARIANTS NoOrphanTunnel ClaimIsCurrent  SMSModeFollowsRuntime
CHECK_DEADLOCK FALSE
