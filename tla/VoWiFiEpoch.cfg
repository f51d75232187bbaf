SPECIFICATION Spec
CONSTANTS
  MaxCommands = 3
  MaxSwitches = 1
  MaxRestarts = 1
  Kinds = {"enable", "disable", "restart", "recover", "switchBegin", "switchEnd", "reconnect"}
INVARIANT NoStaleClaim
CHECK_DEADLOCK FALSE
