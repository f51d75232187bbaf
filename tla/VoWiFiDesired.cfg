SPECIFICATION FairDesiredSpec
CONSTANTS
  MaxCommands = 2
  MaxSwitches = 2
  MaxRestarts = 2
  Kinds = {"enable", "disable", "restart", "recover", "switchBegin", "switchEnd", "reconnect"}
INVARIANTS DesiredTypeOK DisabledStaysOff
PROPERTIES CommandsReturn DesiredPursued
CHECK_DEADLOCK FALSE
