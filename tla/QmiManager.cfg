SPECIFICATION FairSpec
CONSTANTS
  Handles = {1, 2}
  QueueLimit = 2
  MaxRetries = 3
  MaxOutside = 5
CONSTRAINT Unraced
INVARIANTS  StoppedStaysDown DialsHaveServices
PROPERTIES RecoveryPursued StopEnds
CHECK_DEADLOCK FALSE
