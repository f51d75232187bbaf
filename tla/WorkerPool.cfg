SPECIFICATION FairSpec
CONSTANTS
  MaxAttempts = 3
  MaxTroubles = 2
  Rounds = 2
INVARIANTS FlagIsReleased ActiveHasOwner CoreHasOwner
PROPERTIES  LostIsReplaced
CHECK_DEADLOCK FALSE
