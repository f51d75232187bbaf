SPECIFICATION FairSpec
CONSTANTS
  LastRelease = 3
  MaxTroubles = 2
INVARIANTS GoodVersionSurvives 
PROPERTY UpdateEnds
CHECK_DEADLOCK FALSE
