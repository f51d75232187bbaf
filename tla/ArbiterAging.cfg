SPECIFICATION FairSpec
CONSTANTS
  Ids = {i1, i2, i3}
  Watchers = {}
  Requests <- EuiccAndAka
  MaxSessions = 2
  MaxQMITransports = 2
  Aging = TRUE
PROPERTY AgingPreventsStarvation
