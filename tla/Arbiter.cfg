SPECIFICATION FairSpec
CONSTANTS
  Ids = {i1, i2, i3}
  Watchers = {w1}
  Requests <- MixedRequests
  MaxSessions = 2
  MaxQMITransports = 2
  Aging = TRUE
INVARIANT NoLostWakeup
PROPERTIES ExclusiveNotOvertaken ImplementsAccess BarrierProgress StalledLeaseIsFreed
