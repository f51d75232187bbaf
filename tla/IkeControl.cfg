SPECIFICATION FairSpec
CONSTANTS
  Nobody = Nobody
  Dispatcher = Dispatcher
  Tasks = {t1, t2}
  Requests <- TwoRequestsEach
  FirstID = 4
  MaxMsgID = 10
  WindowSizes = {1, 2}
  MaxRetries = 1
INVARIANTS KeptOnce OwnAnswer KeysFromOneExchange 
PROPERTIES ImplementsWindow 
CHECK_DEADLOCK FALSE
