SPECIFICATION FairSpec
CONSTANTS
  Requests = {r1}
  Kinds = {k1}
  QueueSize = 1
  MaxIndications = 4
  MaxStream = 2
INVARIANTS NoSendOnClosed NewestArrives
PROPERTY GoesOnWithoutConsumer
CHECK_DEADLOCK FALSE
