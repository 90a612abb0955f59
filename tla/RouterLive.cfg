\* Any call may fail; the shared queue may fill up, and a Collector starts meanwhile.
\* The private queue has room for every event.
SPECIFICATION FairSpec
CONSTANTS
  QCap = 1
  MainCap = 3
  MaxRetries = 1
  MaxNotify = 1
  MaxPurge = 1
  MaxSignals = 1
  MaxRequests = 1
  Faults <- AnyFault
PROPERTIES StopEnds
\* The process ends, or main waits for good: see Stuck.
CHECK_DEADLOCK FALSE
