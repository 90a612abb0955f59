\* Any call may fail and any signal may arrive.
SPECIFICATION FairSpec
CONSTANTS
  MaxSignals = 2
  MaxRequests = 2
  Faults <- AnyFault
INVARIANTS NoLostWakeup NoUseAfterClose CleanExit
PROPERTIES StopEnds
\* The process ends.
CHECK_DEADLOCK FALSE
