\* Any call may fail; up to three datagrams and three requests.
SPECIFICATION FairSpec
CONSTANTS
  MaxEvents = 3
  Faults <- AnyFault
INVARIANTS TypeOK CleanExit
PROPERTIES StopEnds
\* The process ends, and poll waits for ever when nothing arrives.
CHECK_DEADLOCK FALSE
