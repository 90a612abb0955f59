\* Any call may fail; notifications fill the queue; a Collector starts meanwhile.
SPECIFICATION Spec
CONSTANTS
  QCap = 2
  MainCap = 2
  MaxRetries = 2
  MaxNotify = 2
  MaxPurge = 1
  MaxSignals = 2
  MaxRequests = 1
  Faults <- AnyFault
INVARIANTS NoUseAfterRelease CleanExit
PROPERTIES QuitMeansStopping
\* The process ends, and main may block for ever on a full queue.
CHECK_DEADLOCK FALSE
