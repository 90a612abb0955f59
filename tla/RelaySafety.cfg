\* Restarts, one kill, every fault, a queue that overflows.
SPECIFICATION FairSpec
CONSTANTS
  Procs <- BothProcs
  Values <- ThreeDatagrams
  Robust = FALSE
  InitInTime = TRUE
  MaxCrashes = 1
  NoOwner = NoOwner
  OwnerDied = OwnerDied
  QCap = 2
  MaxStarts = 2
  Faults <- EveryFault
INVARIANTS LatestPending FreshRead
PROPERTIES ImplementsLatestValue WriteEnds
\* All starts may be used up, and a killed lock owner stops everyone.
CHECK_DEADLOCK FALSE
