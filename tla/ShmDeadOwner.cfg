\* The default build against the documented recovery from a dead owner.
SPECIFICATION ShmFairSpec
CONSTANTS
  p1 = p1  p2 = p2
  Procs <- TwoProcs
  Values <- TwoValues
  Robust = FALSE
  InitInTime = TRUE
  MaxCrashes = 1
  NoOwner = NoOwner
  OwnerDied = OwnerDied
PROPERTY DeadOwnerRecovered
\* A mutex whose owner died stops everyone: see DeadOwnerRecovered.
CHECK_DEADLOCK FALSE
