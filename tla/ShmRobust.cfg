\* A build with the robust attribute, processes killed at any step.
SPECIFICATION ShmFairSpec
CONSTANTS
  p1 = p1  p2 = p2
  Procs <- TwoProcs
  Values <- TwoValues
  Robust = TRUE
  InitInTime = TRUE
  MaxCrashes = 3
  NoOwner = NoOwner
  OwnerDied = OwnerDied
INVARIANTS MutualExclusion NoTornRead
PROPERTIES DeadOwnerRecovered
\* A mutex whose creator died before it was made robust stops everyone.
CHECK_DEADLOCK FALSE
