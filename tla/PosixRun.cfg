\* Two processes start in any order, and each way of being killed happens twice.
SPECIFICATION PosixFairSpec
CONSTANTS
  p1 = p1  p2 = p2
  Procs <- TwoProcs
  Values <- OneValue
  Robust = FALSE
  MaxCrashes = 2
  NoOwner = NoOwner
  OwnerDied = OwnerDied
INVARIANTS OwnerInside MappedSized
PROPERTIES ExclusionLostByInit PosixImplementsShmApi InitEnds
\* A process may wait for ever: see Orphaned.
CHECK_DEADLOCK FALSE
