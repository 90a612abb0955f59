\* No faults: every published value, or a later one, is shown.
SPECIFICATION FairSpec
CONSTANTS
  Procs <- BothProcs
  Values <- FourDatagrams
  Robust = FALSE
  InitInTime = TRUE
  MaxCrashes = 0
  NoOwner = NoOwner
  OwnerDied = OwnerDied
  QCap = 1
  MaxStarts = 1
  Faults = {}
PROPERTY CatchesUp
\* Datagrams are bounded, so the system comes to rest.
CHECK_DEADLOCK FALSE
