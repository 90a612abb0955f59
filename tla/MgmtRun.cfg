\* Two instances, three mgmtctl processes with two pids, a queue of one request, one
\* kill or stop besides the shutdown request.
SPECIFICATION FairSpec
CONSTANTS
  c1 = c1
  c2 = c2
  Instances = 2
  Clients <- MCClients
  Runs <- MCRuns
  cmd <- MCCmd
  Capacity = 1
  MaxSignals = 1
INVARIANTS
  TypeOK
  SuccessIsTrue
  Reachable
  NoFileLeft
PROPERTIES
  AtMostOnce
  ClientEnds
\* All processes have ended.
CHECK_DEADLOCK FALSE
