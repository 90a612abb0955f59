\* The logger under two threads and main, one thread cancelled, and the metrics with
\* counters of two bits.
CONSTANTS
  t1 = t1
  t2 = t2
  main = main
  Threads <- MCThreads
  Main = main
  Cancelable <- MCCancelable
  Levels <- MCLevels
  Tags <- MCTags
  MaxCalls = 3
  MaxChanges = 2
  Latencies <- MCLatencies
  CountLimit = 4
  ValueLimit = 32
  MaxUpdates = 4
  MaxSnaps = 2
  MaxResets = 1
SPECIFICATION MCSpec
INVARIANTS CountsExact WholeTag NoLogAfterClose AverageDrift TrapsAtWrap SnapshotTotals
PROPERTIES LogCallsEnd
CHECK_DEADLOCK FALSE
