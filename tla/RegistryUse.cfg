\* Handlers are registered before the dispatching threads start.
SPECIFICATION RegSpec
CONSTANTS
  k1 = k1
  k2 = k2
  k3 = k3
  a = a
  b = b
  t1 = t1
  t2 = t2
  Keys <- ThreeKeys
  Owners <- TwoOwners
  Dispatchers <- TwoThreads
  MAX_EVENT_HANDLERS = 2
  MaxDispatches = 6
SYMMETRY Perms
INVARIANTS UniqueKeys RightHandler CountsAgree
\* The callers may stop calling.
CHECK_DEADLOCK FALSE
