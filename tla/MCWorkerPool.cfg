SPECIFICATION Spec
CONSTANTS
  NumWorkers = 2
  Clients = {c1, c2}
  Tasks = {r1, r2, k1, k2}
  NoTask = NoTask
  Roots = {r1, r2}
  LocalCapacity = 1
  GlobalCapacity = 1
SYMMETRY Symmetry
CHECK_DEADLOCK FALSE
INVARIANTS PoolSafe
