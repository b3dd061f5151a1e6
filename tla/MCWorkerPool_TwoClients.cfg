SPECIFICATION Spec
CONSTANTS
  NumWorkers = 1
  Clients = {c1, c2}
  Tasks = {r1, r2}
  NoTask = NoTask
  Roots = {r1, r2}
  LocalCapacity = 1
  GlobalCapacity = 2
CHECK_DEADLOCK FALSE
INVARIANTS NoLostTask
