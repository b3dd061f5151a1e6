SPECIFICATION FairSpec
CONSTANTS
  NumWorkers = 2
  Clients = {c1}
  Tasks = {r1, k1, k2}
  NoTask = NoTask
  Roots = {r1}
  LocalCapacity = 1
  GlobalCapacity = 1
CHECK_DEADLOCK FALSE
PROPERTIES AcceptedRuns ShutdownStops
