SPECIFICATION Spec
CONSTANTS
    NetWorkers = {t1, t2}
    NetClients = {c1, c2}
    FirstClient = c1
    NetSubmits = 1
    NetInitCap = 2
INVARIANTS
    NetSafe
PROPERTIES
    NetTasksRun
    NetDestroyReturns
CHECK_DEADLOCK FALSE
