SPECIFICATION ServicesSpec
CONSTANTS
    Messages = {m1, m2, m3, m4}
    NoMessage = NoMessage
    Senders = {s1, s2}
    Receivers = {r1, r2}
    Capacity = 2
    LogProducers = {s1, s2}
    LogCap = 2
    LogBatch = 2
    LogMaxPush = 2
    HtConns = {s1, s2}
    HtWires <- Wires
    HtLengths <- Lengths
    HtMaxBody = 2
    HtMaxHeaders = 1
    HtBuffer = 4
    HtWorkers = 1
    HtMiddlewares = 2
INVARIANTS
    WaitersWoken
    LogSafe
    HtSafe
PROPERTIES
    PassesOn
    ImplementsAbstract
    LogDropOnlyWhenFull
    LogEventuallyWritten
    HtAllClosed
CHECK_DEADLOCK FALSE
