CONSTANTS
    KvSeqs = {0}
    KvPairs = 2
    KvMaxLen = 3
    KvPageSize = 2
    KvPool = 4
    KvRounds = 2
    M2Last = 3
    M2Succs <- M2Graphs
    M2EntryCode <- M2EntryCodes
    M2Code <- M2Codes
    BwLast = 2
    BwValues = {"s", "b1", "b2"}
    BwNone = "none"
    BwFuncs <- BwFunctions
    BwMaxBorrows = 2
    MoPrograms <- Programs
    MoParams = {0}
    MoInputs <- Inputs
    MoBits = 4
    MoMaxIter = 6
    CfGraphs <- Graphs
    CfMaxIter = 2
    DcFunctions <- DcSources
    DcVars = {"a", "b", "c", "d"}
    DcMaxNew = 4
    SmBodies <- SmPrograms
    CkModels = {"A", "B"}
    CkTensors = 1
    CkSaves = 3
    CgObjs = {1, 2, 3}
    CgHeaps <- CgGraphs
    CgMaxOutside = 1
    CgBuffers <- CgSuspects
    JaValues = {0, 1, 2, 3}
    JaParams = {0}
    JaCodes <- JaPrograms
    JaPool = 2
    JaMaxSlots = 1
    JaNone = 99
    RxPatterns <- RxPats
    RxClass <- RxClasses
    RxAlphabet <- RxBytes
    RxMaxWord = 3
    ClKeys <- ClNames
    ClHashes <- ClHashFns
    ClVals = {1, 2}
    ClMapCap = 4
    ClLoadNum = 3
    ClLoadDen = 4
    ClReserves = {2, 3}
    ClQueueCap = 2
    ClPrios = {1, 2, 3}
    ClMaxCalls = 5
    ReThreads = {1, 2}
    ReFds = {1, 2}
    ReMaxConns = 3
    ElFds = {1, 2}
    ElMaxOpens = 3
    ElMaxWatchers = 3
    PsNames = {"a", "b"}
    PsTexts <- PsInputs
    PsTrees <- PsPrograms
    LwPrograms <- LwSources
    CvMaxDepth = 4
SPECIFICATION Spec
INVARIANTS
    KvSafe
    M2Correct
    BwVerdict
    MoCorrect
    CfCorrect
    DcDropsExact
    SmVerdict
    CkDurable
    CgCollects
    JaSafe
    RxLanguage
    ClAgree
    ReSafe
    ElSafe
    PsCorrect
    CvCorrect
CHECK_DEADLOCK FALSE
