SPECIFICATION FairSpec
CONSTANTS
    nodesNum = 3
    MaxThreads = 2
    SerialHandlers = TRUE
INVARIANT JoinedDone
PROPERTIES JoinReturns ShutdownCompletes
