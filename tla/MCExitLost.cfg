SPECIFICATION FairSpec
CONSTANTS
    nodesNum = 2
    MaxThreads = 1
    SerialHandlers = FALSE
PROPERTY JoinReturns
\* Node 0 can wait for ever for statistics it has lost count of.
CHECK_DEADLOCK FALSE
