CONSTANTS
    t1 = t1
    t2 = t2
    a = a
    b = b
    Node <- MCNode
    Thread = {t1, t2}
    Object = {a, b}
    Word = {1}
    nodeOf <- MCNodeOf
    home <- MCHome
    mayRead <- MCReads
    mayWrite <- MCWrites
    NoAttempt = NoAttempt
    maxRequestedLocksPerNode = 2
    MaxAttempts <- MCAttempts
    Roots <- MCRoots
    Links <- MCLinks
SPECIFICATION FreeSpec
INVARIANTS
    AbortsCounted
    FreedUnseen
PROPERTIES
    RefusalsJustified
    CommitsSettle
