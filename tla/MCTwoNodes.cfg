CONSTANTS
    t1 = t1
    t2 = t2
    t3 = t3
    a = a
    b = b
    c = c
    Node <- TwoNodes
    Thread = {t1, t2, t3}
    Object = {a, b}
    Word = {1}
    nodeOf <- TwoNodeThreads
    home <- TwoNodeObjects
    mayRead <- ChainReads
    mayWrite <- RemoteWrites
    NoAttempt = NoAttempt
    maxRequestedLocksPerNode = 2
    MaxAttempts <- WriterTwice
SPECIFICATION Spec
INVARIANTS
    Serializable
    CausalSnapshot
