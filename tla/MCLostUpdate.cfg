CONSTANTS
    t1 = t1
    t2 = t2
    t3 = t3
    a = a
    b = b
    c = c
    Node <- TwoNodes
    Thread = {t1, t2}
    Object = {a}
    Word = {1}
    nodeOf <- TwoNodeThreads
    home <- TwoNodeObjects
    mayRead <- AllObjects
    mayWrite <- AllObjects
    NoAttempt = NoAttempt
    maxRequestedLocksPerNode = 2
    MaxAttempts <- TwoAttempts
SPECIFICATION Spec
INVARIANT
    NoLostUpdate
