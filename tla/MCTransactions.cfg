CONSTANTS
    t1 = t1
    t2 = t2
    t3 = t3
    a = a
    b = b
    c = c
    Node <- OneNode
    Thread = {t1, t2}
    Object = {a, b, c}
    Word = {1, 2}
    nodeOf <- OneNodeThreads
    home <- OneNodeObjects
    mayRead <- BothObjects
    mayWrite <- WideWrites
    NoAttempt = NoAttempt
    maxRequestedLocksPerNode = 2
    MaxAttempts <- WriterTwice
SPECIFICATION Spec
INVARIANTS
    Serializable
    ConsistentSnapshot
    LockOwnership
    CopyAuthentic
PROPERTY
    VersionsGrow
