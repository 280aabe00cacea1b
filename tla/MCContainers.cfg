CONSTANTS
    t1 = t1  t2 = t2
    Thread = {t1, t2}
    Locker = {l1, l2, l3}
    MaxLocks = 4
    Key = {1, 2, 3}
    Segment = {0, 1, 2}
    Sizes = {0, 3, 8}
    RehashEmpty = FALSE
    Width = 4
    ShortWidth = 4
    MaxSerial = 1
SPECIFICATION AnySpec
INVARIANTS
    StructuresSound
    
PROPERTIES
    RefinesRWLock
    MapsRefineAtomicMap
    ContainerCallsReturn
