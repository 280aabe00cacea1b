CONSTANTS
    Caller = {c1, c2}
    Version = {1, 3}
    MaxCalls = 3
    Me = 1
    Word <- MCWord
    LineWords = 2
    MaxVersion = 1
    MaxValidations = 2
    nodesNum = 3
    tnum = 5
    a1 = a1  a2 = a2  a3 = a3
    Home = {0, 1}
    Client = {a1, a2, a3}
    mynode <- MCmynode
    Size = {20}
    UnitBytes = 8
    CduUnits = 2
    OBJECTS_COUNT = 3
    MaxMallocs = 1
SPECIFICATION AnySpec
INVARIANTS
    UniqueClocks
    RecordsStandForWords
    ValidationCurrent
    BarriersHold
    LiveIntact
    BuddyExact
PROPERTIES
    RefinesAtomicClock
    ServicesReturn
