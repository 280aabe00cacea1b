CONSTANTS
    a = a  b = b  c0 = c0  d = d  e = e
    Root = root
    null = null
    NoBlock = null
    Scheduler = {p, q}
    Block = {b1, b2, b3, b4, b5}
    MaxAllocations = 3
    NoArena = none
    a1 = a1  a2 = a2
    MaxCalls = 5
    Races = {}
    Parts = {"tasks", "memory", "arena", "market", "workers", "groups", "observers"}
SPECIFICATION Spec
INVARIANTS
    EachTaskOnce
    
    SchedulerOutlivesUse
    NothingLeaks
    ProxiesSound
    NoneStranded
    
    ServerSound
PROPERTY
    WaitReturns
