CONSTANTS
    f1 = f1  g1 = g1  h1 = h1  k1 = k1  w1 = w1
    null = null
    Parts = {"regions", "pass", "accesses"}
SPECIFICATION Spec
INVARIANTS
    RegionsExact
    CodePathsKept
    CallsCovered
    InstrumentedEqual
