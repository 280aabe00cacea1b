--------------------------- MODULE MCFreedMemory ----------------------------
(* An instance of FreedMemory, and with it of CachedTransaction, for TLC. *)
EXTENDS FreedMemory

CONSTANTS t1, t2, a, b

\* Both threads on node 0; a lives there, b on node 1.
MCNode == {0, 1}
MCNodeOf == [t \in Thread |-> 0]
MCHome == [o \in Object |-> IF o = a THEN 0 ELSE 1]
\* Both threads change the link, the block a, and both may allocate and free b.
MCReads == [t \in Thread |-> IF t = t1 THEN {a, b} ELSE {}]
MCWrites == [t \in Thread |-> IF t = t1 THEN {a} ELSE {a, b}]
MCAttempts == [t \in Thread |-> IF t = t1 THEN 1 ELSE 2]
MCRoots == {a}
MCLinks == {}

\* Every commit ends, and with it every lock is given back (CommitTerminates
\* and LocksReturned of DSTMTransaction).
CommitsSettle == CommitTerminates /\ LocksReturned
=============================================================================
