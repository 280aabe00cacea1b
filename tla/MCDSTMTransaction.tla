------------------------- MODULE MCDSTMTransaction --------------------------
(* Instances of DSTMTransaction for TLC. *)
EXTENDS DSTMTransaction

CONSTANTS t1, t2, t3, a, b, c

\* One node: every thread and every object on node 0.
OneNode == {0}
OneNodeThreads == [t \in Thread |-> 0]
OneNodeObjects == [o \in Object |-> 0]

\* Both threads read a and b; t1 writes any object, t2 writes a and b.
BothObjects == [t \in Thread |-> {a, b}]
WideWrites == [t \in Thread |-> IF t = t1 THEN Object ELSE {a, b}]

\* Two nodes: t1 runs on node 0, the other threads on node 1; a lives on
\* node 0, the other objects on node 1.
TwoNodes == {0, 1}
TwoNodeThreads == [t \in Thread |-> IF t = t1 THEN 0 ELSE 1]
TwoNodeObjects == [o \in Object |-> IF o = a THEN 0 ELSE 1]

\* One thread writes each object, and it runs on the other node.
RemoteWrites == [t \in Thread |-> CASE t = t1 -> Object \ {a}
                                    [] t = t2 -> {a}
                                    [] OTHER -> {}]
\* A chain: t2 updates a, t1 reads a and updates b, t3 reads both.
ChainReads == [t \in Thread |-> CASE t = t1 -> {a}
                                  [] t = t2 -> {}
                                  [] OTHER -> Object]

\* Any thread reads and writes any object.
AllObjects == [t \in Thread |-> Object]

TwoAttempts == [t \in Thread |-> 2]
\* t2 makes two attempts, the others one.
WriterTwice == [t \in Thread |-> IF t = t2 THEN 2 ELSE 1]
=============================================================================
