----------------------------- MODULE Timestamps -----------------------------
(***************************************************************************)
(* The 64-bit word kept for every object: the lock bit (63), the node that *)
(* committed the object last (62..48) and the version, that node's clock   *)
(* at the commit (47..0).  It is a record here; LockWord checks that the   *)
(* record operations agree with the shifts and masks of the source.        *)
(***************************************************************************)
EXTENDS Naturals

Timestamp(N) == [lock : {0, 1}, node : N, version : Nat]

InitialTS == [lock |-> 0, node |-> 0, version |-> 0]

LOCKBIT_TS(ts) == ts.lock = 1

\* TO_NODE_TS(node) | clock: the word of a fresh version, lock bit clear
ToTS(node, clock) == [lock |-> 0, node |-> node, version |-> clock]

\* word | 1 << 63
SetLockBit(ts) == [ts EXCEPT !.lock = 1]

isTimestampsEquivalent(ts1, ts2) ==
    ts1.node = ts2.node /\ ts1.version = ts2.version

isTimestampsEqual(ts1, ts2) == ts1.version = ts2.version

isTimestampGreater(ts1, ts2) == ts1.version > ts2.version

(***************************************************************************)
(* The comparison "word > word" of two unsigned 64-bit integers: the lock  *)
(* bit weighs most, then the node, then the version.                       *)
(***************************************************************************)
WordGreater(ts1, ts2) ==
    \/ ts1.lock > ts2.lock
    \/ /\ ts1.lock = ts2.lock
       /\ \/ ts1.node > ts2.node
          \/ ts1.node = ts2.node /\ ts1.version > ts2.version
=============================================================================
