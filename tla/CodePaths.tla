------------------------------ MODULE CodePaths -----------------------------
(***************************************************************************)
(* The functions that Tanger analysed are transformed and then run.  The   *)
(* code of a transaction stays as it is and gets a copy with instrumented  *)
(* loads, stores and calls; the begin block switches between them by what  *)
(* _ITM_beginTransaction returns (prepareTransformTransaction).  In the    *)
(* transactional version of a function the code at level zero is           *)
(* instrumented in place (transformFunction).                              *)
(***************************************************************************)
EXTENDS TxnRegions

VARIABLES
    version,  \* what is called: "original", or "txnal", the version for calls in
              \* transactions; "none" before
    at,       \* the block that runs and the copy of it: [block, path]
    begun     \* the transactions begun and not committed, the last one first

runVars == <<version, at, begun>>
allVars == <<vars, runVars>>

InitRun == /\ Init /\ version = "none"
           /\ at = [block |-> Entry, path |-> "original"] /\ begun = <<>>

\* _ITM_beginTransaction returns a_runInstrumentedCode.
beginTransaction == 1

\* The bits of the return value that choose the code path: without 4, 8 and 16.
insertGetABICodePathID(r) == (r % 4) + 32 * (r \div 32)

\* The ABI numbers of the transformers: one, for the default instrumentation.
getABIID == 1

Owner(b) == {t \in DOMAIN txns : b \in txns[t].code}
Begins(b) == \E t \in DOMAIN txns : b \in txns[t].beginCalls

\* Fault: branches of a copy are not redirected to the copy.
Target_Original(b, p, s) == [block |-> s, path |-> "original"]

\* Where a branch of the copy p of block b goes: operands are mapped to the
\* copies made for the same transaction.
Target(b, p, s) ==
    [block |-> s,
     path |-> IF p = "instrumented" /\ \E t \in Owner(b) : s \in txns[t].code
              THEN p ELSE "original"]

\* Begin blocks whose switch has a case for the copy.
Linked(b) == Begins(b)

Transformed == outcome = "analysed" /\ ~error /\ version # "none"

\* A transaction that is never committed fails an assertion.
Committed == \A t \in DOMAIN txns : txns[t].commitCalls # {}

\* The function is called from outside of transactions, or from instrumented
\* code.
called == /\ outcome = "analysed" /\ ~error /\ Committed /\ version = "none"
          /\ version' \in {"original", "txnal"}
          /\ UNCHANGED <<vars, at, begun>>

runBegin(s) ==
    /\ Transformed /\ at.block \in fn.begins /\ s \in fn.succ[at.block]
    /\ begun' = <<at.block>> \o begun
    /\ at' = [block |-> s,
              path |-> IF Linked(at.block) /\ insertGetABICodePathID(beginTransaction) = getABIID
                       THEN "instrumented" ELSE "original"]
    /\ UNCHANGED <<vars, version>>

runCommit(s) ==
    /\ Transformed /\ at.block \in fn.commits /\ s \in fn.succ[at.block]
    /\ begun' = IF begun = <<>> THEN <<>> ELSE Tail(begun)
    /\ at' = Target(at.block, at.path, s)
    /\ UNCHANGED <<vars, version>>

runBlock(s) ==
    /\ Transformed /\ at.block \notin Demarcations(fn) /\ s \in fn.succ[at.block]
    /\ at' = Target(at.block, at.path, s)
    /\ UNCHANGED <<vars, version, begun>>

Ends == /\ \/ Transformed /\ Returns(at.block)
           \/ outcome \in {"crashed", "undefined"}
           \/ outcome = "analysed" /\ (error \/ ~Committed)
        /\ UNCHANGED allVars

Next == \/ Analyse /\ UNCHANGED runVars
        \/ called
        \/ \E s \in Block : runBegin(s) \/ runCommit(s) \/ runBlock(s)
        \/ Ends

Spec == InitRun /\ [][Next]_allVars

-----------------------------------------------------------------------------
Instrumented == \/ at.path = "instrumented"
                \/ version = "txnal" /\ at.block \in levelZeroCode

Flat == \A t \in DOMAIN txns : txns[t].parent = None

(***************************************************************************)
(* In a function whose transactions are not nested, the code that runs in  *)
(* a transaction is the instrumented copy and the code that runs outside   *)
(* is not instrumented, on every path through merged transactions, loops   *)
(* and joins; in the transactional version of the function everything that *)
(* runs is instrumented (prepareTransformTransaction, transformFunction).  *)
(* (The begin and commit blocks of a nested transaction are in no code     *)
(* path and not copied: after it, its parent goes on in the original code, *)
(* "used for sequential code".)                                            *)
(***************************************************************************)
CodePathsKept ==
    Transformed /\ Flat /\ at.block \notin Demarcations(fn) =>
        Instrumented = (version = "txnal" \/ begun # <<>>)

=============================================================================
