----------------------------- MODULE TxnRegions -----------------------------
(***************************************************************************)
(* The Tanger pass decides which basic blocks of a function belong to      *)
(* which transaction (TangerTransform::determineLevels).  The control flow *)
(* is walked from the entry with a stack of blocks; a block inherits the   *)
(* transaction it is reached in, a begin block opens one and a commit      *)
(* block closes it.  A block reached in two transactions merges them when  *)
(* they have the same parent.  A Transaction is known by the begin block   *)
(* it was created for, and 0 stands for NULL.                              *)
(***************************************************************************)
EXTENDS Integers, Sequences, FiniteSets, TLC

CONSTANTS
    Block,     \* positive integers
    Entry,     \* the first block of every function
    Funcs      \* the functions analysed: [succ, begins, commits, markers]

None == 0

Demarcations(f) == f.begins \cup f.commits

\* Every call of begin or commit has a block of its own, which falls through
\* to the block of what follows the call.
Split(f) ==
    /\ Entry \notin Demarcations(f)
    /\ \A d \in Demarcations(f) : \E s \in Block \ Demarcations(f) :
          f.succ[d] = {s} /\ \A b \in Block \ {d} : s \notin f.succ[b]

FuncsAssumption == \A f \in Funcs : Split(f)

VARIABLES
    fn,           \* the function
    bbprops,      \* what is known of the blocks seen: [txn, isBegin, isCommit]
    txns,         \* the transactions that exist
    freeBegins, freeCommits, levelZeroCode,
    todo,         \* stack of blocks
    bb, txn, left,\* the block at hand, what its successors are in, which are left
    error, outcome

vars == <<fn, bbprops, txns, freeBegins, freeCommits, levelZeroCode, todo, bb, txn,
          left, error, outcome>>

BBProp(t, begin, commit) == [txn |-> t, isBegin |-> begin, isCommit |-> commit]

Init ==
    /\ fn \in Funcs
    /\ bbprops = (Entry :> BBProp(None, FALSE, FALSE)) /\ todo = <<Entry>>
    /\ txns = <<>> /\ levelZeroCode = {}
    /\ freeBegins = fn.begins /\ freeCommits = fn.commits
    /\ bb = None /\ txn = None /\ left = {}
    /\ error = FALSE /\ outcome = "analysing"

Returns(b) == fn.succ[b] = {}
Deleted(t) == t # None /\ t \notin DOMAIN txns

\* The transaction the successors of a block are in.
After(p) == IF p.isCommit /\ p.txn # None THEN txns[p.txn].parent ELSE p.txn

\* A transaction whose parent was merged into another keeps the pointer to the
\* deleted one: what happens when it is followed is undefined.
popBlock ==
    /\ outcome = "analysing" /\ left = {} /\ todo # <<>>
    /\ LET b == todo[Len(todo)]
           p == bbprops[b]
       IN  /\ bb' = b /\ left' = fn.succ[b] /\ txn' = After(p)
           /\ error' = (error \/ (p.txn # None /\ Returns(b)))
           /\ outcome' = IF Deleted(After(p)) THEN "undefined" ELSE outcome
    /\ todo' = SubSeq(todo, 1, Len(todo) - 1)
    /\ UNCHANGED <<fn, bbprops, txns, freeBegins, freeCommits, levelZeroCode>>

\* A successor that has not been seen takes over what is known.
New(s) == /\ outcome = "analysing" /\ s \in left /\ s \notin DOMAIN bbprops
          /\ left' = left \ {s} /\ todo' = Append(todo, s)
          /\ UNCHANGED <<fn, levelZeroCode, bb, txn, error, outcome>>

addTxn(s, parent) ==
    s :> [parent |-> parent, level |-> IF parent = None THEN 0 ELSE txns[parent].level + 1,
          markerCalls |-> s \in fn.markers, code |-> {}, beginCalls |-> {s},
          commitCalls |-> {}]

newBegin(s) ==
    /\ New(s) /\ s \in freeBegins
    /\ txns' = txns @@ addTxn(s, txn)
    /\ bbprops' = bbprops @@ (s :> BBProp(s, TRUE, FALSE))
    /\ freeBegins' = freeBegins \ {s} /\ UNCHANGED freeCommits

newCommit(s) ==
    /\ New(s) /\ s \in freeCommits
    /\ bbprops' = bbprops @@ (s :> BBProp(txn, FALSE, txn # None))
    /\ txns' = IF txn = None THEN txns ELSE [txns EXCEPT ![txn].commitCalls = @ \cup {s}]
    /\ freeCommits' = freeCommits \ {s} /\ UNCHANGED freeBegins

newOrdinary(s) ==
    /\ New(s) /\ s \notin freeBegins \cup freeCommits
    /\ bbprops' = bbprops @@ (s :> BBProp(txn, FALSE, FALSE))
    /\ txns' = IF txn = None THEN txns ELSE [txns EXCEPT ![txn].code = @ \cup {s}]
    /\ UNCHANGED <<freeBegins, freeCommits>>

-----------------------------------------------------------------------------
(* A successor that has been seen must be in the same transaction, or the  *)
(* two are merged.                                                         *)

Seen(s) == /\ outcome = "analysing" /\ s \in left /\ s \in DOMAIN bbprops
           /\ UNCHANGED <<fn, freeBegins, freeCommits, levelZeroCode, todo, bb, txn>>

MergeTxn(s) == IF bbprops[s].isBegin THEN txns[bbprops[s].txn].parent ELSE bbprops[s].txn

same(s) ==
    /\ Seen(s) /\ MergeTxn(s) = txn
    /\ left' = left \ {s} /\ UNCHANGED <<bbprops, txns, error, outcome>>

\* One of them is NULL, and both are read.
nullRead(s) ==
    /\ Seen(s) /\ MergeTxn(s) # txn /\ None \in {MergeTxn(s), txn}
    /\ outcome' = "crashed" /\ left' = {} /\ UNCHANGED <<bbprops, txns, error>>

deletedRead(s) ==
    /\ Seen(s) /\ MergeTxn(s) # txn /\ None \notin {MergeTxn(s), txn} /\ Deleted(MergeTxn(s))
    /\ outcome' = "undefined" /\ left' = {} /\ UNCHANGED <<bbprops, txns, error>>

\* Fault: transactions of different levels are merged, too.
Mergeable_Any(t, o) == ~txns[t].markerCalls /\ ~txns[o].markerCalls

Mergeable(t, o) == /\ txns[t].parent = txns[o].parent /\ txns[t].level = txns[o].level
                   /\ ~txns[t].markerCalls /\ ~txns[o].markerCalls

Live(s) == /\ Seen(s) /\ MergeTxn(s) # txn
           /\ None \notin {MergeTxn(s), txn} /\ ~Deleted(MergeTxn(s))
           /\ left' = left \ {s} /\ UNCHANGED outcome

refuse(s) ==
    /\ Live(s) /\ ~Mergeable(txn, MergeTxn(s))
    /\ error' = TRUE /\ UNCHANGED <<bbprops, txns>>

Rewritten(o) == [b \in DOMAIN bbprops |->
                    [bbprops[b] EXCEPT !.txn = IF @ = o THEN txn ELSE @]]

Merged(t, o) == [t EXCEPT !.code = @ \cup o.code, !.beginCalls = @ \cup o.beginCalls,
                          !.commitCalls = @ \cup o.commitCalls]

mergeAndDeleteTxn(s) ==
    LET o == MergeTxn(s)
    IN  /\ Live(s) /\ Mergeable(txn, o)
        /\ bbprops' = Rewritten(o)
        /\ txns' = [t \in DOMAIN txns \ {o} |->
                       IF t = txn THEN Merged(txns[t], txns[o]) ELSE txns[t]]
        /\ UNCHANGED error

-----------------------------------------------------------------------------
\* Blocks that nothing reaches and that lead to one block only, which was seen.
Unreached == {b \in Block \ DOMAIN bbprops :
                 /\ \A p \in Block : b \notin fn.succ[p]
                 /\ Cardinality(fn.succ[b]) = 1 /\ fn.succ[b] \subseteq DOMAIN bbprops}

PropOf(b) == IF b \in DOMAIN bbprops THEN bbprops[b]
             ELSE bbprops[CHOOSE s \in fn.succ[b] : TRUE]

finish ==
    /\ outcome = "analysing" /\ left = {} /\ todo = <<>>
    /\ outcome' = "analysed"
    /\ IF error THEN UNCHANGED <<levelZeroCode, txns>>
       ELSE /\ levelZeroCode' = {b \in DOMAIN bbprops \cup Unreached : PropOf(b).txn = None}
            /\ txns' = [t \in DOMAIN txns |->
                           [txns[t] EXCEPT !.code = @ \cup {b \in Unreached : PropOf(b).txn = t}]]
    /\ UNCHANGED <<fn, bbprops, freeBegins, freeCommits, todo, bb, txn, left, error>>

Analyse == \/ popBlock \/ finish
           \/ \E s \in left : \/ newBegin(s) \/ newCommit(s) \/ newOrdinary(s)
                              \/ same(s) \/ nullRead(s) \/ deletedRead(s) \/ refuse(s)
                              \/ mergeAndDeleteTxn(s)

-----------------------------------------------------------------------------
(* What the analysis is compared with: the begin blocks that are open on   *)
(* the paths to a block, the last one first.                               *)

MaxOpen == Cardinality(fn.begins) + 1

Enter(open, s) == IF s \in fn.begins THEN <<s>> \o open ELSE open
Leave(open, b) == IF b \in fn.commits /\ open # <<>> THEN Tail(open) ELSE open

Extend(R) == R \cup {x \in UNION {{<<s, Enter(Leave(r[2], r[1]), s)>> : s \in fn.succ[r[1]]} : r \in R} :
                        Len(x[2]) <= MaxOpen}

RECURSIVE Closure(_)
Closure(R) == LET more == Extend(R) IN IF more = R THEN R ELSE Closure(more)

Paths == Closure({<<Entry, <<>>>>})

Nested(R) == /\ \A r, q \in R : r[1] = q[1] => r[2] = q[2]
             /\ \A r \in R : Returns(r[1]) => r[2] = <<>>

Level(b) == IF bbprops[b].txn = None THEN 0 ELSE txns[bbprops[b].txn].level + 1

(***************************************************************************)
(* A function whose blocks are each in one place of the nesting, whatever  *)
(* the path, is accepted, each block in the transaction of the innermost   *)
(* open begin.  And whatever is accepted has at every block the number of  *)
(* open transactions that the analysis found, on every path, so that no    *)
(* block is transactional on one path and not on another; the code of the  *)
(* transactions and the code at level zero are all the ordinary blocks     *)
(* that can be reached, each in one of them (determineLevels).             *)
(***************************************************************************)
RegionsExact ==
    outcome # "analysing" =>
        LET R == Paths
        IN  /\ Nested(R) =>
                 /\ outcome = "analysed" /\ ~error
                 /\ \A r \in R : bbprops[r[1]].txn = IF r[2] = <<>> THEN None ELSE r[2][1]
            /\ outcome = "analysed" /\ ~error =>
                 /\ \A r \in R : Len(r[2]) = Level(r[1])
                 /\ \A r \in R : r[1] \notin Demarcations(fn) =>
                       /\ r[2] = <<>> <=> r[1] \in levelZeroCode
                       /\ r[2] # <<>> => Cardinality({t \in DOMAIN txns : r[1] \in txns[t].code}) = 1
=============================================================================
