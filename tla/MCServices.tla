----------------------------- MODULE MCServices -----------------------------
(***************************************************************************)
(* The services the protocol and the programs rest on, checked side by     *)
(* side: the clock of a node, lock words, the cache of lock words, the     *)
(* barrier, dstm_malloc and the buddy allocator.  The initial state        *)
(* chooses a part, and only that part moves.                               *)
(***************************************************************************)
EXTENDS LocalClock, LocksCache, DSTMBarrier, Allocator, TLC

CONSTANTS a1, a2, a3  \* threads that allocate

VARIABLES part,
          word, rec, copy, copyRec,
          tree, t_pc, index, need, goal, t_live

-----------------------------------------------------------------------------
\* Four nodes and three-bit versions, the clock up to the last that fits.
Words == INSTANCE LockWord WITH NodeBits <- 2, VersionBits <- 3, ClockLimit <- 7

\* A transaction of node 1, two words of node 0 in one line and one at home.
MCWord == {<<0, 0>>, <<0, 1>>, <<1, 0>>}

\* Two threads on node 0 and one on node 1, which share both nodes' memory.
MCmynode == [t \in {a1, a2, a3} |-> IF t = a3 THEN 1 ELSE 0]

\* Four units and requests of every size.
Tree == INSTANCE Buddy WITH
    Level <- 2, Request <- 0..5, pc <- t_pc, live <- t_live

ASSUME Assumptions == Words!WidthAssumption /\ Tree!LevelAssumption

packedVars == <<word, rec, copy, copyRec>>
treeVars == <<tree, t_pc, index, need, goal, t_live>>
allVars == <<part, vars, packedVars, locksVars, barrierVars, mallocVars, treeVars>>

AnyInit == /\ part \in {"clock", "words", "locks", "barrier", "malloc", "tree"}
           /\ Init /\ Words!Init /\ LocksInit /\ BarrierInit /\ MallocInit /\ Tree!Init

Only(p) == /\ part = p /\ UNCHANGED part
           /\ p # "clock" => UNCHANGED vars
           /\ p # "words" => UNCHANGED packedVars
           /\ p # "locks" => UNCHANGED locksVars
           /\ p # "barrier" => UNCHANGED barrierVars
           /\ p # "malloc" => UNCHANGED mallocVars
           /\ p # "tree" => UNCHANGED treeVars

ClockMoves == Only("clock") /\ Next
WordsMove == Only("words") /\ Words!Next
LocksMove == Only("locks") /\ LocksNext
BarrierMoves == Only("barrier") /\ BarrierNext
MallocMoves == Only("malloc") /\ MallocNext
TreeMoves == Only("tree") /\ Tree!Next

AnyNext == \/ ClockMoves \/ WordsMove \/ LocksMove \/ BarrierMoves \/ MallocMoves
           \/ TreeMoves

\* The fairness of the parts: FairSpec of each.
AnySpec ==
    /\ AnyInit /\ [][AnyNext]_allVars
    /\ \A c \in Caller : WF_allVars(Only("clock") /\ Step(c))
    /\ WF_allVars(Only("barrier") /\ setStop)
    /\ \A p \in Member : WF_allVars(Only("barrier") /\ BarrierStep(p))
    /\ \A t \in Client : WF_allVars(Only("malloc") /\ Malloc(t))
    /\ WF_allVars(Only("tree") /\ Tree!Loop)
-----------------------------------------------------------------------------
\* The records of Timestamps stand for the packed words (LockWord).
RecordsStandForWords == Words!RecordsStandForWords
\* The buddy allocator hands out what is free, and only that (Buddy).
BuddyExact == part = "tree" => Tree!BuddyExact
\* Calls of the clock, the barrier, dstm_malloc and the buddy allocator return
\* (CallsReturn, EveryonePasses, MallocReturns and BuddyReturns).
ServicesReturn ==
    /\ part = "clock" => CallsReturn
    /\ part = "barrier" => EveryonePasses
    /\ part = "malloc" => MallocReturns
    /\ part = "tree" => Tree!BuddyReturns
=============================================================================
