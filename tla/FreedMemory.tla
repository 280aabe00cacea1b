---------------------------- MODULE FreedMemory -----------------------------
(***************************************************************************)
(* Transactions beside dstm_malloc and dstm_free.  The blocks form a data  *)
(* structure: the content of one refers to others.  Every thread inserts   *)
(* blocks it has allocated, changes references, takes blocks out, and      *)
(* frees them after the commit, as set_add and set_remove of tests/intset  *)
(* do.  dstm_free clears a block's first unit with a plain write: it takes *)
(* no lock and leaves the version as it is.                                *)
(*                                                                         *)
(* What is asked of the program are the guards of its own actions: it      *)
(* accesses and stores only references it has found or allocated, and it   *)
(* frees a block to which, after the commits so far, no other one refers.  *)
(* A transaction that is running may still have found such a reference.    *)
(***************************************************************************)
EXTENDS CachedTransaction

CONSTANTS
    Roots,  \* the blocks the program knows by name; they are not freed
    Links   \* the references at the start, as pairs of blocks

ASSUME StructureAssumption == /\ Roots \subseteq Object
                              /\ Links \subseteq {k \in Object \X Object : k[1] # k[2]}

VARIABLES
    leads,    \* <<v, l, o>>: the content v of block l refers to o
    fresh,    \* blocks not yet allocated
    private,  \* <<t, o>>: t has allocated o and published no reference to it
    freed,    \* blocks whose dstm_free was called, with the next position in the
              \* serial order at the call, and those whose clearing has been done
    zeroed,   \* pieces that are cleared at home; mem has what was there
    blank     \* pieces an attempt has loaded while they were cleared

heapVars == <<leads, fresh, private, freed, zeroed, blank>>
freeVars == <<allVars, heapVars>>

FreeInit ==
    /\ CacheInit
    /\ leads = {<<NoAttempt, k[1], k[2]>> : k \in Links}
    /\ fresh = Object \ (Roots \cup UNION {{k[1], k[2]} : k \in Links})
    /\ private = {}
    /\ freed = [called |-> {}, done |-> {}]
    /\ zeroed = {}
    /\ blank = {}

-----------------------------------------------------------------------------
(* The program. *)

\* t has found a reference to o in its copy of a block.
Found(t, o) == \E l \in Accessed(t), w \in Word :
                  <<copy[t][l].val[w], l, o>> \in leads /\ <<Me(t), l, w>> \notin blank

InHand(t, o) == o \in Roots \/ <<t, o>> \in private \/ Found(t, o)

\* A transaction accesses only what it has in hand.  (Library steps and
\* handlers add nothing to the two sets.)
reachFirst ==
    \A t \in Thread :
        \A o \in (read_set'[t] \cup write_set'[t]) \ Accessed(t) : InHand(t, o)

\* A reference to o goes into a block the transaction writes, or stays there.
\* References to a root, or to the block itself, lead nowhere.
store(t, l, o) ==
    /\ pc[t] = "active" /\ call[t] = {} /\ l \in write_set[t]
    /\ o \notin Roots \cup {l} /\ InHand(t, o)
    /\ leads' = leads \cup {<<Me(t), l, o>>}
    /\ UNCHANGED <<allVars, fresh, private, freed, zeroed, blank>>

dstm_malloc(t, o) ==
    /\ pc[t] = "idle" /\ attempt[t] < MaxAttempts[t] /\ o \in fresh
    /\ fresh' = fresh \ {o}
    /\ private' = private \cup {<<t, o>>}
    /\ UNCHANGED <<allVars, leads, freed, zeroed, blank>>

\* A copy that u has still to validate is older than its block.
Doomed(u) == \E x \in todo[u] : isTimestampGreater(lock[x], copy[u][x].ts)

\* No block refers to o after the commits so far, or will after one whose
\* validation is going on, unless that is bound to fail.
Unlinked(o) ==
    \A k \in leads : k[3] = o =>
        /\ ~Current(k[2], k[1], ticket)
        /\ \A u \in Thread :
              (pc[u] = "validateAll" /\ k[2] \in write_set[u] /\ k[1] = Me(u)) => Doomed(u)

dstm_free(t, o) ==
    /\ pc[t] = "idle" /\ o \notin Roots \cup fresh
    /\ \A k \in freed.called : k[1] # o
    /\ \A u \in Thread \ {t} : <<u, o>> \notin private
    /\ Unlinked(o)
    /\ freed' = [freed EXCEPT !.called = @ \cup {<<o, ticket>>}]
    /\ private' = private \ {<<t, o>>}
    /\ UNCHANGED <<allVars, leads, fresh, zeroed, blank>>

-----------------------------------------------------------------------------
(* The library. *)

\* In the thread or, when the object has another home, in the handler of the
\* dstmfree message, at any later time.
clearUnit(o, w) ==
    /\ o \notin freed.done /\ \E k \in freed.called : k[1] = o
    /\ zeroed' = zeroed \cup {<<o, w>>}
    /\ freed' = [freed EXCEPT !.done = @ \cup {o}]
    /\ UNCHANGED <<allVars, leads, fresh, private, blank>>

\* The pieces a step of readCell copies, or one of commitWriteSetValues puts.
Moved(t, l) == IF pc[t] = l THEN left[t] \ left'[t] ELSE {}

\* The references a transaction that gets its record publishes.
Published(t) ==
    IF hist' = hist THEN {}
    ELSE {k[3] : k \in {j \in leads : j[1] = Me(t)}}

\* What a step of t does to pieces that are, or were, cleared.
followed(t) ==
    /\ zeroed' = zeroed \ Moved(t, "commitWriteSetValues")
    /\ blank' = (blank \ {<<Me(t), k[1], k[2]>> : k \in Moved(t, "loadData")})
                  \cup {<<Me(t), k[1], k[2]>> : k \in Moved(t, "loadData") \cap zeroed}
    /\ private' = private \ ({t} \X Published(t))
    /\ UNCHANGED <<leads, fresh, freed>>

FreeNext ==
    \/ Finished /\ UNCHANGED <<cacheVars, statVars, heapVars>>
    \/ \E t \in Thread :
          \/ /\ cachedApplication(t) \/ cachedLibrary(t) \/ cachedHandler(t)
             /\ reachFirst /\ followed(t)
          \/ \E o \in Object : \/ dstm_malloc(t, o) \/ dstm_free(t, o)
                               \/ \E l \in Object : store(t, l, o)
    \/ \E o \in Object, w \in Word : clearUnit(o, w)

FreeSpec == /\ FreeInit /\ [][FreeNext]_freeVars
            /\ \A t \in Thread : WF_allVars(cachedLibrary(t)) /\ WF_allVars(cachedHandler(t))

(***************************************************************************)
(* A transaction may read a block while it is cleared, or after, with      *)
(* nothing in the block's lock word to tell it; it does not commit with    *)
(* what it saw there, because the reference it came by has changed         *)
(* (dstm_free, validateAll).                                               *)
(***************************************************************************)
FreedUnseen ==
    \A h \in hist : \A o \in h.acc, w \in Word : <<h.tx, o, w>> \notin blank
=============================================================================
