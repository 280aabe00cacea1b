-------------------------- MODULE DSTMTransaction ---------------------------
(***************************************************************************)
(* The commit protocol of the distributed STM in its VARIANT1 build: a     *)
(* transaction keeps whole-block copies of what it read and wrote, commits *)
(* by try-locking its write set at the home nodes (active messages),       *)
(* validating its read set, putting the blocks back with one-sided writes  *)
(* and releasing the locks with a fresh version of its node's clock.       *)
(*                                                                         *)
(* An object is one 64-byte CDU block of Word pieces.  The content of a    *)
(* piece is the attempt that wrote it: two blocks are equal in the model   *)
(* when the same attempts wrote them.                                      *)
(***************************************************************************)
EXTENDS Timestamps, FiniteSets

CONSTANTS
    Node,       \* GASNet nodes
    Thread,     \* application threads, one transaction descriptor each
    Object,     \* CDU blocks
    Word,       \* the pieces of a block that one memory access copies
    nodeOf,     \* the node a thread runs on
    home,       \* the node an object lives on
    mayRead,    \* the objects the application reads in a thread
    mayWrite,   \* the objects the application writes in a thread
    NoAttempt,  \* the content of a block nobody has written
    maxRequestedLocksPerNode,
    MaxAttempts \* bound: transactions a thread starts, retries included

ASSUME NodeAssumption == Node \subseteq Nat /\ 0 \in Node
ASSUME ThreadAssumption == nodeOf \in [Thread -> Node]
ASSUME ObjectAssumption == home \in [Object -> Node]
ASSUME ApplicationAssumption == /\ mayRead \in [Thread -> SUBSET Object]
                                /\ mayWrite \in [Thread -> SUBSET Object]
ASSUME BoundAssumption == /\ maxRequestedLocksPerNode \in Nat \ {0}
                          /\ MaxAttempts \in [Thread -> Nat]
ASSUME NoAttemptAssumption == NoAttempt \notin Thread \X Nat

Attempt == Thread \X Nat
Block   == [Word -> Attempt \cup {NoAttempt}]
Copy    == [ts : Timestamp(Node), val : Block]

\* A freshly allocated entry: its content is not read before it is filled.
EmptyCopy == [ts |-> InitialTS, val |-> [w \in Word |-> NoAttempt]]

VARIABLES
    lock,      \* home nodes: the lock word of each object
    mem,       \* home nodes: the block of each object
    clock,     \* LOCAL_CLOCK of each node
    pc,        \* where the thread is
    attempt,   \* the number of transactions the thread has started
    read_set,  \* blocks read and not written
    write_set, \* blocks written
    copy,      \* the entries the two sets point to: timestamp and block
    VC,        \* the newest version of each node the transaction validated
    ts,        \* the local timestamp of read/write, then new_version
    todo,      \* the objects the running loop has still to handle
    left,      \* the pieces the running block copy has still to move
    grab,      \* the lock request of each write-set object
    old,       \* lock_val_old of the handler that works on it
    waiting,   \* nodes whose reply getLocks waits for (rlNodes)
    hist,      \* history: what each committed transaction saw and wrote
    ticket,    \* history: the next serialization position
    pos        \* history: the position the committing transaction drew

memory  == <<lock, mem, clock>>
sets    == <<read_set, write_set, copy>>
loops   == <<ts, todo, left>>
request == <<grab, old, waiting>>
history == <<hist, ticket, pos>>
vars    == <<memory, pc, attempt, sets, VC, loops, request, history>>

Me(t) == <<t, attempt[t]>>
Accessed(t) == read_set[t] \cup write_set[t]

PC == {"idle", "active", "loadVersion", "loadData", "recheck",
       "increaseClock", "validate", "getLocks", "releaseLocks", "validateAll",
       "commitWriteSetValues", "getNextClock", "releaseLocksWithNewClock"}

Grab == {"none", "asked", "loaded", "held", "refused"}

Commits == [tx : Attempt, pos : Nat, acc : SUBSET Object,
            seen : [Object -> Block], writes : SUBSET Object]

Init ==
    /\ lock = [o \in Object |-> InitialTS]
    /\ mem = [o \in Object |-> [w \in Word |-> NoAttempt]]
    /\ clock = [n \in Node |-> 0]
    /\ pc = [t \in Thread |-> "idle"]
    /\ attempt = [t \in Thread |-> 0]
    /\ read_set = [t \in Thread |-> {}]
    /\ write_set = [t \in Thread |-> {}]
    /\ copy = [t \in Thread |-> [o \in Object |-> EmptyCopy]]
    /\ VC = [t \in Thread |-> [n \in Node |-> 0]]
    /\ ts = [t \in Thread |-> InitialTS]
    /\ todo = [t \in Thread |-> {}]
    /\ left = [t \in Thread |-> {}]
    /\ grab = [t \in Thread |-> [o \in Object |-> "none"]]
    /\ old = [t \in Thread |-> [o \in Object |-> InitialTS]]
    /\ waiting = [t \in Thread |-> {}]
    /\ hist = {}
    /\ ticket = 1
    /\ pos = [t \in Thread |-> 0]

-----------------------------------------------------------------------------
(* clearWriteSet, clearReadSet and the end of the transaction: the entries *)
(* are freed; abort jumps back to the checkpoint, from where the thread    *)
(* runs the transaction again, commit deletes the descriptor.              *)

Clear(t) ==
    /\ pc' = [pc EXCEPT ![t] = "idle"]
    /\ read_set' = [read_set EXCEPT ![t] = {}]
    /\ write_set' = [write_set EXCEPT ![t] = {}]
    /\ copy' = [copy EXCEPT ![t] = [o \in Object |-> EmptyCopy]]
    /\ ts' = [ts EXCEPT ![t] = InitialTS]
    /\ todo' = [todo EXCEPT ![t] = {}]
    /\ pos' = [pos EXCEPT ![t] = 0]

abort(t) == Clear(t) /\ UNCHANGED <<attempt, VC, left, hist, ticket>>

begin(t) ==
    /\ pc[t] = "idle" /\ attempt[t] < MaxAttempts[t]
    /\ pc' = [pc EXCEPT ![t] = "active"]
    /\ attempt' = [attempt EXCEPT ![t] = @ + 1]
    /\ VC' = [VC EXCEPT ![t] = [n \in Node |-> 0]]
    /\ UNCHANGED <<memory, sets, loops, request, history>>

-----------------------------------------------------------------------------
(* read and write.  An access to a block the transaction already has uses  *)
(* its copy and changes nothing but that copy's content.                   *)

StartReadCell(t, o) ==
    /\ pc' = [pc EXCEPT ![t] = "loadVersion"]
    /\ todo' = [todo EXCEPT ![t] = {o}]
    /\ UNCHANGED <<memory, attempt, copy, VC, ts, left, request, history>>

read(t, o) ==
    /\ pc[t] = "active" /\ o \in mayRead[t] /\ o \notin Accessed(t)
    /\ read_set' = [read_set EXCEPT ![t] = @ \cup {o}]
    /\ StartReadCell(t, o)
    /\ UNCHANGED write_set

write(t, o) ==
    /\ pc[t] = "active" /\ o \in mayWrite[t] /\ o \notin Accessed(t)
    /\ write_set' = [write_set EXCEPT ![t] = @ \cup {o}]
    /\ StartReadCell(t, o)
    /\ UNCHANGED read_set

\* A block the transaction has read moves to the write set with its copy.
writeRead(t, o) ==
    /\ pc[t] = "active" /\ o \in mayWrite[t] /\ o \in read_set[t]
    /\ write_set' = [write_set EXCEPT ![t] = @ \cup {o}]
    /\ read_set' = [read_set EXCEPT ![t] = @ \ {o}]
    /\ UNCHANGED <<memory, pc, attempt, copy, VC, loops, request, history>>

\* A NULL address.
invalidAccess(t) == pc[t] = "active" /\ abort(t) /\ UNCHANGED <<memory, request>>

(***************************************************************************)
(* readCell: lock word, block, lock word again; a set lock bit makes the   *)
(* caller abort, another timestamp starts over.                            *)
(***************************************************************************)
loadVersion(t, o) ==
    /\ pc[t] = "loadVersion" /\ o \in todo[t] /\ ~LOCKBIT_TS(lock[o])
    /\ ts' = [ts EXCEPT ![t] = lock[o]]
    /\ left' = [left EXCEPT ![t] = {o} \X Word]
    /\ pc' = [pc EXCEPT ![t] = "loadData"]
    /\ UNCHANGED <<memory, attempt, sets, VC, todo, request, history>>

loadData(t, o, w) ==
    /\ pc[t] = "loadData" /\ <<o, w>> \in left[t]
    /\ copy' = [copy EXCEPT ![t][o].val[w] = mem[o][w]]
    /\ left' = [left EXCEPT ![t] = @ \ {<<o, w>>}]
    /\ pc' = [pc EXCEPT ![t] = IF left'[t] = {} THEN "recheck" ELSE @]
    /\ UNCHANGED <<memory, attempt, read_set, write_set, VC, ts, todo,
                   request, history>>

\* Fault: the block is taken without looking at the lock word again.
StillCurrent_Unchecked(t, o) == TRUE

StillCurrent(t, o) == isTimestampsEquivalent(ts[t], lock[o])

recheckVersion(t, o) ==
    /\ pc[t] = "recheck" /\ o \in todo[t] /\ ~LOCKBIT_TS(lock[o])
    /\ IF StillCurrent(t, o)
       THEN /\ copy' = [copy EXCEPT ![t][o].ts = ts[t]]
            /\ pc' = [pc EXCEPT ![t] = "increaseClock"]
       ELSE /\ pc' = [pc EXCEPT ![t] = "loadVersion"]
            /\ UNCHANGED copy
    /\ UNCHANGED <<memory, attempt, read_set, write_set, VC, loops, request,
                   history>>

cellLocked(t, o) ==
    /\ pc[t] \in {"loadVersion", "recheck"} /\ o \in todo[t]
    /\ LOCKBIT_TS(lock[o])
    /\ abort(t)
    /\ UNCHANGED <<memory, request>>

\* Fault: the clock does not follow the versions read.
CaughtUp_Not(n, v) == clock[n]

CaughtUp(n, v) == IF v > clock[n] THEN v ELSE clock[n]

\* The node's clock catches up with the version read; a version newer than
\* any the transaction validated of that node starts a validation.
increaseClock(t) ==
    LET n == nodeOf[t]
        stale == {o \in Accessed(t) : isTimestampGreater(ts[t], copy[t][o].ts)}
    IN  /\ pc[t] = "increaseClock"
        /\ clock' = [clock EXCEPT ![n] = CaughtUp(n, ts[t].version)]
        /\ IF ts[t].version > VC[t][ts[t].node]
           THEN /\ pc' = [pc EXCEPT ![t] = "validate"]
                /\ todo' = [todo EXCEPT ![t] = stale]
                /\ UNCHANGED ts
           ELSE /\ pc' = [pc EXCEPT ![t] = "active"]
                /\ todo' = [todo EXCEPT ![t] = {}]
                /\ ts' = [ts EXCEPT ![t] = InitialTS]
        /\ UNCHANGED <<lock, mem, attempt, sets, VC, left, request, history>>

\* The loops go over the read set first.
NextToValidate(t) == IF todo[t] \cap read_set[t] # {}
                     THEN todo[t] \cap read_set[t] ELSE todo[t]

\* Fault: a newer version goes unnoticed unless it is locked.
Changed_LockOnly(t, o) == LOCKBIT_TS(lock[o])

Changed(t, o) == \/ LOCKBIT_TS(lock[o])
                 \/ isTimestampGreater(lock[o], copy[t][o].ts)

validate(t, o) ==
    /\ pc[t] = "validate" /\ o \in NextToValidate(t) /\ ~Changed(t, o)
    /\ todo' = [todo EXCEPT ![t] = @ \ {o}]
    /\ UNCHANGED <<memory, pc, attempt, sets, VC, ts, left, request, history>>

validateFails(t, o) ==
    /\ pc[t] = "validate" /\ o \in NextToValidate(t) /\ Changed(t, o)
    /\ abort(t)
    /\ UNCHANGED <<memory, request>>

validated(t) ==
    /\ pc[t] = "validate" /\ todo[t] = {}
    /\ VC' = [VC EXCEPT ![t][ts[t].node] = ts[t].version]
    /\ ts' = [ts EXCEPT ![t] = InitialTS]
    /\ pc' = [pc EXCEPT ![t] = "active"]
    /\ UNCHANGED <<memory, attempt, sets, todo, left, request, history>>

-----------------------------------------------------------------------------
(* commit *)

\* Fault: a transaction that wrote nothing is not validated.
StartValidateAll_Updates(t) ==
    /\ pc' = [pc EXCEPT ![t] = "validateAll"]
    /\ todo' = [todo EXCEPT ![t] = IF write_set[t] = {} THEN {} ELSE read_set[t]]
    /\ pos' = [pos EXCEPT ![t] = ticket]
    /\ ticket' = ticket + 1
    /\ UNCHANGED <<memory, attempt, sets, VC, ts, left, request, hist>>

\* The start of validateAll, where the transaction is serialized.
StartValidateAll(t) ==
    /\ pc' = [pc EXCEPT ![t] = "validateAll"]
    /\ todo' = [todo EXCEPT ![t] = read_set[t]]
    /\ pos' = [pos EXCEPT ![t] = ticket]
    /\ ticket' = ticket + 1
    /\ UNCHANGED <<memory, attempt, sets, VC, ts, left, request, hist>>

commitReadOnly(t) ==
    pc[t] = "active" /\ write_set[t] = {} /\ StartValidateAll(t)

commitUpdate(t) ==
    /\ pc[t] = "active" /\ write_set[t] # {}
    /\ pc' = [pc EXCEPT ![t] = "getLocks"]
    /\ UNCHANGED <<memory, attempt, sets, VC, loops, request, history>>

Unasked(t) == {o \in write_set[t] : grab[t][o] = "none"}
Refused(t) == {o \in write_set[t] : grab[t][o] = "refused"}

Held(t) == {o \in write_set[t] : grab[t][o] = "held"}

(***************************************************************************)
(* A batch ends with the write set, or as soon as the objects of one node  *)
(* fill that node's request.                                               *)
(***************************************************************************)
IsBatch(B, R) ==
    LET count(n) == Cardinality({o \in B : home[o] = n})
        full == {n \in Node : count(n) = maxRequestedLocksPerNode}
    IN  /\ \A n \in Node : count(n) <= maxRequestedLocksPerNode
        /\ Cardinality(full) <= 1
        /\ full = {} => B = R

requestLocks(t, B) ==
    /\ pc[t] = "getLocks" /\ waiting[t] = {} /\ Refused(t) = {}
    /\ Unasked(t) # {} /\ IsBatch(B, Unasked(t))
    /\ grab' = [grab EXCEPT ![t] = [o \in Object |->
                                      IF o \in B THEN "asked" ELSE @[o]]]
    /\ waiting' = [waiting EXCEPT ![t] = {home[o] : o \in B}]
    /\ UNCHANGED <<memory, pc, attempt, sets, VC, loops, old, history>>

(***************************************************************************)
(* processLocksRequest, the request handler at the objects' home node.  It *)
(* loads a lock word, compares it with the requested version and then      *)
(* tries to swap it; handlers of other requests and one-sided writes to    *)
(* the word run between the load and the swap.                             *)
(***************************************************************************)
loadLock(t, o) ==
    /\ grab[t][o] = "asked"
    /\ \A p \in Object : home[p] = home[o] => grab[t][p] # "loaded"
    /\ grab' = [grab EXCEPT ![t][o] = "loaded"]
    /\ old' = [old EXCEPT ![t][o] = lock[o]]
    /\ UNCHANGED <<memory, pc, attempt, sets, VC, loops, waiting, history>>

\* Fault: a version is not compared, only the lock bit.
LockRefused_Unversioned(t, o) == LOCKBIT_TS(old[t][o]) \/ lock[o] # old[t][o]
\* Fault: the lock word is stored without a compare-and-swap.
LockRefused_NoSwap(t, o) == WordGreater(old[t][o], copy[t][o].ts)

LockRefused(t, o) == \/ WordGreater(old[t][o], copy[t][o].ts)
                     \/ lock[o] # old[t][o]

grabLock(t, o) ==
    /\ grab[t][o] = "loaded" /\ ~LockRefused(t, o)
    /\ lock' = [lock EXCEPT ![o] = SetLockBit(copy[t][o].ts)]
    /\ grab' = [grab EXCEPT ![t][o] = "held"]
    /\ old' = [old EXCEPT ![t][o] = InitialTS]
    /\ UNCHANGED <<mem, clock, pc, attempt, sets, VC, loops, waiting, history>>

refuseLock(t, o) ==
    /\ grab[t][o] = "loaded" /\ LockRefused(t, o)
    /\ grab' = [grab EXCEPT ![t][o] = "refused"]
    /\ old' = [old EXCEPT ![t][o] = InitialTS]
    /\ UNCHANGED <<memory, pc, attempt, sets, VC, loops, waiting, history>>

\* Fault: the reply is counted for the transaction's node, not for its sender.
locksRequestProcessed_Own(t, n) ==
    /\ n \in waiting[t]
    /\ \A o \in Object : home[o] = n => grab[t][o] \notin {"asked", "loaded"}
    /\ waiting' = [waiting EXCEPT ![t] = @ \ {nodeOf[t]}]
    /\ UNCHANGED <<memory, pc, attempt, sets, VC, loops, grab, old, history>>

\* The reply handler on the transaction's node counts the node's reply.
locksRequestProcessed(t, n) ==
    /\ n \in waiting[t]
    /\ \A o \in Object : home[o] = n => grab[t][o] \notin {"asked", "loaded"}
    /\ waiting' = [waiting EXCEPT ![t] = @ \ {n}]
    /\ UNCHANGED <<memory, pc, attempt, sets, VC, loops, grab, old, history>>

locksGranted(t) ==
    /\ pc[t] = "getLocks" /\ waiting[t] = {}
    /\ Refused(t) = {} /\ Unasked(t) = {}
    /\ StartValidateAll(t)

StartReleaseLocks(t) ==
    /\ pc' = [pc EXCEPT ![t] = "releaseLocks"]
    /\ todo' = [todo EXCEPT ![t] = Held(t)]
    /\ UNCHANGED <<memory, attempt, sets, VC, ts, left, old, waiting, history>>

\* releaseLocks(it): the locks of the batches sent so far that were granted.
locksRefused(t) ==
    /\ pc[t] = "getLocks" /\ waiting[t] = {} /\ Refused(t) # {}
    /\ grab' = [grab EXCEPT ![t] = [o \in Object |->
                                IF @[o] = "refused" THEN "none" ELSE @[o]]]
    /\ StartReleaseLocks(t)

releaseLock(t, o) ==
    /\ pc[t] = "releaseLocks" /\ o \in todo[t]
    /\ lock' = [lock EXCEPT ![o] = copy[t][o].ts]
    /\ grab' = [grab EXCEPT ![t][o] = "none"]
    /\ todo' = [todo EXCEPT ![t] = @ \ {o}]
    /\ UNCHANGED <<mem, clock, pc, attempt, sets, VC, ts, left, old, waiting,
                   history>>

locksReleased(t) ==
    /\ pc[t] = "releaseLocks" /\ todo[t] = {}
    /\ abort(t)
    /\ UNCHANGED <<memory, request>>

validateAll(t, o) ==
    /\ pc[t] = "validateAll" /\ o \in todo[t] /\ ~Changed(t, o)
    /\ todo' = [todo EXCEPT ![t] = @ \ {o}]
    /\ UNCHANGED <<memory, pc, attempt, sets, VC, ts, left, request, history>>

validateAllFails(t, o) ==
    /\ pc[t] = "validateAll" /\ o \in todo[t] /\ Changed(t, o)
    /\ IF write_set[t] # {}
       THEN StartReleaseLocks(t) /\ UNCHANGED grab
       ELSE abort(t) /\ UNCHANGED <<memory, request>>

validatedAll(t) ==
    /\ pc[t] = "validateAll" /\ todo[t] = {}
    /\ hist' = hist \cup {[tx |-> Me(t), pos |-> pos[t], acc |-> Accessed(t),
                           seen |-> [o \in Object |-> copy[t][o].val],
                           writes |-> write_set[t]]}
    /\ left' = [left EXCEPT ![t] = write_set[t] \X Word]
    /\ pc' = [pc EXCEPT ![t] = IF write_set[t] = {} THEN "getNextClock"
                               ELSE "commitWriteSetValues"]
    /\ UNCHANGED <<memory, attempt, sets, VC, ts, todo, request, ticket, pos>>

\* commitWriteSetValues puts one block after the other.
commitWriteSetValues(t, o, w) ==
    /\ pc[t] = "commitWriteSetValues" /\ <<o, w>> \in left[t]
    /\ \A p \in write_set[t] \ {o} :
          (\E x \in Word : <<p, x>> \in left[t]) => {p} \X Word \subseteq left[t]
    /\ mem' = [mem EXCEPT ![o][w] = Me(t)]
    /\ left' = [left EXCEPT ![t] = @ \ {<<o, w>>}]
    /\ pc' = [pc EXCEPT ![t] = IF left'[t] = {} THEN "getNextClock" ELSE @]
    /\ UNCHANGED <<lock, clock, attempt, sets, VC, ts, todo, request, history>>

\* A transaction that wrote nothing draws a clock value too.
getNextClock(t) ==
    LET n == nodeOf[t]
    IN  /\ pc[t] = "getNextClock"
        /\ clock' = [clock EXCEPT ![n] = @ + 1]
        /\ ts' = [ts EXCEPT ![t] = ToTS(n, clock[n] + 1)]
        /\ todo' = [todo EXCEPT ![t] = write_set[t]]
        /\ pc' = [pc EXCEPT ![t] = "releaseLocksWithNewClock"]
        /\ UNCHANGED <<lock, mem, attempt, sets, VC, left, request, history>>

releaseLockWithNewClock(t, o) ==
    /\ pc[t] = "releaseLocksWithNewClock" /\ o \in todo[t]
    /\ lock' = [lock EXCEPT ![o] = ts[t]]
    /\ grab' = [grab EXCEPT ![t][o] = "none"]
    /\ todo' = [todo EXCEPT ![t] = @ \ {o}]
    /\ UNCHANGED <<mem, clock, pc, attempt, sets, VC, ts, left, old, waiting,
                   history>>

committed(t) ==
    /\ pc[t] = "releaseLocksWithNewClock" /\ todo[t] = {}
    /\ Clear(t)
    /\ UNCHANGED <<memory, attempt, VC, left, request, hist, ticket>>

-----------------------------------------------------------------------------
\* What the application decides to do.
Application(t) ==
    \/ begin(t) \/ invalidAccess(t) \/ commitReadOnly(t) \/ commitUpdate(t)
    \/ \E o \in Object : read(t, o) \/ write(t, o) \/ writeRead(t, o)

ReadCell(t) ==
    \E o \in Object : \/ loadVersion(t, o) \/ cellLocked(t, o)
                      \/ recheckVersion(t, o)
                      \/ \E w \in Word : loadData(t, o, w)

Validate(t) ==
    \/ increaseClock(t) \/ validated(t)
    \/ \E o \in Object : validate(t, o) \/ validateFails(t, o)

GetLocks(t) ==
    \/ \E B \in SUBSET Unasked(t) : requestLocks(t, B)
    \/ locksGranted(t) \/ locksRefused(t) \/ locksReleased(t)
    \/ \E o \in Object : releaseLock(t, o)

WriteBack(t) ==
    \/ validatedAll(t) \/ getNextClock(t) \/ committed(t)
    \/ \E o \in Object :
          \/ validateAll(t, o) \/ validateAllFails(t, o)
          \/ releaseLockWithNewClock(t, o)
          \/ \E w \in Word : commitWriteSetValues(t, o, w)

\* The library code a thread runs on its own.
Library(t) == ReadCell(t) \/ Validate(t) \/ GetLocks(t) \/ WriteBack(t)

\* Active-message handlers for the requests of t.
Handler(t) ==
    \/ \E o \in Object : loadLock(t, o) \/ grabLock(t, o) \/ refuseLock(t, o)
    \/ \E n \in Node : locksRequestProcessed(t, n)

\* Every thread has run its transactions.
Finished ==
    /\ \A t \in Thread : pc[t] = "idle" /\ attempt[t] = MaxAttempts[t]
    /\ UNCHANGED vars

Next == Finished \/ \E t \in Thread : Application(t) \/ Library(t) \/ Handler(t)

Spec == Init /\ [][Next]_vars

(***************************************************************************)
(* GASNet delivers every message, the scheduler runs every thread: library *)
(* code and handlers go on.  The application owes nothing.                 *)
(***************************************************************************)
FairSpec == Spec /\ \A t \in Thread : /\ WF_vars(Library(t))
                                      /\ WF_vars(Handler(t))
-----------------------------------------------------------------------------
(* Properties *)

TypeOK ==
    /\ lock \in [Object -> Timestamp(Node)]
    /\ mem \in [Object -> Block]
    /\ clock \in [Node -> Nat]
    /\ pc \in [Thread -> PC]
    /\ attempt \in [Thread -> Nat]
    /\ read_set \in [Thread -> SUBSET Object]
    /\ write_set \in [Thread -> SUBSET Object]
    /\ copy \in [Thread -> [Object -> Copy]]
    /\ VC \in [Thread -> [Node -> Nat]]
    /\ ts \in [Thread -> Timestamp(Node)]
    /\ todo \in [Thread -> SUBSET Object]
    /\ left \in [Thread -> SUBSET (Object \X Word)]
    /\ grab \in [Thread -> [Object -> Grab]]
    /\ old \in [Thread -> [Object -> Timestamp(Node)]]
    /\ waiting \in [Thread -> SUBSET Node]
    /\ hist \subseteq Commits
    /\ ticket \in Nat
    /\ pos \in [Thread -> Nat]

(***************************************************************************)
(* The lock bit of an object is set exactly while one transaction holds    *)
(* its lock, whatever requests, releases and reads go on: no lock is       *)
(* leaked by an abort, and no lock is granted twice between a handler's    *)
(* load and its compare-and-swap (processLocksRequest, releaseLocks).      *)
(***************************************************************************)
LockOwnership ==
    \A o \in Object :
      /\ LOCKBIT_TS(lock[o]) <=> \E t \in Thread : grab[t][o] = "held"
      /\ \A t, u \in Thread :
            grab[t][o] = "held" /\ grab[u][o] = "held" => t = u

(* The inductive invariant behind LockOwnership. *)

\* Timestamps in copies, and the one being read or put, have no lock bit.
UnlockedCopies ==
    \A t \in Thread : /\ ts[t].lock = 0
                      /\ \A o \in Object : copy[t][o].ts.lock = 0

\* Only a committing transaction has lock requests, for what it wrote.
RequestsInCommit ==
    \A t \in Thread, o \in Object : grab[t][o] # "none" =>
        /\ o \in write_set[t]
        /\ pc[t] \in {"getLocks", "releaseLocks", "validateAll",
                      "commitWriteSetValues", "getNextClock",
                      "releaseLocksWithNewClock"}

\* A request being processed is one whose reply getLocks waits for.
RepliesAwaited ==
    \A t \in Thread, o \in Object : grab[t][o] \in {"asked", "loaded"} =>
        pc[t] = "getLocks" /\ home[o] \in waiting[t]

\* From validateAll to the new clock the transaction has all its locks.
LocksComplete ==
    \A t \in Thread : pc[t] \in {"validateAll", "commitWriteSetValues",
                                 "getNextClock"} =>
        \A o \in write_set[t] : grab[t][o] = "held"

\* A release loop has the locks it has not come to yet, and no other.
LocksLeft ==
    \A t \in Thread : pc[t] \in {"releaseLocks", "releaseLocksWithNewClock"} =>
        \A o \in Object : grab[t][o] = IF o \in todo[t] THEN "held" ELSE "none"

(***************************************************************************)
(* LockOwnership with what makes it inductive: at every point of commit    *)
(* the loops and the replies account for exactly the locks held.           *)
(***************************************************************************)
LockInv == /\ TypeOK /\ LockOwnership /\ UnlockedCopies /\ RequestsInCommit
           /\ RepliesAwaited /\ LocksComplete /\ LocksLeft

-----------------------------------------------------------------------------
\* v is the content of o after the committed transactions before position p.
Current(o, v, p) ==
    LET before == {h \in hist : o \in h.writes /\ h.pos < p}
    IN  IF v = NoAttempt
        THEN before = {}
        ELSE \E h \in before : h.tx = v /\ \A g \in before : g.pos <= h.pos

(***************************************************************************)
(* Every committed transaction saw, in every block it accessed, what the   *)
(* transactions committed before it left there: the committed transactions *)
(* are serializable in the order in which they started validateAll.        *)
(***************************************************************************)
Serializable ==
    \A h \in hist : \A o \in h.acc, w \in Word :
        Current(o, h.seen[o][w], h.pos)

(***************************************************************************)
(* The copy readCell ends with is never torn, a mixture of two committed   *)
(* contents, and while its timestamp is the one at the home node it is the *)
(* block there: a timestamp does not come to stand for two contents.       *)
(***************************************************************************)
Complete(t) == IF pc[t] \in {"loadVersion", "loadData", "recheck"}
               THEN Accessed(t) \ todo[t] ELSE Accessed(t)

CopyAuthentic ==
    \A t \in Thread : \A o \in Complete(t) :
        /\ \A w, x \in Word : copy[t][o].val[w] = copy[t][o].val[x]
        /\ ~LOCKBIT_TS(lock[o]) /\ isTimestampsEquivalent(lock[o], copy[t][o].ts)
             => copy[t][o].val = mem[o]

(***************************************************************************)
(* What a running transaction has read is one consistent snapshot, even if *)
(* it will never commit (validate, on every read of a newer version).      *)
(***************************************************************************)
Settled(t) == pc[t] \in {"active", "getLocks"}

ConsistentSnapshot ==
    \A t \in Thread : Settled(t) =>
        \E p \in 1..ticket : \A o \in Accessed(t), w \in Word :
            Current(o, copy[t][o].val[w], p)

(***************************************************************************)
(* What a running transaction has read respects cause and effect: if a     *)
(* block's content was committed by a transaction that saw or wrote        *)
(* another block, the copy of that other block is not older.               *)
(***************************************************************************)
WriterPos(v) == IF v = NoAttempt THEN 0
                ELSE (CHOOSE h \in hist : h.tx = v).pos

CausalSnapshot ==
    \A t \in Thread : Settled(t) =>
        \A o, p \in Accessed(t), w, x \in Word : \A h \in hist :
            h.tx = copy[t][o].val[w] /\ p \in h.acc =>
                WriterPos(copy[t][p].val[x]) >=
                    IF p \in h.writes THEN h.pos ELSE WriterPos(h.seen[p][x])

(***************************************************************************)
(* The version of an object never goes back (releaseLocks restores the     *)
(* version it locked, releaseLocksWithNewClock puts a newer one), and      *)
(* its block changes only under its lock.                                  *)
(***************************************************************************)
VersionsGrow ==
    [][\A o \in Object :
          /\ lock'[o].version >= lock[o].version
          /\ mem'[o] # mem[o] => LOCKBIT_TS(lock[o])]_vars

(***************************************************************************)
(* "get all locks in write-set with object version validation check": once *)
(* commit has the locks, the blocks it is about to overwrite are the ones  *)
(* it copied, so that no committed update is lost.                         *)
(***************************************************************************)
NoLostUpdate ==
    \A t \in Thread : pc[t] = "commitWriteSetValues" =>
        \A o \in write_set[t], w \in Word :
            <<o, w>> \in left[t] => mem[o][w] = copy[t][o].val[w]

\* A commit ends, committed or aborted: no reply is lost and nobody waits
\* for a lock (getLocks, locksRequestProcessed).
CommitTerminates ==
    \A t \in Thread : pc[t] = "getLocks" ~> pc[t] = "idle"

\* Every lock is given back (releaseLocks, releaseLocksWithNewClock).
LocksReturned ==
    \A o \in Object : LOCKBIT_TS(lock[o]) ~> ~LOCKBIT_TS(lock[o])
=============================================================================
