----------------------- MODULE DSTMTransactionProofs ------------------------
(***************************************************************************)
(* Theorems about DSTMTransaction, for any nodes, threads, objects, access *)
(* patterns and bounds: first its types and locks, then why the committed  *)
(* transactions are serializable when every object is written from one     *)
(* node.  Versions come first there (no copy is newer than its object, a   *)
(* commit puts a newer version), then contents (a copy whose version is    *)
(* still the object's is the object's block), then the order of commits.   *)
(***************************************************************************)
EXTENDS DSTMTransaction, TLAPS

-----------------------------------------------------------------------------
(* Facts about the records the state is built from. *)

Copies == [Thread -> [Object -> Copy]]

\* The word of a fresh object is a timestamp.
LEMMA InitialTSType == InitialTS \in Timestamp(Node)
  BY NodeAssumption DEF InitialTS, Timestamp

\* Setting or clearing the lock bit, and stamping a version, make timestamps.
LEMMA WordTypes ==
    /\ \A x \in Timestamp(Node) : SetLockBit(x) \in Timestamp(Node)
    /\ \A n \in Node, v \in Nat : ToTS(n, v) \in Timestamp(Node)
  BY DEF SetLockBit, ToTS, Timestamp

\* An empty entry is a copy.
LEMMA EmptyCopyType == EmptyCopy \in Copy
  BY InitialTSType DEF EmptyCopy, Copy, Block

\* readCell stamps the copy of one block.
LEMMA SetTS ==
    ASSUME NEW c \in Copies, NEW t \in Thread, NEW o \in Object,
           NEW x \in Timestamp(Node)
    PROVE  [c EXCEPT ![t][o].ts = x] \in Copies
<1>1. [c[t][o] EXCEPT !.ts = x] \in Copy
  BY DEF Copies, Copy
<1> QED
  BY <1>1 DEF Copies

\* readCell fills one piece of the copy of a block.
LEMMA SetWord ==
    ASSUME NEW c \in Copies, NEW t \in Thread, NEW o \in Object,
           NEW w \in Word, NEW v \in Attempt \cup {NoAttempt}
    PROVE  [c EXCEPT ![t][o].val[w] = v] \in Copies
<1> DEFINE d == c[t][o]
           b == [d.val EXCEPT ![w] = v]
<1>1. d \in [ts : Timestamp(Node), val : Block]
  BY DEF Copies, Copy
<1>2. b \in Block
  BY <1>1 DEF Block
<1>3. [d EXCEPT !.val = b] \in Copy
  <2> HIDE DEF b, d
  <2> QED
    BY <1>1, <1>2 DEF Copy
<1> QED
  BY <1>3 DEF Copies

-----------------------------------------------------------------------------
(* Type correctness. *)

\* clearWriteSet and clearReadSet keep the types; abort is made of them.
LEMMA AbortType ==
    ASSUME TypeOK, NEW t \in Thread, abort(t), UNCHANGED <<memory, request>>
    PROVE  TypeOK'
  BY InitialTSType, EmptyCopyType
     DEF abort, Clear, TypeOK, PC, memory, request

\* Every step keeps every variable in its type.
LEMMA TypeStep == TypeOK /\ [Next]_vars => TypeOK'
<1> SUFFICES ASSUME TypeOK, [Next]_vars
             PROVE  TypeOK'
  OBVIOUS
<1>1. CASE Finished \/ UNCHANGED vars
  BY <1>1 DEF Finished, vars, memory, sets, loops, request, history, TypeOK
<1>2. ASSUME NEW t \in Thread,
             begin(t)
      PROVE  TypeOK'
  BY <1>2
     DEF begin, TypeOK, PC, memory, sets, loops, request, history
<1>3. ASSUME NEW t \in Thread,
             invalidAccess(t)
      PROVE  TypeOK'
  BY <1>3, AbortType DEF invalidAccess
<1>4. ASSUME NEW t \in Thread,
             commitReadOnly(t)
      PROVE  TypeOK'
  BY <1>4
     DEF commitReadOnly, StartValidateAll, TypeOK, PC, memory, sets, loops,
         request, history
<1>5. ASSUME NEW t \in Thread,
             commitUpdate(t)
      PROVE  TypeOK'
  BY <1>5
     DEF commitUpdate, TypeOK, PC, memory, sets, loops, request, history
<1>6. ASSUME NEW t \in Thread, NEW o \in Object,
             read(t, o)
      PROVE  TypeOK'
  BY <1>6
     DEF read, StartReadCell, TypeOK, PC, memory, sets, loops, request,
         history
<1>7. ASSUME NEW t \in Thread, NEW o \in Object,
             write(t, o)
      PROVE  TypeOK'
  BY <1>7
     DEF write, StartReadCell, TypeOK, PC, memory, sets, loops, request,
         history
<1>8. ASSUME NEW t \in Thread, NEW o \in Object,
             writeRead(t, o)
      PROVE  TypeOK'
  BY <1>8
     DEF writeRead, TypeOK, PC, memory, sets, loops, request, history
<1>9. ASSUME NEW t \in Thread, NEW o \in Object,
             loadVersion(t, o)
      PROVE  TypeOK'
  BY <1>9
     DEF loadVersion, TypeOK, PC, memory, sets, loops, request, history
<1>10. ASSUME NEW t \in Thread, NEW o \in Object,
             cellLocked(t, o)
      PROVE  TypeOK'
  BY <1>10, AbortType DEF cellLocked
<1>11. ASSUME NEW t \in Thread, NEW o \in Object,
             recheckVersion(t, o)
      PROVE  TypeOK'
  <2>1. copy \in Copies /\ ts[t] \in Timestamp(Node)
    BY DEF TypeOK, Copies
  <2>2. copy' \in Copies
    BY <1>11, <2>1, SetTS DEF recheckVersion
  <2> QED
    BY <1>11, <2>2
       DEF recheckVersion, Copies, TypeOK, PC, memory, loops, request, history
<1>12. ASSUME NEW t \in Thread, NEW o \in Object, NEW w \in Word,
             loadData(t, o, w)
      PROVE  TypeOK'
  <2>1. copy \in Copies /\ mem[o][w] \in Attempt \cup {NoAttempt}
    BY DEF TypeOK, Copies, Block
  <2>2. copy' \in Copies
    BY <1>12, <2>1, SetWord DEF loadData
  <2> QED
    BY <1>12, <2>2
       DEF loadData, Copies, TypeOK, PC, memory, request, history
<1>13. ASSUME NEW t \in Thread,
             increaseClock(t)
      PROVE  TypeOK'
  <2> DEFINE stale == {o \in Accessed(t) :
                            isTimestampGreater(ts[t], copy[t][o].ts)}
  <2>1. stale \in SUBSET Object
    BY DEF TypeOK, Accessed
  <2>2. todo' \in [Thread -> SUBSET Object]
    <3> HIDE DEF stale
    <3> QED
      BY <1>13, <2>1 DEF increaseClock, TypeOK, stale
  <2>3. ts' \in [Thread -> Timestamp(Node)]
    BY <1>13, InitialTSType DEF increaseClock, TypeOK
  <2>4. clock' \in [Node -> Nat]
    BY <1>13 DEF increaseClock, CaughtUp, TypeOK, Timestamp
  <2> QED
    BY <1>13, <2>2, <2>3, <2>4
       DEF increaseClock, TypeOK, PC, sets, request, history
<1>14. ASSUME NEW t \in Thread,
             validated(t)
      PROVE  TypeOK'
  BY <1>14, InitialTSType
     DEF validated, Timestamp, TypeOK, PC, memory, sets, loops, request,
         history
<1>15. ASSUME NEW t \in Thread, NEW o \in Object,
             validate(t, o)
      PROVE  TypeOK'
  BY <1>15
     DEF validate, TypeOK, PC, memory, sets, loops, request, history
<1>16. ASSUME NEW t \in Thread, NEW o \in Object,
             validateFails(t, o)
      PROVE  TypeOK'
  BY <1>16, AbortType DEF validateFails
<1>17. ASSUME NEW t \in Thread, NEW B \in SUBSET Unasked(t),
             requestLocks(t, B)
      PROVE  TypeOK'
  <2>1. {home[o] : o \in B} \in SUBSET Node
    BY ObjectAssumption DEF Unasked, TypeOK
  <2>2. waiting' \in [Thread -> SUBSET Node]
    BY <1>17, <2>1 DEF requestLocks, TypeOK
  <2> QED
    BY <1>17, <2>2
       DEF requestLocks, TypeOK, Grab, memory, sets, loops, history
<1>18. ASSUME NEW t \in Thread,
             locksGranted(t)
      PROVE  TypeOK'
  BY <1>18
     DEF locksGranted, StartValidateAll, TypeOK, PC, memory, sets, loops,
         request, history
<1>19. ASSUME NEW t \in Thread,
             locksRefused(t)
      PROVE  TypeOK'
  BY <1>19
     DEF locksRefused, StartReleaseLocks, Held, Grab, TypeOK, PC, memory,
         sets, loops, request, history
<1>20. ASSUME NEW t \in Thread,
             locksReleased(t)
      PROVE  TypeOK'
  BY <1>20, AbortType DEF locksReleased
<1>21. ASSUME NEW t \in Thread, NEW o \in Object,
             releaseLock(t, o)
      PROVE  TypeOK'
  BY <1>21
     DEF releaseLock, Copy, Grab, TypeOK, PC, memory, sets, loops, request,
         history
<1>22. ASSUME NEW t \in Thread,
             validatedAll(t)
      PROVE  TypeOK'
  BY <1>22
     DEF validatedAll, Accessed, Commits, Me, Attempt, Copy, TypeOK, PC,
         memory, sets, loops, request, history
<1>23. ASSUME NEW t \in Thread,
             getNextClock(t)
      PROVE  TypeOK'
  <2>1. nodeOf[t] \in Node /\ clock[nodeOf[t]] + 1 \in Nat
    BY ThreadAssumption DEF TypeOK
  <2>2. ToTS(nodeOf[t], clock[nodeOf[t]] + 1) \in Timestamp(Node)
    BY <2>1, WordTypes
  <2> QED
    BY <1>23, <2>1, <2>2
       DEF getNextClock, TypeOK, PC, sets, request, history
<1>24. ASSUME NEW t \in Thread,
             committed(t)
      PROVE  TypeOK'
  BY <1>24, InitialTSType, EmptyCopyType
     DEF committed, Clear, TypeOK, PC, memory, sets, loops, request, history
<1>25. ASSUME NEW t \in Thread, NEW o \in Object,
             validateAll(t, o)
      PROVE  TypeOK'
  BY <1>25
     DEF validateAll, TypeOK, PC, memory, sets, loops, request, history
<1>26. ASSUME NEW t \in Thread, NEW o \in Object,
             validateAllFails(t, o)
      PROVE  TypeOK'
  <2>1. CASE write_set[t] # {}
    <3>1. Held(t) \in SUBSET Object
      BY DEF Held, TypeOK
    <3> QED
      BY <1>26, <2>1, <3>1
         DEF validateAllFails, StartReleaseLocks, TypeOK, PC, memory, sets,
             history
  <2>2. CASE write_set[t] = {}
    BY <1>26, <2>2, AbortType DEF validateAllFails
  <2> QED
    BY <2>1, <2>2
<1>27. ASSUME NEW t \in Thread, NEW o \in Object,
             releaseLockWithNewClock(t, o)
      PROVE  TypeOK'
  BY <1>27
     DEF releaseLockWithNewClock, Grab, TypeOK, PC, memory, sets, loops,
         request, history
<1>28. ASSUME NEW t \in Thread, NEW o \in Object, NEW w \in Word,
             commitWriteSetValues(t, o, w)
      PROVE  TypeOK'
  BY <1>28
     DEF commitWriteSetValues, Block, Me, Attempt, TypeOK, PC, memory, sets,
         loops, request, history
<1>29. ASSUME NEW t \in Thread, NEW o \in Object,
             loadLock(t, o)
      PROVE  TypeOK'
  BY <1>29
     DEF loadLock, Grab, TypeOK, PC, memory, sets, loops, request, history
<1>30. ASSUME NEW t \in Thread, NEW o \in Object,
             grabLock(t, o)
      PROVE  TypeOK'
  BY <1>30, WordTypes, InitialTSType
     DEF grabLock, Copy, Grab, TypeOK, PC, memory, sets, loops, request,
         history
<1>31. ASSUME NEW t \in Thread, NEW o \in Object,
             refuseLock(t, o)
      PROVE  TypeOK'
  BY <1>31, InitialTSType
     DEF refuseLock, Grab, TypeOK, PC, memory, sets, loops, request, history
<1>32. ASSUME NEW t \in Thread, NEW n \in Node,
             locksRequestProcessed(t, n)
      PROVE  TypeOK'
  BY <1>32
     DEF locksRequestProcessed, TypeOK, PC, memory, sets, loops, request,
         history
<1> QED
  BY <1>1, <1>2, <1>3, <1>4, <1>5, <1>6, <1>7, <1>8, <1>9, <1>10, <1>11,
     <1>12, <1>13, <1>14, <1>15, <1>16, <1>17, <1>18, <1>19, <1>20, <1>21,
     <1>22, <1>23, <1>24, <1>25, <1>26, <1>27, <1>28, <1>29, <1>30, <1>31,
     <1>32
     DEF Next, Application, Library, ReadCell, Validate, GetLocks, WriteBack,
         Handler

\* The initial values have their types.
LEMMA InitType == Init => TypeOK
  BY InitialTSType, EmptyCopyType
     DEF Init, TypeOK, PC, Grab, Block

\* Every variable keeps its type, in all behaviours of the protocol.
THEOREM TypeCorrect == Spec => []TypeOK
  BY InitType, TypeStep, PTL DEF Spec
-----------------------------------------------------------------------------
(* Lock ownership. *)

CommitPC == {"getLocks", "releaseLocks", "validateAll",
             "commitWriteSetValues", "getNextClock",
             "releaseLocksWithNewClock"}

\* A step of t outside commit: it sends no request and changes no lock.
Quiet(t) ==
    /\ UNCHANGED <<lock, grab, waiting>>
    /\ \A u \in Thread \ {t} : /\ pc'[u] = pc[u] /\ todo'[u] = todo[u]
                               /\ write_set'[u] = write_set[u]

\* A quiet step from outside commit keeps the invariant: t has no lock
\* request, and if it starts to commit it has nothing written or only goes
\* to getLocks.
LEMMA QuietStep ==
    ASSUME LockInv, TypeOK', UnlockedCopies', NEW t \in Thread, Quiet(t),
           pc[t] \notin CommitPC,
           \/ pc'[t] \notin CommitPC \ {"getLocks"}
           \/ pc'[t] = "validateAll" /\ write_set'[t] = {}
    PROVE  LockInv'
<1>1. \A o \in Object : grab[t][o] = "none"
  BY DEF LockInv, RequestsInCommit, CommitPC
<1>2. LockOwnership'
  BY DEF LockInv, LockOwnership, Quiet
<1>3. RequestsInCommit'
  BY <1>1 DEF LockInv, RequestsInCommit, Quiet
<1>4. RepliesAwaited'
  BY <1>1 DEF LockInv, RepliesAwaited, Quiet
<1>5. LocksComplete'
  BY DEF LockInv, LocksComplete, Quiet, CommitPC
<1>6. LocksLeft'
  BY DEF LockInv, LocksLeft, Quiet, CommitPC
<1> QED
  BY <1>2, <1>3, <1>4, <1>5, <1>6 DEF LockInv

\* The timestamps a thread keeps have no lock bit: readCell gives up on a
\* locked word, and a new version is stamped without it.
LEMMA UnlockedStep == LockInv /\ [Next]_vars => UnlockedCopies'
<1> SUFFICES ASSUME LockInv, [Next]_vars
             PROVE  UnlockedCopies'
  OBVIOUS
<1> USE DEF LockInv, UnlockedCopies
<1>1. CASE UNCHANGED <<copy, ts>>
  BY <1>1
<1>2. ASSUME NEW t \in Thread, Clear(t)
      PROVE  UnlockedCopies'
  BY <1>2 DEF Clear, TypeOK, EmptyCopy, InitialTS
<1>3. ASSUME NEW t \in Thread, NEW o \in Object, loadVersion(t, o)
      PROVE  UnlockedCopies'
  <2>1. lock[o].lock = 0
    BY <1>3 DEF loadVersion, LOCKBIT_TS, TypeOK, Timestamp
  <2> QED
    BY <1>3, <2>1 DEF loadVersion, TypeOK, sets
<1>4. ASSUME NEW t \in Thread, NEW o \in Object, recheckVersion(t, o)
      PROVE  UnlockedCopies'
  <2>1. ASSUME NEW u \in Thread, NEW p \in Object
        PROVE  copy'[u][p].ts.lock = 0
    <3>1. copy[u][p] \in Copy /\ copy[u][p].ts.lock = 0 /\ ts[t].lock = 0
      BY DEF TypeOK
    <3>2. \/ copy' = copy
          \/ copy' = [copy EXCEPT ![t][o].ts = ts[t]]
      BY <1>4 DEF recheckVersion
    <3>3. \/ copy'[u][p] = copy[u][p]
          \/ copy'[u][p] = [copy[u][p] EXCEPT !.ts = ts[t]]
      <4>1. CASE u = t /\ p = o
        <5>1. copy \in [Thread -> [Object -> Copy]]
          BY DEF TypeOK
        <5> HIDE DEF LockInv, UnlockedCopies
        <5> QED
          BY <3>2, <4>1, <5>1
      <4>2. CASE ~(u = t /\ p = o)
        BY <3>2, <4>2 DEF TypeOK
      <4> QED
        BY <4>1, <4>2
    <3> QED
      BY <3>1, <3>3 DEF Copy
  <2> QED
    BY <1>4, <2>1 DEF recheckVersion, loops
<1>5. ASSUME NEW t \in Thread, NEW o \in Object, NEW w \in Word,
             loadData(t, o, w)
      PROVE  UnlockedCopies'
  <2>1. ASSUME NEW u \in Thread, NEW p \in Object
        PROVE  copy'[u][p].ts.lock = 0
    <3>1. copy[u][p] \in Copy /\ copy[u][p].ts.lock = 0
      BY DEF TypeOK
    <3>2. \/ copy'[u][p] = copy[u][p]
          \/ copy'[u][p] = [copy[u][p] EXCEPT !.val[w] = mem[o][w]]
      BY <1>5 DEF loadData, TypeOK
    <3> QED
      BY <3>1, <3>2 DEF Copy
  <2> QED
    BY <1>5, <2>1 DEF loadData
<1>6. ASSUME NEW t \in Thread, increaseClock(t) \/ validated(t)
      PROVE  UnlockedCopies'
  BY <1>6 DEF increaseClock, validated, sets, TypeOK, InitialTS
<1>7. ASSUME NEW t \in Thread, getNextClock(t)
      PROVE  UnlockedCopies'
  BY <1>7 DEF getNextClock, sets, TypeOK, ToTS
<1>8. ASSUME NEW t \in Thread, Application(t)
      PROVE  UnlockedCopies'
  <2>1. CASE invalidAccess(t)
    BY <2>1, <1>2 DEF invalidAccess, abort
  <2>2. CASE ~invalidAccess(t)
    BY <1>1, <1>8, <2>2
       DEF Application, begin, commitReadOnly, commitUpdate, StartValidateAll,
           read, write, writeRead, StartReadCell, sets, loops
  <2> QED
    BY <2>1, <2>2
<1>9. ASSUME NEW t \in Thread, ReadCell(t) \/ Validate(t)
      PROVE  UnlockedCopies'
  BY <1>1, <1>2, <1>3, <1>4, <1>5, <1>6, <1>9
     DEF ReadCell, Validate, cellLocked, validate, validateFails, abort, sets
<1>10. ASSUME NEW t \in Thread, GetLocks(t) \/ WriteBack(t)
       PROVE  UnlockedCopies'
  <2>1. CASE locksReleased(t) \/ committed(t)
    BY <2>1, <1>2 DEF locksReleased, committed, abort
  <2>2. ASSUME NEW o \in Object, validateAllFails(t, o)
        PROVE  UnlockedCopies'
    BY <2>2, <1>1, <1>2 DEF validateAllFails, abort, StartReleaseLocks, sets
  <2>3. CASE getNextClock(t)
    BY <2>3, <1>7
  <2>4. CASE \/ validatedAll(t) \/ locksGranted(t) \/ locksRefused(t)
             \/ \E B \in SUBSET Unasked(t) : requestLocks(t, B)
             \/ \E o \in Object :
                   \/ releaseLock(t, o) \/ validateAll(t, o)
                   \/ releaseLockWithNewClock(t, o)
                   \/ \E w \in Word : commitWriteSetValues(t, o, w)
    BY <2>4, <1>1
       DEF validatedAll, locksGranted, StartValidateAll, locksRefused,
           StartReleaseLocks, requestLocks, releaseLock, validateAll,
           releaseLockWithNewClock, commitWriteSetValues, sets, loops
  <2> QED
    BY <1>10, <2>1, <2>2, <2>3, <2>4 DEF GetLocks, WriteBack
<1>11. ASSUME NEW t \in Thread, Handler(t)
       PROVE  UnlockedCopies'
  BY <1>1, <1>11
     DEF Handler, loadLock, grabLock, refuseLock, locksRequestProcessed, sets,
         loops
<1>12. CASE Finished \/ UNCHANGED vars
  BY <1>1, <1>12 DEF Finished, vars, sets, loops
<1> QED
  BY <1>8, <1>9, <1>10, <1>11, <1>12 DEF Next, Library

\* The steps of a transaction outside commit are quiet.
LEMMA OutsideCommit ==
    ASSUME LockInv, TypeOK', UnlockedCopies', NEW t \in Thread,
           Application(t) \/ ReadCell(t) \/ Validate(t)
    PROVE  LockInv'
<1> USE DEF LockInv, TypeOK, Quiet, CommitPC, memory, sets, loops, request,
            history
<1>1. CASE Application(t)
  <2>1. CASE begin(t)
    BY <2>1, QuietStep DEF begin
  <2>6. CASE invalidAccess(t)
    BY <2>6, QuietStep DEF invalidAccess, abort, Clear
  <2>2. CASE commitReadOnly(t)
    <3>1. Quiet(t) /\ pc'[t] = "validateAll" /\ write_set'[t] = {}
      BY <2>2 DEF commitReadOnly, StartValidateAll
    <3> QED
      BY <2>2, <3>1, QuietStep DEF commitReadOnly
  <2>5. CASE commitUpdate(t)
    BY <2>5, QuietStep DEF commitUpdate
  <2>3. ASSUME NEW o \in Object, read(t, o)
        PROVE  LockInv'
    BY <2>3, QuietStep DEF read, StartReadCell
  <2>7. ASSUME NEW o \in Object, write(t, o)
        PROVE  LockInv'
    BY <2>7, QuietStep DEF write, StartReadCell
  <2>4. ASSUME NEW o \in Object, writeRead(t, o)
        PROVE  LockInv'
    BY <2>4, QuietStep DEF writeRead
  <2> QED
    BY <1>1, <2>1, <2>2, <2>3, <2>4, <2>5, <2>6, <2>7 DEF Application
<1>2. CASE ReadCell(t)
  <2>1. ASSUME NEW o \in Object, loadVersion(t, o)
        PROVE  LockInv'
    BY <2>1, QuietStep DEF loadVersion
  <2>4. ASSUME NEW o \in Object, cellLocked(t, o)
        PROVE  LockInv'
    BY <2>4, QuietStep DEF cellLocked, abort, Clear
  <2>2. ASSUME NEW o \in Object, recheckVersion(t, o)
        PROVE  LockInv'
    BY <2>2, QuietStep DEF recheckVersion
  <2>3. ASSUME NEW o \in Object, NEW w \in Word, loadData(t, o, w)
        PROVE  LockInv'
    BY <2>3, QuietStep DEF loadData
  <2> QED
    BY <1>2, <2>1, <2>2, <2>3, <2>4 DEF ReadCell
<1>3. CASE Validate(t)
  <2>1. CASE increaseClock(t)
    <3>1. Quiet(t) /\ pc'[t] \in {"validate", "active"}
      BY <2>1 DEF increaseClock
    <3> QED
      BY <2>1, <3>1, QuietStep DEF increaseClock
  <2>3. CASE validated(t)
    BY <2>3, QuietStep DEF validated
  <2>2. ASSUME NEW o \in Object, validate(t, o)
        PROVE  LockInv'
    BY <2>2, QuietStep DEF validate
  <2>4. ASSUME NEW o \in Object, validateFails(t, o)
        PROVE  LockInv'
    BY <2>4, QuietStep DEF validateFails, abort, Clear
  <2> QED
    BY <1>3, <2>1, <2>2, <2>3, <2>4 DEF Validate
<1> QED
  BY <1>1, <1>2, <1>3

\* The steps of commit up to the point where the transaction is done, and
\* those that undo it.
LEMMA InsideCommit ==
    ASSUME LockInv, TypeOK', UnlockedCopies', NEW t \in Thread,
           GetLocks(t) \/ WriteBack(t)
    PROVE  LockInv'
<1> USE DEF LockInv, TypeOK, memory, sets, loops, request, history
\* What validateAll, the block puts and the new clock leave alone.
<1> DEFINE Same == /\ UNCHANGED <<lock, grab, waiting, write_set>>
                   /\ \A u \in Thread \ {t} : pc'[u] = pc[u] /\ todo'[u] = todo[u]
           Locked == {"validateAll", "commitWriteSetValues", "getNextClock"}
<1>1. ASSUME Same, \A o \in Object : grab[t][o] \notin {"asked", "loaded"},
             \/ /\ pc'[t] \in Locked
                /\ \A o \in write_set[t] : grab[t][o] = "held"
             \/ /\ pc'[t] \in {"releaseLocks", "releaseLocksWithNewClock"}
                /\ \A o \in Object :
                      grab[t][o] = IF o \in todo'[t] THEN "held" ELSE "none"
      PROVE  LockInv'
  <2>1. LockOwnership'
    BY <1>1 DEF LockOwnership
  <2>2. RequestsInCommit'
    BY <1>1 DEF RequestsInCommit
  <2>3. RepliesAwaited'
    BY <1>1 DEF RepliesAwaited
  <2>4. LocksComplete'
    <3>1. \A u \in Thread \ {t} : pc'[u] = pc[u] /\ grab'[u] = grab[u]
      BY <1>1
    <3>2. pc'[t] \in Locked => \A o \in write_set'[t] : grab'[t][o] = "held"
      BY <1>1
    <3> QED
      BY <1>1, <3>1, <3>2 DEF LocksComplete
  <2>5. LocksLeft'
    <3>1. \A u \in Thread \ {t} :
             pc'[u] = pc[u] /\ todo'[u] = todo[u] /\ grab'[u] = grab[u]
      BY <1>1
    <3>2. pc'[t] \in {"releaseLocks", "releaseLocksWithNewClock"} =>
             \A o \in Object :
                grab'[t][o] = IF o \in todo'[t] THEN "held" ELSE "none"
      BY <1>1
    <3>3. LocksLeft
      OBVIOUS
    <3> HIDE DEF LockInv, TypeOK
    <3> QED
      BY <3>1, <3>2, <3>3 DEF LocksLeft
  <2> QED
    BY <2>1, <2>2, <2>3, <2>4, <2>5
\* An end of the transaction: it has no lock and no request any more.
<1>2. ASSUME Clear(t), UNCHANGED <<lock, grab, waiting>>,
             \A o \in Object : grab[t][o] = "none"
      PROVE  LockInv'
  <2>1. pc'[t] = "idle" /\ \A u \in Thread \ {t} : /\ pc'[u] = pc[u]
                                                   /\ todo'[u] = todo[u]
                                                   /\ write_set'[u] = write_set[u]
    BY <1>2 DEF Clear
  <2>2. LockOwnership'
    BY <1>2 DEF LockOwnership
  <2>3. RequestsInCommit'
    BY <1>2, <2>1 DEF RequestsInCommit
  <2>4. RepliesAwaited'
    BY <1>2, <2>1 DEF RepliesAwaited
  <2>5. LocksComplete'
    BY <1>2, <2>1 DEF LocksComplete
  <2>6. LocksLeft'
    BY <1>2, <2>1 DEF LocksLeft
  <2> QED
    BY <2>2, <2>3, <2>4, <2>5, <2>6
<1>3. ASSUME NEW B \in SUBSET Unasked(t), requestLocks(t, B)
      PROVE  LockInv'
  <2>1. B \subseteq Object
    BY DEF Unasked
  <2>2. /\ \A u \in Thread \ {t} : grab'[u] = grab[u]
        /\ \A o \in B : grab'[t][o] = "asked"
        /\ \A o \in Object \ B : grab'[t][o] = grab[t][o]
    BY <1>3, <2>1 DEF requestLocks
  <2>3. \A o \in B : /\ grab[t][o] = "none" /\ o \in write_set[t]
                     /\ home[o] \in waiting'[t]
    BY <1>3 DEF Unasked, requestLocks
  <2>4. /\ UNCHANGED <<lock, pc, write_set, todo>> /\ pc[t] = "getLocks"
        /\ waiting[t] = {}
        /\ \A u \in Thread \ {t} : waiting'[u] = waiting[u]
    BY <1>3 DEF requestLocks
  <2>5. /\ LockOwnership /\ RequestsInCommit /\ RepliesAwaited
        /\ LocksComplete /\ LocksLeft
    OBVIOUS
  <2> HIDE DEF LockInv, TypeOK
  <2>6. LockOwnership'
    <3>1. \A u \in Thread, o \in Object :
            grab'[u][o] = "held" <=> grab[u][o] = "held"
      BY <2>2, <2>3
    <3> QED
      BY <2>4, <2>5, <3>1 DEF LockOwnership
  <2>7. RequestsInCommit'
    BY <2>2, <2>3, <2>4, <2>5 DEF RequestsInCommit
  <2>8. RepliesAwaited'
    BY <2>2, <2>3, <2>4, <2>5 DEF RepliesAwaited
  <2>9. LocksComplete' /\ LocksLeft'
    BY <2>2, <2>4, <2>5 DEF LocksComplete, LocksLeft
  <2> QED
    BY <2>6, <2>7, <2>8, <2>9 DEF LockInv
<1>4. CASE locksGranted(t)
  <2>1. \A o \in Object : grab[t][o] \notin {"asked", "loaded"}
    BY <1>4 DEF locksGranted, RepliesAwaited
  <2>2. \A o \in write_set[t] : grab[t][o] = "held"
    BY <1>4, <2>1 DEF locksGranted, Refused, Unasked, Grab
  <2>3. Same /\ pc'[t] \in Locked
    BY <1>4 DEF locksGranted, StartValidateAll
  <2> QED
    BY <1>1, <2>1, <2>2, <2>3
<1>5. CASE locksRefused(t)
  <2>1. \A o \in Object : grab[t][o] \notin {"asked", "loaded"}
    BY <1>5 DEF locksRefused, RepliesAwaited
  <2>2. /\ \A u \in Thread \ {t} : grab'[u] = grab[u]
        /\ \A o \in Object : grab[t][o] = "refused" => grab'[t][o] = "none"
        /\ \A o \in Object : grab[t][o] # "refused" => grab'[t][o] = grab[t][o]
    BY <1>5 DEF locksRefused
  <2>3. /\ UNCHANGED <<lock, waiting, write_set>>
        /\ pc'[t] = "releaseLocks" /\ todo'[t] = Held(t) /\ pc[t] = "getLocks"
        /\ \A u \in Thread \ {t} : pc'[u] = pc[u] /\ todo'[u] = todo[u]
    BY <1>5 DEF locksRefused, StartReleaseLocks
  <2>4. \A o \in Object : grab'[t][o] = IF o \in Held(t) THEN "held" ELSE "none"
    BY <2>1, <2>2 DEF RequestsInCommit, Held, Grab
  <2>5. /\ LockOwnership /\ RequestsInCommit /\ RepliesAwaited
        /\ LocksComplete /\ LocksLeft
    OBVIOUS
  <2> HIDE DEF LockInv, TypeOK
  <2>6. LockOwnership'
    <3>1. \A u \in Thread, o \in Object :
            grab'[u][o] = "held" <=> grab[u][o] = "held"
      BY <2>2
    <3> QED
      BY <2>3, <2>5, <3>1 DEF LockOwnership
  <2>7. RequestsInCommit'
    <3>1. \A u \in Thread, o \in Object :
            grab'[u][o] # "none" => grab[u][o] # "none"
      BY <2>2
    <3> QED
      BY <2>3, <2>5, <3>1 DEF RequestsInCommit
  <2>8. RepliesAwaited'
    BY <2>1, <2>2, <2>3, <2>5 DEF RepliesAwaited
  <2>9. LocksComplete'
    BY <2>2, <2>3, <2>5 DEF LocksComplete
  <2>10. LocksLeft'
    BY <2>2, <2>3, <2>4, <2>5 DEF LocksLeft
  <2> QED
    BY <2>6, <2>7, <2>8, <2>9, <2>10 DEF LockInv
<1>6. CASE locksReleased(t) \/ committed(t)
  <2>1. \A o \in Object : grab[t][o] = "none"
    BY <1>6 DEF locksReleased, committed, LocksLeft
  <2> QED
    BY <1>2, <1>6, <2>1 DEF locksReleased, committed, abort
\* Both release loops clear one lock bit and forget the lock.
<1>7. ASSUME NEW o \in Object, releaseLock(t, o) \/ releaseLockWithNewClock(t, o)
      PROVE  LockInv'
  <2>1. /\ pc[t] \in {"releaseLocks", "releaseLocksWithNewClock"}
        /\ o \in todo[t] /\ UNCHANGED <<pc, waiting, write_set>>
        /\ todo' = [todo EXCEPT ![t] = @ \ {o}]
        /\ grab' = [grab EXCEPT ![t][o] = "none"]
        /\ lock' = [lock EXCEPT ![o] = lock'[o]]
    BY <1>7 DEF releaseLock, releaseLockWithNewClock
  <2>2. grab[t][o] = "held" /\ ~LOCKBIT_TS(lock'[o])
    BY <1>7, <2>1
       DEF releaseLock, releaseLockWithNewClock, LocksLeft, UnlockedCopies,
           LOCKBIT_TS
  <2>3. LockOwnership'
    BY <2>1, <2>2 DEF LockOwnership
  <2>4. RequestsInCommit'
    BY <2>1 DEF RequestsInCommit
  <2>5. RepliesAwaited'
    BY <2>1 DEF RepliesAwaited
  <2>6. LocksComplete'
    BY <2>1 DEF LocksComplete
  <2>7. LocksLeft'
    BY <2>1 DEF LocksLeft
  <2> QED
    BY <2>3, <2>4, <2>5, <2>6, <2>7
<1>8. ASSUME NEW o \in Object, validateAll(t, o)
      PROVE  LockInv'
  <2>1. Same /\ pc'[t] = "validateAll" /\ pc[t] = "validateAll"
    BY <1>8 DEF validateAll
  <2> QED
    BY <1>1, <2>1 DEF LocksComplete, RepliesAwaited
<1>9. CASE validatedAll(t)
  <2>1. Same /\ pc'[t] \in Locked /\ pc[t] = "validateAll"
    BY <1>9 DEF validatedAll
  <2> QED
    BY <1>1, <2>1 DEF LocksComplete, RepliesAwaited
<1>10. ASSUME NEW o \in Object, NEW w \in Word, commitWriteSetValues(t, o, w)
       PROVE  LockInv'
  <2>1. Same /\ pc'[t] \in Locked /\ pc[t] = "commitWriteSetValues"
    BY <1>10 DEF commitWriteSetValues
  <2> QED
    BY <1>1, <2>1 DEF LocksComplete, RepliesAwaited
<1>11. CASE getNextClock(t)
  <2>1. /\ Same /\ pc[t] = "getNextClock" /\ todo'[t] = write_set[t]
        /\ pc'[t] = "releaseLocksWithNewClock"
    BY <1>11 DEF getNextClock
  <2>2. \A o \in Object :
          grab[t][o] = IF o \in todo'[t] THEN "held" ELSE "none"
    BY <2>1 DEF LocksComplete, RequestsInCommit
  <2> QED
    BY <1>1, <2>1, <2>2 DEF RepliesAwaited
<1>12. ASSUME NEW o \in Object, validateAllFails(t, o)
       PROVE  LockInv'
  <2>1. \A p \in Object :
          grab[t][p] = IF p \in write_set[t] THEN "held" ELSE "none"
    BY <1>12 DEF validateAllFails, LocksComplete, RequestsInCommit
  <2>2. CASE write_set[t] = {}
    BY <1>2, <1>12, <2>1, <2>2 DEF validateAllFails, abort
  <2>3. CASE write_set[t] # {}
    <3>1. Same /\ pc'[t] = "releaseLocks" /\ todo'[t] = Held(t)
      BY <1>12, <2>3 DEF validateAllFails, StartReleaseLocks
    <3> QED
      BY <1>1, <2>1, <3>1 DEF Held
  <2> QED
    BY <2>2, <2>3
<1> QED
  BY <1>3, <1>4, <1>5, <1>6, <1>7, <1>8, <1>9, <1>10, <1>11, <1>12
     DEF GetLocks, WriteBack

\* The handlers: a lock is granted only where the swap finds the word the
\* handler compared, and that word had no lock bit.
LEMMA Handlers ==
    ASSUME LockInv, TypeOK', UnlockedCopies', NEW t \in Thread, Handler(t)
    PROVE  LockInv'
<1> USE DEF LockInv, TypeOK, memory, sets, loops, request, history
<1>1. ASSUME NEW o \in Object, loadLock(t, o)
      PROVE  LockInv'
  <2>1. /\ UNCHANGED <<lock, pc, waiting, write_set, todo>>
        /\ grab[t][o] = "asked" /\ grab' = [grab EXCEPT ![t][o] = "loaded"]
    BY <1>1 DEF loadLock
  <2>2. LockOwnership' /\ RequestsInCommit' /\ RepliesAwaited'
    BY <2>1 DEF LockOwnership, RequestsInCommit, RepliesAwaited
  <2>3. LocksComplete' /\ LocksLeft'
    BY <2>1 DEF LocksComplete, LocksLeft, RepliesAwaited
  <2> QED
    BY <2>2, <2>3
<1>2. ASSUME NEW o \in Object, grabLock(t, o)
      PROVE  LockInv'
  <2>1. /\ UNCHANGED <<pc, waiting, write_set, todo>>
        /\ grab[t][o] = "loaded" /\ grab' = [grab EXCEPT ![t][o] = "held"]
        /\ lock' = [lock EXCEPT ![o] = SetLockBit(copy[t][o].ts)]
        /\ ~LockRefused(t, o)
    BY <1>2 DEF grabLock
  <2>2. lock[o].lock = 0
    BY <2>1 DEF LockRefused, WordGreater, UnlockedCopies, Timestamp
  <2>3. ~LOCKBIT_TS(lock[o]) /\ LOCKBIT_TS(lock'[o])
    BY <2>1, <2>2 DEF LOCKBIT_TS, SetLockBit, Copy, Timestamp
  <2>4. LockOwnership'
    BY <2>1, <2>3 DEF LockOwnership
  <2>5. RequestsInCommit' /\ RepliesAwaited'
    BY <2>1 DEF RequestsInCommit, RepliesAwaited
  <2>6. LocksComplete' /\ LocksLeft'
    BY <2>1 DEF LocksComplete, LocksLeft, RepliesAwaited
  <2> QED
    BY <2>4, <2>5, <2>6
<1>3. ASSUME NEW o \in Object, refuseLock(t, o)
      PROVE  LockInv'
  <2>1. /\ UNCHANGED <<lock, pc, waiting, write_set, todo>>
        /\ grab[t][o] = "loaded" /\ grab' = [grab EXCEPT ![t][o] = "refused"]
    BY <1>3 DEF refuseLock
  <2>2. LockOwnership' /\ RequestsInCommit' /\ RepliesAwaited'
    BY <2>1 DEF LockOwnership, RequestsInCommit, RepliesAwaited
  <2>3. LocksComplete' /\ LocksLeft'
    BY <2>1 DEF LocksComplete, LocksLeft, RepliesAwaited
  <2> QED
    BY <2>2, <2>3
<1>4. ASSUME NEW n \in Node, locksRequestProcessed(t, n)
      PROVE  LockInv'
  <2>1. /\ UNCHANGED <<lock, grab, pc, write_set, todo>>
        /\ waiting' = [waiting EXCEPT ![t] = @ \ {n}]
        /\ \A o \in Object :
              home[o] = n => grab[t][o] \notin {"asked", "loaded"}
    BY <1>4 DEF locksRequestProcessed
  <2>2. LockOwnership' /\ RequestsInCommit' /\ LocksComplete' /\ LocksLeft'
    BY <2>1 DEF LockOwnership, RequestsInCommit, LocksComplete, LocksLeft
  <2>3. RepliesAwaited'
    BY <2>1 DEF RepliesAwaited
  <2> QED
    BY <2>2, <2>3
<1> QED
  BY <1>1, <1>2, <1>3, <1>4 DEF Handler

\* LockInv is inductive.
LEMMA LockStep == LockInv /\ [Next]_vars => LockInv'
<1> SUFFICES ASSUME LockInv, [Next]_vars
             PROVE  LockInv'
  OBVIOUS
<1>1. TypeOK' /\ UnlockedCopies'
  BY TypeStep, UnlockedStep DEF LockInv
<1>2. CASE Finished \/ UNCHANGED vars
  <2>1. UNCHANGED <<lock, grab, waiting, pc, write_set, todo>>
    BY <1>2 DEF Finished, vars, memory, sets, loops, request
  <2> QED
    BY <1>1, <2>1 DEF LockInv, LockOwnership, RequestsInCommit, RepliesAwaited,
                      LocksComplete, LocksLeft
<1> QED
  BY <1>1, <1>2, OutsideCommit, InsideCommit, Handlers DEF Next, Library

\* LockInv holds initially: no lock is set and nobody is committing.
LEMMA LockInit == Init => LockInv
<1> SUFFICES ASSUME Init
             PROVE  LockInv
  OBVIOUS
<1>1. TypeOK
  BY InitType
<1>2. LockOwnership /\ UnlockedCopies
  BY DEF Init, LockOwnership, UnlockedCopies, LOCKBIT_TS, EmptyCopy, InitialTS
<1>3. RequestsInCommit /\ RepliesAwaited /\ LocksComplete /\ LocksLeft
  BY DEF Init, RequestsInCommit, RepliesAwaited, LocksComplete, LocksLeft
<1> QED
  BY <1>1, <1>2, <1>3 DEF LockInv

\* The loops of commit and the replies to getLocks always account for
\* exactly the locks held.
THEOREM LockInvariant == Spec => []LockInv
  BY LockInit, LockStep, PTL DEF Spec

\* Whatever the nodes, threads, objects and access patterns: a lock bit is
\* set exactly while one transaction holds the lock, so that locks are
\* neither leaked by an abort nor granted twice.
THEOREM LocksOwned == Spec => []LockOwnership
<1>1. LockInv => LockOwnership
  BY DEF LockInv
<1> QED
  BY <1>1, LockInvariant, PTL

-----------------------------------------------------------------------------
(* Versions. *)

(***************************************************************************)
(* Each object is written from the threads of one node.  Without it a lock *)
(* is granted over a newer version: the node weighs more than the version  *)
(* in the comparison of processLocksRequest (the run lost_update).         *)
(***************************************************************************)
OneWriterNode ==
    \A t, u \in Thread :
        mayWrite[t] \cap mayWrite[u] # {} => nodeOf[t] = nodeOf[u]

Reading  == {"loadVersion", "loadData", "recheck"}
Updating == {"commitWriteSetValues", "getNextClock", "releaseLocksWithNewClock"}

\* readCell works on one object; block copies stay in what they copy.
LoopBounds(t) ==
    /\ pc[t] \in Reading => \E o \in Object : todo[t] = {o}
    /\ pc[t] = "loadData" => left[t] \subseteq todo[t] \X Word
    /\ pc[t] = "commitWriteSetValues" => left[t] \subseteq write_set[t] \X Word
    /\ pc[t] \in {"recheck", "getNextClock", "releaseLocksWithNewClock"} =>
         left[t] = {}

LoopsInBounds == \A t \in Thread : LoopBounds(t)

Version(t, o) == copy[t][o].ts.version

\* A timestamp of o: the initial one, or one of the node that writes o.
FromWriter(s, o) == \/ s.node = 0 /\ s.version = 0
                    \/ \A t \in Thread : o \in mayWrite[t] => s.node = nodeOf[t]

WriterStamps ==
    /\ \A o \in Object : FromWriter(lock[o], o)
    /\ \A t \in Thread, o \in Object : FromWriter(copy[t][o].ts, o)

WritesAllowed == \A t \in Thread : write_set[t] \subseteq mayWrite[t]

\* No copy is newer than its object.
CopiesNotNewer ==
    \A t \in Thread, o \in Object : Version(t, o) <= lock[o].version

\* A locked object has the version its owner copied.
HeldVersions ==
    \A t \in Thread, o \in Object :
        grab[t][o] = "held" => lock[o].version = Version(t, o)

\* The clock of a node has caught up with what its threads have copied.
ClockAhead ==
    \A t \in Thread, o \in Object :
        \/ Version(t, o) <= clock[nodeOf[t]]
        \/ pc[t] = "increaseClock" /\ Version(t, o) <= ts[t].version

\* The version a commit puts is its node's, and newer than those it copied.
NewVersions ==
    \A t \in Thread : pc[t] = "releaseLocksWithNewClock" =>
        /\ ts[t].node = nodeOf[t]
        /\ \A o \in Object : Version(t, o) < ts[t].version

VersionInv == /\ LoopsInBounds /\ WriterStamps /\ WritesAllowed
              /\ CopiesNotNewer /\ HeldVersions /\ ClockAhead /\ NewVersions

-----------------------------------------------------------------------------
(* Which steps change what. *)

\* A step of t: nothing another thread keeps for itself changes.
Others(t) ==
    \A u \in Thread \ {t} :
        /\ pc'[u] = pc[u] /\ attempt'[u] = attempt[u]
        /\ read_set'[u] = read_set[u] /\ write_set'[u] = write_set[u]
        /\ copy'[u] = copy[u] /\ ts'[u] = ts[u] /\ todo'[u] = todo[u]
        /\ left'[u] = left[u] /\ grab'[u] = grab[u] /\ pos'[u] = pos[u]

\* The application starts, accesses and ends transactions: it changes no
\* lock, block or clock, and nothing is committed.
LEMMA ApplicationFrame ==
    ASSUME TypeOK, NEW t \in Thread, Application(t)
    PROVE  UNCHANGED <<lock, mem, clock, grab, hist>> /\ Others(t)
  BY DEF TypeOK, Others, memory, sets, loops, request, history, Application,
         begin, invalidAccess, abort, Clear, commitReadOnly, commitUpdate,
         StartValidateAll, read, write, writeRead, StartReadCell

\* readCell changes nothing but the thread's copy.
LEMMA ReadCellFrame ==
    ASSUME TypeOK, NEW t \in Thread, ReadCell(t)
    PROVE  UNCHANGED <<lock, mem, clock, grab, hist, ticket>> /\ Others(t)
<1> USE DEF TypeOK, Others, memory, sets, loops, request, history
<1>1. ASSUME NEW o \in Object, loadVersion(t, o) \/ cellLocked(t, o)
      PROVE  UNCHANGED <<lock, mem, clock, grab, hist, ticket>> /\ Others(t)
  BY <1>1 DEF loadVersion, cellLocked, abort, Clear
<1>2. ASSUME NEW o \in Object, recheckVersion(t, o)
      PROVE  UNCHANGED <<lock, mem, clock, grab, hist, ticket>> /\ Others(t)
  BY <1>2 DEF recheckVersion
<1>3. ASSUME NEW o \in Object, NEW w \in Word, loadData(t, o, w)
      PROVE  UNCHANGED <<lock, mem, clock, grab, hist, ticket>> /\ Others(t)
  BY <1>3 DEF loadData
<1> QED
  BY <1>1, <1>2, <1>3 DEF ReadCell

\* The validation of a read changes no lock and no block.
LEMMA ValidateFrame ==
    ASSUME TypeOK, NEW t \in Thread, Validate(t)
    PROVE  UNCHANGED <<lock, mem, grab, hist, ticket>> /\ Others(t)
  BY DEF TypeOK, Others, memory, sets, loops, request, history, Validate,
         increaseClock, validated, validate, validateFails, abort, Clear

\* getLocks and releaseLocks change no block and no clock.
LEMMA GetLocksFrame ==
    ASSUME TypeOK, NEW t \in Thread, GetLocks(t)
    PROVE  /\ UNCHANGED <<mem, clock, hist>> /\ Others(t)
           /\ UNCHANGED lock \/ \E o \in Object : releaseLock(t, o)
<1> USE DEF TypeOK, Others, memory, sets, loops, request, history
<1>1. CASE \E o \in Object : releaseLock(t, o)
  BY <1>1 DEF releaseLock
<1>2. CASE ~\E o \in Object : releaseLock(t, o)
  BY <1>2 DEF GetLocks, requestLocks, locksGranted, StartValidateAll,
              locksRefused, StartReleaseLocks, locksReleased, abort, Clear
<1> QED
  BY <1>1, <1>2

\* The rest of commit: validateAll, the puts, the new version.
LEMMA WriteBackFrame ==
    ASSUME TypeOK, NEW t \in Thread, WriteBack(t)
    PROVE  /\ UNCHANGED ticket /\ Others(t)
           /\ UNCHANGED lock \/ \E o \in Object : releaseLockWithNewClock(t, o)
           /\ UNCHANGED mem \/ \E o \in Object, w \in Word :
                                  commitWriteSetValues(t, o, w)
           /\ UNCHANGED hist \/ validatedAll(t)
           /\ UNCHANGED clock \/ getNextClock(t)
<1> USE DEF TypeOK, Others, memory, sets, loops, request, history
<1>1. CASE \E o \in Object : releaseLockWithNewClock(t, o)
  BY <1>1 DEF releaseLockWithNewClock
<1>2. CASE \E o \in Object, w \in Word : commitWriteSetValues(t, o, w)
  BY <1>2 DEF commitWriteSetValues
<1>3. CASE validatedAll(t)
  BY <1>3 DEF validatedAll
<1>4. CASE getNextClock(t)
  BY <1>4 DEF getNextClock
<1>5. ASSUME NEW o \in Object, validateAll(t, o) \/ validateAllFails(t, o)
      PROVE  UNCHANGED <<lock, mem, hist, clock, ticket>> /\ Others(t)
  BY <1>5 DEF validateAll, validateAllFails, StartReleaseLocks, abort, Clear
<1>6. CASE committed(t)
  BY <1>6 DEF committed, Clear
<1> QED
  BY <1>1, <1>2, <1>3, <1>4, <1>5, <1>6 DEF WriteBack

\* The handlers change lock words and the state of the requests only.
LEMMA HandlerFrame ==
    ASSUME TypeOK, NEW t \in Thread, Handler(t)
    PROVE  /\ UNCHANGED <<mem, clock, pc, attempt, sets, loops, history>>
           /\ Others(t)
           /\ UNCHANGED lock \/ \E o \in Object : grabLock(t, o)
<1> USE DEF TypeOK, Others, memory, sets, loops, request, history
<1>1. CASE \E o \in Object : grabLock(t, o)
  BY <1>1 DEF grabLock
<1>2. CASE ~\E o \in Object : grabLock(t, o)
  BY <1>2 DEF Handler, loadLock, refuseLock, locksRequestProcessed
<1> QED
  BY <1>1, <1>2

\* A step is a step of one thread or of a handler of its requests.
LEMMA StepOf ==
    ASSUME TypeOK, [Next]_vars
    PROVE  \/ UNCHANGED vars
           \/ \E t \in Thread :
                 /\ \/ Application(t) \/ ReadCell(t) \/ Validate(t)
                    \/ GetLocks(t) \/ WriteBack(t) \/ Handler(t)
                 /\ Others(t)
  BY ApplicationFrame, ReadCellFrame, ValidateFrame, GetLocksFrame,
     WriteBackFrame, HandlerFrame DEF Next, Finished, Library

\* A lock word changes when its owner puts it or a handler grants the lock.
LEMMA LockFrame ==
    ASSUME TypeOK, [Next]_vars, NEW o \in Object, lock'[o] # lock[o]
    PROVE  \E t \in Thread : \/ grabLock(t, o) \/ releaseLock(t, o)
                             \/ releaseLockWithNewClock(t, o)
<1>1. PICK t \in Thread, p \in Object :
         grabLock(t, p) \/ releaseLock(t, p) \/ releaseLockWithNewClock(t, p)
  <2>1. UNCHANGED vars => UNCHANGED lock
    BY DEF vars, memory
  <2> QED
    BY <2>1, StepOf, ApplicationFrame, ReadCellFrame, ValidateFrame,
       GetLocksFrame, WriteBackFrame, HandlerFrame
<1>2. lock' = [lock EXCEPT ![p] = lock'[p]]
  BY <1>1 DEF grabLock, releaseLock, releaseLockWithNewClock, TypeOK
<1>3. p = o
  BY <1>2 DEF TypeOK
<1> QED
  BY <1>1, <1>3

\* A piece of a block changes when a commit puts it.
LEMMA BlockFrame ==
    ASSUME TypeOK, [Next]_vars, NEW o \in Object, NEW w \in Word,
           mem'[o][w] # mem[o][w]
    PROVE  \E t \in Thread : commitWriteSetValues(t, o, w)
<1>1. PICK t \in Thread, p \in Object, x \in Word :
         commitWriteSetValues(t, p, x)
  <2>1. UNCHANGED vars => UNCHANGED mem
    BY DEF vars, memory
  <2> QED
    BY <2>1, StepOf, ApplicationFrame, ReadCellFrame, ValidateFrame,
       GetLocksFrame, WriteBackFrame, HandlerFrame
<1>2. p = o /\ x = w
  BY <1>1 DEF commitWriteSetValues, TypeOK, Block
<1> QED
  BY <1>1, <1>2

\* Only a clock that draws a version or catches up with one changes.
LEMMA ClockFrame ==
    ASSUME TypeOK, [Next]_vars
    PROVE  \A n \in Node : clock'[n] >= clock[n]
<1>1. CASE UNCHANGED clock
  BY <1>1 DEF TypeOK
<1>2. ASSUME NEW t \in Thread, getNextClock(t)
      PROVE  \A n \in Node : clock'[n] >= clock[n]
  BY <1>2 DEF getNextClock, TypeOK
<1>3. ASSUME NEW t \in Thread, increaseClock(t)
      PROVE  \A n \in Node : clock'[n] >= clock[n]
  BY <1>3 DEF increaseClock, CaughtUp, TypeOK, Timestamp
<1>4. ASSUME NEW t \in Thread, Validate(t)
      PROVE  UNCHANGED clock \/ increaseClock(t)
  BY <1>4 DEF Validate, validated, validate, validateFails, memory
<1>5. UNCHANGED vars => UNCHANGED clock
  BY DEF vars, memory
<1> QED
  BY <1>1, <1>2, <1>3, <1>4, <1>5, StepOf, ApplicationFrame, ReadCellFrame,
     GetLocksFrame, WriteBackFrame, HandlerFrame

\* A commit is recorded by validatedAll.
LEMMA HistFrame ==
    ASSUME TypeOK, [Next]_vars, hist' # hist
    PROVE  \E t \in Thread : validatedAll(t)
<1>1. UNCHANGED vars => UNCHANGED hist
  BY DEF vars, history
<1>2. \A t \in Thread : Handler(t) => UNCHANGED hist
  BY HandlerFrame DEF history
<1> QED
  BY <1>1, <1>2, StepOf, ApplicationFrame, ReadCellFrame, ValidateFrame,
     GetLocksFrame, WriteBackFrame

\* The timestamp of a copy is set when readCell ends and cleared with the sets.
LEMMA StampFrame ==
    ASSUME TypeOK, [Next]_vars, NEW t \in Thread, NEW o \in Object
    PROVE  \/ copy'[t][o].ts = copy[t][o].ts
           \/ /\ recheckVersion(t, o) /\ StillCurrent(t, o)
              /\ copy'[t][o].ts = ts[t]
           \/ Clear(t) /\ copy'[t][o] = EmptyCopy
<1> DEFINE Goal == \/ copy'[t][o].ts = copy[t][o].ts
                   \/ /\ recheckVersion(t, o) /\ StillCurrent(t, o)
                      /\ copy'[t][o].ts = ts[t]
                   \/ Clear(t) /\ copy'[t][o] = EmptyCopy
<1>1. CASE copy'[t] = copy[t]
  BY <1>1
<1>2. CASE Clear(t)
  BY <1>2 DEF Clear, TypeOK
<1>3. ASSUME NEW p \in Object, NEW w \in Word, loadData(t, p, w)
      PROVE  Goal
  <2>1. copy[t][o] \in Copy
    BY DEF TypeOK
  <2>2. \/ copy'[t][o] = copy[t][o]
        \/ copy'[t][o] = [copy[t][o] EXCEPT !.val[w] = mem[p][w]]
    BY <1>3 DEF loadData, TypeOK
  <2> QED
    BY <2>1, <2>2 DEF Copy
<1>4. ASSUME NEW p \in Object, recheckVersion(t, p)
      PROVE  Goal
  <2>1. copy[t][o] \in Copy
    BY DEF TypeOK
  <2>2. CASE ~StillCurrent(t, p) \/ p # o
    BY <1>4, <2>2 DEF recheckVersion, TypeOK
  <2>3. CASE StillCurrent(t, p) /\ p = o
    <3>1. /\ copy \in [Thread -> [Object -> Copy]]
          /\ copy' = [copy EXCEPT ![t][o].ts = ts[t]]
      BY <1>4, <2>3 DEF recheckVersion, TypeOK
    <3>2. copy'[t][o] = [copy[t][o] EXCEPT !.ts = ts[t]]
      BY <3>1
    <3> QED
      BY <1>4, <2>1, <2>3, <3>2 DEF Copy
  <2> QED
    BY <2>2, <2>3
<1>5. ASSUME Application(t)
      PROVE  copy'[t] = copy[t] \/ Clear(t)
  BY <1>5 DEF Application, begin, invalidAccess, abort, commitReadOnly,
              commitUpdate, StartValidateAll, read, write, writeRead,
              StartReadCell, sets
<1>6. ASSUME Validate(t)
      PROVE  copy'[t] = copy[t] \/ Clear(t)
  BY <1>6 DEF Validate, increaseClock, validated, validate, validateFails,
              abort, sets
<1>7. ASSUME GetLocks(t)
      PROVE  copy'[t] = copy[t] \/ Clear(t)
  BY <1>7 DEF GetLocks, requestLocks, locksGranted, StartValidateAll,
              locksRefused, StartReleaseLocks, locksReleased, abort,
              releaseLock, sets
<1>8. ASSUME WriteBack(t)
      PROVE  copy'[t] = copy[t] \/ Clear(t)
  BY <1>8 DEF WriteBack, validatedAll, getNextClock, committed, validateAll,
              validateAllFails, StartReleaseLocks, abort,
              releaseLockWithNewClock, commitWriteSetValues, sets
<1>9. ASSUME Handler(t)
      PROVE  copy'[t] = copy[t]
  BY <1>9, HandlerFrame DEF sets
<1>10. ASSUME ReadCell(t)
       PROVE  Goal
  BY <1>1, <1>2, <1>3, <1>4, <1>10 DEF ReadCell, loadVersion, cellLocked,
                                       abort, sets
<1>11. UNCHANGED vars => copy'[t] = copy[t]
  BY DEF vars, sets
<1>12. \A u \in Thread \ {t} : Others(u) => copy'[t] = copy[t]
  BY DEF Others
<1> HIDE DEF Goal
<1> QED
  BY <1>1, <1>2, <1>5, <1>6, <1>7, <1>8, <1>9, <1>10, <1>11, <1>12, StepOf
     DEF Goal

\* A lock is won by grabLock and lost by the owner's releases, no other way.
LEMMA HeldFrame ==
    ASSUME TypeOK, [Next]_vars, NEW t \in Thread, NEW o \in Object
    PROVE  /\ grab[t][o] # "held" /\ grab'[t][o] = "held" => grabLock(t, o)
           /\ grab[t][o] = "held" /\ grab'[t][o] # "held" =>
                releaseLock(t, o) \/ releaseLockWithNewClock(t, o)
<1> DEFINE Same == grab'[t][o] = "held" <=> grab[t][o] = "held"
           Cases == \/ Same \/ grabLock(t, o)
                    \/ releaseLock(t, o) \/ releaseLockWithNewClock(t, o)
<1>1. ASSUME NEW B \in SUBSET Unasked(t), requestLocks(t, B)
      PROVE  Same
  BY <1>1 DEF requestLocks, Unasked, TypeOK
<1>2. CASE locksRefused(t)
  BY <1>2 DEF locksRefused, TypeOK
<1>3. ASSUME NEW p \in Object, releaseLock(t, p)
      PROVE  p = o \/ Same
  BY <1>3 DEF releaseLock, TypeOK
<1>4. ASSUME NEW p \in Object, releaseLockWithNewClock(t, p)
      PROVE  p = o \/ Same
  BY <1>4 DEF releaseLockWithNewClock, TypeOK
<1>5. ASSUME NEW p \in Object, grabLock(t, p)
      PROVE  p = o \/ Same
  BY <1>5 DEF grabLock, TypeOK
<1>6. ASSUME NEW p \in Object, loadLock(t, p) \/ refuseLock(t, p)
      PROVE  Same
  BY <1>6 DEF loadLock, refuseLock, TypeOK
<1>7. CASE UNCHANGED grab
  BY <1>7
<1>8. ASSUME GetLocks(t)
      PROVE  Cases
  BY <1>1, <1>2, <1>3, <1>7, <1>8
     DEF GetLocks, locksGranted, StartValidateAll, locksReleased, request
<1>9. ASSUME WriteBack(t)
      PROVE  Cases
  BY <1>4, <1>7, <1>9
     DEF WriteBack, validatedAll, getNextClock, committed, validateAll,
         validateAllFails, commitWriteSetValues, request
<1>10. ASSUME Handler(t)
       PROVE  Cases
  BY <1>5, <1>6, <1>7, <1>10 DEF Handler, locksRequestProcessed
<1>11. UNCHANGED vars => Cases
  BY <1>7 DEF vars, request
<1>12. \A u \in Thread \ {t} : Others(u) => Cases
  BY DEF Others
<1>13. Cases
  BY <1>7, <1>8, <1>9, <1>10, <1>11, <1>12, StepOf, ApplicationFrame,
     ReadCellFrame, ValidateFrame
<1>14. releaseLock(t, o) \/ releaseLockWithNewClock(t, o) => grab'[t][o] # "held"
  BY DEF releaseLock, releaseLockWithNewClock, TypeOK
<1>15. grabLock(t, o) => grab[t][o] # "held" /\ grab'[t][o] = "held"
  BY DEF grabLock, TypeOK
<1> QED
  BY <1>13, <1>14, <1>15

\* The clock catches up, and a version is drawn, where the code says so.
LEMMA StampingFrame ==
    ASSUME TypeOK, [Next]_vars, NEW t \in Thread
    PROVE  /\ pc[t] = "increaseClock" =>
                increaseClock(t) \/ (pc'[t] = pc[t] /\ ts'[t] = ts[t])
           /\ pc'[t] = "releaseLocksWithNewClock" =>
                getNextClock(t) \/ (pc'[t] = pc[t] /\ ts'[t] = ts[t])
<1> DEFINE Goal == /\ pc[t] = "increaseClock" =>
                        increaseClock(t) \/ (pc'[t] = pc[t] /\ ts'[t] = ts[t])
                   /\ pc'[t] = "releaseLocksWithNewClock" =>
                        getNextClock(t) \/ (pc'[t] = pc[t] /\ ts'[t] = ts[t])
<1> USE DEF TypeOK, loops, Clear, abort
<1>1. ASSUME Application(t)
      PROVE  Goal
  BY <1>1 DEF Application, begin, invalidAccess, commitReadOnly,
              commitUpdate, StartValidateAll, read, write, writeRead,
              StartReadCell
<1>2. ASSUME ReadCell(t)
      PROVE  Goal
  BY <1>2 DEF ReadCell, loadVersion, loadData, recheckVersion, cellLocked
<1>3. ASSUME Validate(t)
      PROVE  Goal
  <2>1. CASE increaseClock(t)
    BY <2>1 DEF increaseClock
  <2> QED
    BY <1>3, <2>1 DEF Validate, validated, validate, validateFails
<1>4. ASSUME GetLocks(t)
      PROVE  Goal
  BY <1>4 DEF GetLocks, requestLocks, locksGranted, StartValidateAll,
              locksRefused, StartReleaseLocks, locksReleased, releaseLock
<1>5. ASSUME WriteBack(t)
      PROVE  Goal
  <2>1. CASE getNextClock(t)
    BY <2>1 DEF getNextClock
  <2> QED
    BY <1>5, <2>1 DEF WriteBack, validatedAll, committed, validateAll,
              validateAllFails, StartReleaseLocks, releaseLockWithNewClock,
              commitWriteSetValues
<1>6. ASSUME Handler(t) \/ UNCHANGED vars \/ \E u \in Thread \ {t} : Others(u)
      PROVE  Goal
  BY <1>6, HandlerFrame DEF Others, vars
<1> HIDE DEF Goal
<1> QED
  BY <1>1, <1>2, <1>3, <1>4, <1>5, <1>6, StepOf DEF Goal

\* A thread puts into its write set what the application may write.
LEMMA WriteSetFrame ==
    ASSUME TypeOK, [Next]_vars, NEW t \in Thread
    PROVE  write_set'[t] \subseteq write_set[t] \cup mayWrite[t]
<1> DEFINE Goal == write_set'[t] \subseteq write_set[t] \cup mayWrite[t]
<1> USE DEF TypeOK, sets, Clear, abort
<1>1. ASSUME Application(t)
      PROVE  Goal
  BY <1>1 DEF Application, begin, invalidAccess, commitReadOnly,
              commitUpdate, StartValidateAll, read, write, writeRead,
              StartReadCell
<1>2. ASSUME ReadCell(t) \/ Validate(t)
      PROVE  Goal
  BY <1>2 DEF ReadCell, loadVersion, loadData, recheckVersion, cellLocked,
              Validate, increaseClock, validated, validate, validateFails
<1>3. ASSUME GetLocks(t)
      PROVE  Goal
  BY <1>3 DEF GetLocks, requestLocks, locksGranted, StartValidateAll,
              locksRefused, StartReleaseLocks, locksReleased, releaseLock
<1>4. ASSUME WriteBack(t)
      PROVE  Goal
  BY <1>4 DEF WriteBack, validatedAll, getNextClock, committed, validateAll,
              validateAllFails, StartReleaseLocks, releaseLockWithNewClock,
              commitWriteSetValues
<1>5. ASSUME Handler(t) \/ UNCHANGED vars \/ \E u \in Thread \ {t} : Others(u)
      PROVE  Goal
  BY <1>5, HandlerFrame DEF Others, vars
<1> HIDE DEF Goal
<1> QED
  BY <1>1, <1>2, <1>3, <1>4, <1>5, StepOf DEF Goal

\* The content of a copy is set piece by piece by readCell, and cleared with
\* the sets.
LEMMA ContentFrame ==
    ASSUME TypeOK, [Next]_vars, NEW t \in Thread, NEW o \in Object,
           copy'[t][o].val # copy[t][o].val
    PROVE  Clear(t) \/ \E w \in Word : loadData(t, o, w)
<1> DEFINE Same == copy'[t][o].val = copy[t][o].val
           Goal == Clear(t) \/ \E w \in Word : loadData(t, o, w)
<1>1. ASSUME NEW p \in Object, NEW w \in Word, loadData(t, p, w)
      PROVE  Same \/ Goal
  BY <1>1 DEF loadData, TypeOK
<1>2. ASSUME NEW p \in Object, recheckVersion(t, p)
      PROVE  Same
  <2>1. copy[t][o] \in Copy
    BY DEF TypeOK
  <2>2. copy'[t][o] = copy[t][o] \/ copy'[t][o] = [copy[t][o] EXCEPT !.ts = ts[t]]
    <3>1. CASE p # o \/ UNCHANGED copy
      BY <1>2, <3>1 DEF recheckVersion, TypeOK
    <3>2. CASE p = o /\ ~UNCHANGED copy
      <4>1. /\ copy \in [Thread -> [Object -> Copy]]
            /\ copy' = [copy EXCEPT ![t][o].ts = ts[t]]
        BY <1>2, <3>2 DEF recheckVersion, TypeOK
      <4> QED
        BY <4>1
    <3> QED
      BY <3>1, <3>2
  <2> QED
    BY <2>1, <2>2 DEF Copy
<1>3. ASSUME Application(t) \/ Validate(t)
      PROVE  copy'[t] = copy[t] \/ Clear(t)
  BY <1>3 DEF Application, begin, invalidAccess, abort, commitReadOnly,
              commitUpdate, StartValidateAll, read, write, writeRead,
              StartReadCell, sets,
              Validate, increaseClock, validated, validate, validateFails
<1>4. ASSUME GetLocks(t)
      PROVE  copy'[t] = copy[t] \/ Clear(t)
  BY <1>4 DEF GetLocks, requestLocks, locksGranted, StartValidateAll,
              locksRefused, StartReleaseLocks, locksReleased, abort,
              releaseLock, sets
<1>5. ASSUME WriteBack(t)
      PROVE  copy'[t] = copy[t] \/ Clear(t)
  BY <1>5 DEF WriteBack, validatedAll, getNextClock, committed, validateAll,
              validateAllFails, StartReleaseLocks, abort,
              releaseLockWithNewClock, commitWriteSetValues, sets
<1>6. ASSUME Handler(t) \/ UNCHANGED vars \/ \E u \in Thread \ {t} : Others(u)
      PROVE  copy'[t] = copy[t]
  BY <1>6, HandlerFrame DEF Others, vars, sets
<1>7. ASSUME ReadCell(t)
      PROVE  Same \/ Goal
  BY <1>1, <1>2, <1>7 DEF ReadCell, loadVersion, cellLocked, abort, sets
<1> QED
  BY <1>3, <1>4, <1>5, <1>6, <1>7, StepOf

\* readCell runs on its own object until it has a copy or gives up.
LEMMA ReadingFrame ==
    ASSUME TypeOK, [Next]_vars, NEW t \in Thread,
           pc'[t] \in {"loadData", "recheck"}
    PROVE  \/ \E o \in Object : loadVersion(t, o)
           \/ \E o \in Object, w \in Word : loadData(t, o, w)
           \/ /\ pc'[t] = pc[t] /\ todo'[t] = todo[t] /\ left'[t] = left[t]
              /\ ts'[t] = ts[t]
<1> DEFINE Same == /\ pc'[t] = pc[t] /\ todo'[t] = todo[t]
                   /\ left'[t] = left[t] /\ ts'[t] = ts[t]
<1> USE DEF TypeOK, loops, Clear, abort
<1>1. ~Application(t) \/ Same
  BY DEF Application, begin, invalidAccess, commitReadOnly,
         commitUpdate, StartValidateAll, read, write, writeRead,
         StartReadCell
<1>2. ASSUME NEW o \in Object
      PROVE  ~cellLocked(t, o) /\ (~recheckVersion(t, o) \/ Same)
  BY DEF cellLocked, recheckVersion
<1>3. ~Validate(t)
  BY DEF Validate, increaseClock, validated, validate, validateFails
<1>4. ~GetLocks(t)
  BY DEF GetLocks, requestLocks, locksGranted, StartValidateAll,
         locksRefused, StartReleaseLocks, locksReleased, releaseLock
<1>5. ~WriteBack(t)
  BY DEF WriteBack, validatedAll, getNextClock, committed, validateAll,
         validateAllFails, StartReleaseLocks, releaseLockWithNewClock,
         commitWriteSetValues
<1>6. ASSUME Handler(t) \/ UNCHANGED vars \/ \E u \in Thread \ {t} : Others(u)
      PROVE  Same
  BY <1>6, HandlerFrame DEF Others, vars
<1> HIDE DEF Same
<1> QED
  BY <1>1, <1>2, <1>3, <1>4, <1>5, <1>6, StepOf DEF ReadCell, Same

\* A copy is complete when readCell has found the version unchanged.
LEMMA CompleteFrame ==
    ASSUME TypeOK, LoopsInBounds, [Next]_vars, NEW t \in Thread,
           NEW o \in Complete(t)', o \notin Complete(t)
    PROVE  recheckVersion(t, o) /\ StillCurrent(t, o)
<1> DEFINE Goal == recheckVersion(t, o) /\ StillCurrent(t, o)
<1> USE DEF TypeOK, loops, sets, Clear, abort, Complete, Accessed
<1>1. ~Application(t)
  BY DEF Application, begin, invalidAccess, commitReadOnly,
         commitUpdate, StartValidateAll, read, write, writeRead,
         StartReadCell
<1>2. ASSUME NEW p \in Object
      PROVE  /\ ~cellLocked(t, p) /\ ~loadVersion(t, p)
             /\ \A w \in Word : ~loadData(t, p, w)
  BY DEF cellLocked, loadVersion, loadData
<1>3. ASSUME NEW p \in Object, recheckVersion(t, p)
      PROVE  Goal
  <2>1. pc[t] = "recheck" /\ todo[t] = {p}
    BY <1>3 DEF recheckVersion, LoopsInBounds, LoopBounds, Reading
  <2>2. StillCurrent(t, p)
    BY <1>3, <2>1 DEF recheckVersion
  <2>3. o = p
    BY <1>3, <2>1 DEF recheckVersion
  <2> QED
    BY <1>3, <2>2, <2>3
<1>4. ~Validate(t)
  BY DEF Validate, increaseClock, validated, validate, validateFails
<1>5. ~GetLocks(t)
  BY DEF GetLocks, requestLocks, locksGranted, StartValidateAll,
         locksRefused, StartReleaseLocks, locksReleased, releaseLock
<1>6. ~WriteBack(t)
  BY DEF WriteBack, validatedAll, getNextClock, committed, validateAll,
         validateAllFails, StartReleaseLocks, releaseLockWithNewClock,
         commitWriteSetValues
<1>7. ~Handler(t) /\ ~UNCHANGED vars /\ ~\E u \in Thread \ {t} : Others(u)
  BY HandlerFrame DEF Others, vars
<1> HIDE DEF Goal
<1> QED
  BY <1>1, <1>2, <1>3, <1>4, <1>5, <1>6, <1>7, StepOf DEF ReadCell, Goal

\* A commit that has been recorded goes on to its end, in one attempt.
LEMMA UpdatingFrame ==
    ASSUME TypeOK, [Next]_vars, NEW t \in Thread
    PROVE  /\ pc[t] \in Updating =>
                committed(t) \/ (pc'[t] \in Updating /\ attempt'[t] = attempt[t])
           /\ pc'[t] \in Updating /\ pc[t] \notin Updating => validatedAll(t)
           /\ pc[t] \in Updating /\ left'[t] # left[t] =>
                \E o \in Object, w \in Word : commitWriteSetValues(t, o, w)
<1> DEFINE Goal ==
             /\ pc[t] \in Updating =>
                  committed(t) \/ (pc'[t] \in Updating /\ attempt'[t] = attempt[t])
             /\ pc'[t] \in Updating /\ pc[t] \notin Updating => validatedAll(t)
             /\ pc[t] \in Updating /\ left'[t] # left[t] =>
                  \E o \in Object, w \in Word : commitWriteSetValues(t, o, w)
<1> USE DEF TypeOK, loops, Clear, abort, Updating
<1>1. ASSUME Application(t)
      PROVE  Goal
  BY <1>1 DEF Application, begin, invalidAccess, commitReadOnly,
              commitUpdate, StartValidateAll, read, write, writeRead,
              StartReadCell
<1>2. ASSUME ReadCell(t)
      PROVE  Goal
  BY <1>2 DEF ReadCell, loadVersion, loadData, recheckVersion, cellLocked
<1>3. ASSUME Validate(t)
      PROVE  Goal
  BY <1>3 DEF Validate, increaseClock, validated, validate, validateFails
<1>4. ASSUME GetLocks(t)
      PROVE  Goal
  BY <1>4 DEF GetLocks, requestLocks, locksGranted, StartValidateAll,
              locksRefused, StartReleaseLocks, locksReleased, releaseLock
<1>5. ASSUME WriteBack(t)
      PROVE  Goal
  <2>1. ASSUME NEW o \in Object, NEW w \in Word, commitWriteSetValues(t, o, w)
        PROVE  pc'[t] \in Updating /\ pc[t] \in Updating /\ UNCHANGED attempt
    BY <2>1 DEF commitWriteSetValues
  <2>2. CASE committed(t)
    BY <2>2 DEF committed
  <2>3. CASE validatedAll(t)
    BY <2>3 DEF validatedAll
  <2>4. CASE getNextClock(t)
    BY <2>4 DEF getNextClock
  <2>5. ASSUME NEW o \in Object, \/ validateAll(t, o) \/ validateAllFails(t, o)
                                 \/ releaseLockWithNewClock(t, o)
        PROVE  Goal
    BY <2>5 DEF validateAll, validateAllFails, StartReleaseLocks,
                releaseLockWithNewClock
  <2> QED
    BY <1>5, <2>1, <2>2, <2>3, <2>4, <2>5 DEF WriteBack
<1>6. ASSUME Handler(t) \/ UNCHANGED vars \/ \E u \in Thread \ {t} : Others(u)
      PROVE  Goal
  BY <1>6, HandlerFrame DEF Others, vars
<1> HIDE DEF Goal
<1> QED
  BY <1>1, <1>2, <1>3, <1>4, <1>5, <1>6, StepOf DEF Goal

\* The loops stay in their bounds.
LEMMA LoopsStep ==
    ASSUME TypeOK, LoopsInBounds, [Next]_vars
    PROVE  LoopsInBounds'
<1> SUFFICES ASSUME NEW t \in Thread
             PROVE  LoopBounds(t)'
  BY DEF LoopsInBounds
<1> USE DEF TypeOK, loops, sets, Clear, abort, Reading, LoopBounds, LoopsInBounds
<1>1. ASSUME Application(t)
      PROVE  LoopBounds(t)'
  BY <1>1 DEF Application, begin, invalidAccess, commitReadOnly,
              commitUpdate, StartValidateAll, read, write, writeRead,
              StartReadCell
<1>2. ASSUME ReadCell(t)
      PROVE  LoopBounds(t)'
  <2>1. ASSUME NEW o \in Object, NEW w \in Word, loadData(t, o, w)
        PROVE  LoopBounds(t)'
    <3>1. /\ pc'[t] = IF left'[t] = {} THEN "recheck" ELSE "loadData"
          /\ pc[t] = "loadData" /\ left'[t] \subseteq left[t]
          /\ todo'[t] = todo[t]
      BY <2>1 DEF loadData
    <3> QED
      BY <3>1
  <2>2. ASSUME NEW o \in Object, loadVersion(t, o)
        PROVE  LoopBounds(t)'
    BY <2>2 DEF loadVersion
  <2>3. ASSUME NEW o \in Object, cellLocked(t, o) \/ recheckVersion(t, o)
        PROVE  LoopBounds(t)'
    BY <2>3 DEF cellLocked, recheckVersion
  <2> QED
    BY <1>2, <2>1, <2>2, <2>3 DEF ReadCell
<1>3. ASSUME Validate(t)
      PROVE  LoopBounds(t)'
  BY <1>3 DEF Validate, increaseClock, validated, validate, validateFails
<1>4. ASSUME GetLocks(t)
      PROVE  LoopBounds(t)'
  BY <1>4 DEF GetLocks, requestLocks, locksGranted, StartValidateAll,
              locksRefused, StartReleaseLocks, locksReleased, releaseLock
<1>5. ASSUME WriteBack(t)
      PROVE  LoopBounds(t)'
  BY <1>5 DEF WriteBack, validatedAll, getNextClock, committed, validateAll,
              validateAllFails, StartReleaseLocks, releaseLockWithNewClock,
              commitWriteSetValues
<1>6. ASSUME Handler(t) \/ UNCHANGED vars \/ \E u \in Thread \ {t} : Others(u)
      PROVE  LoopBounds(t)'
  BY <1>6, HandlerFrame DEF Others, vars
<1> QED
  BY <1>1, <1>2, <1>3, <1>4, <1>5, <1>6, StepOf

\* validateAll starts with a new position, and then only goes on.
LEMMA ValidateAllFrame ==
    ASSUME TypeOK, [Next]_vars, NEW t \in Thread, pc'[t] = "validateAll"
    PROVE  \/ StartValidateAll(t)
           \/ /\ pc[t] = "validateAll" /\ read_set'[t] = read_set[t]
              /\ write_set'[t] = write_set[t] /\ pos'[t] = pos[t]
              /\ todo'[t] = todo[t] \/ \E o \in Object : validateAll(t, o)
<1> DEFINE Same == /\ pc[t] = "validateAll" /\ read_set'[t] = read_set[t]
                   /\ write_set'[t] = write_set[t] /\ pos'[t] = pos[t]
                   /\ todo'[t] = todo[t] \/ \E o \in Object : validateAll(t, o)
<1> USE DEF TypeOK, loops, sets, history, Clear, abort
<1>1. ~Application(t) \/ StartValidateAll(t)
  <2>1. CASE commitReadOnly(t)
    BY <2>1 DEF commitReadOnly
  <2>2. CASE ~commitReadOnly(t)
    BY <2>2 DEF Application, begin, invalidAccess, commitUpdate, read, write,
                writeRead, StartReadCell
  <2> QED
    BY <2>1, <2>2
<1>2. ~ReadCell(t)
  BY DEF ReadCell, loadVersion, loadData, recheckVersion, cellLocked
<1>3. ~Validate(t)
  BY DEF Validate, increaseClock, validated, validate, validateFails
<1>4. ~GetLocks(t) \/ StartValidateAll(t)
  <2>1. CASE locksGranted(t)
    BY <2>1 DEF locksGranted
  <2>2. CASE ~locksGranted(t)
    BY <2>2 DEF GetLocks, requestLocks, locksRefused, StartReleaseLocks,
                locksReleased, releaseLock
  <2> QED
    BY <2>1, <2>2
<1>5. ASSUME WriteBack(t)
      PROVE  Same
  <2>1. ASSUME NEW o \in Object, validateAll(t, o)
        PROVE  Same
    <3>1. /\ pc[t] = "validateAll" /\ read_set'[t] = read_set[t]
          /\ write_set'[t] = write_set[t] /\ pos'[t] = pos[t]
      BY <2>1 DEF validateAll
    <3> QED
      BY <2>1, <3>1
  <2>2. ~validatedAll(t) /\ ~getNextClock(t) /\ ~committed(t)
    BY DEF validatedAll, getNextClock, committed
  <2>3. ASSUME NEW o \in Object
        PROVE  /\ ~validateAllFails(t, o) /\ ~releaseLockWithNewClock(t, o)
               /\ \A w \in Word : ~commitWriteSetValues(t, o, w)
    BY DEF validateAllFails, StartReleaseLocks, releaseLockWithNewClock,
           commitWriteSetValues
  <2> QED
    BY <1>5, <2>1, <2>2, <2>3 DEF WriteBack
<1>6. ASSUME Handler(t) \/ UNCHANGED vars \/ \E u \in Thread \ {t} : Others(u)
      PROVE  Same
  BY <1>6, HandlerFrame DEF Others, vars
<1> HIDE DEF Same
<1> QED
  BY <1>1, <1>2, <1>3, <1>4, <1>5, <1>6, StepOf DEF Same

\* A position is drawn at the start of validateAll, and at no other time.
LEMMA TicketFrame ==
    ASSUME TypeOK, [Next]_vars
    PROVE  ticket' = ticket \/ \E t \in Thread : StartValidateAll(t)
<1>1. ASSUME NEW t \in Thread, Application(t)
      PROVE  UNCHANGED ticket \/ StartValidateAll(t)
  BY <1>1 DEF Application, begin, invalidAccess, abort, commitReadOnly,
              commitUpdate, read, write, writeRead, StartReadCell, history
<1>2. ASSUME NEW t \in Thread, GetLocks(t)
      PROVE  UNCHANGED ticket \/ StartValidateAll(t)
  BY <1>2 DEF GetLocks, requestLocks, locksGranted, locksRefused,
              StartReleaseLocks, locksReleased, abort, releaseLock, history
<1>3. ASSUME NEW t \in Thread, Handler(t)
      PROVE  UNCHANGED ticket
  BY <1>3, HandlerFrame DEF history
<1>4. UNCHANGED vars => UNCHANGED ticket
  BY DEF vars, history
<1> QED
  BY <1>1, <1>2, <1>3, <1>4, StepOf, ReadCellFrame, ValidateFrame,
     WriteBackFrame

\* The puts of a commit begin when it is recorded and end with the last one.
LEMMA PuttingFrame ==
    ASSUME TypeOK, [Next]_vars, NEW t \in Thread
    PROVE  /\ pc[t] = "commitWriteSetValues" =>
                \/ \E o \in Object, w \in Word : commitWriteSetValues(t, o, w)
                \/ pc'[t] = pc[t] /\ left'[t] = left[t]
           /\ pc'[t] = "commitWriteSetValues" =>
                /\ validatedAll(t) \/ pc[t] = pc'[t]
                /\ write_set'[t] = write_set[t] /\ attempt'[t] = attempt[t]
<1> DEFINE Goal ==
             /\ pc[t] = "commitWriteSetValues" =>
                  \/ \E o \in Object, w \in Word : commitWriteSetValues(t, o, w)
                  \/ pc'[t] = pc[t] /\ left'[t] = left[t]
             /\ pc'[t] = "commitWriteSetValues" =>
                  /\ validatedAll(t) \/ pc[t] = pc'[t]
                  /\ write_set'[t] = write_set[t] /\ attempt'[t] = attempt[t]
<1> USE DEF TypeOK, loops, sets, Clear, abort
<1>1. ASSUME Application(t)
      PROVE  Goal
  BY <1>1 DEF Application, begin, invalidAccess, commitReadOnly,
              commitUpdate, StartValidateAll, read, write, writeRead,
              StartReadCell
<1>2. ASSUME ReadCell(t)
      PROVE  Goal
  BY <1>2 DEF ReadCell, loadVersion, loadData, recheckVersion, cellLocked
<1>3. ASSUME Validate(t)
      PROVE  Goal
  BY <1>3 DEF Validate, increaseClock, validated, validate, validateFails
<1>4. ASSUME GetLocks(t)
      PROVE  Goal
  BY <1>4 DEF GetLocks, requestLocks, locksGranted, StartValidateAll,
              locksRefused, StartReleaseLocks, locksReleased, releaseLock
<1>5. ASSUME WriteBack(t)
      PROVE  Goal
  <2>1. ASSUME NEW o \in Object, NEW w \in Word, commitWriteSetValues(t, o, w)
        PROVE  /\ pc[t] = "commitWriteSetValues"
               /\ UNCHANGED <<write_set, attempt>>
    BY <2>1 DEF commitWriteSetValues
  <2>2. CASE validatedAll(t)
    BY <2>2 DEF validatedAll
  <2>3. CASE getNextClock(t) \/ committed(t)
    BY <2>3 DEF getNextClock, committed
  <2>4. ASSUME NEW o \in Object, \/ validateAll(t, o) \/ validateAllFails(t, o)
                                 \/ releaseLockWithNewClock(t, o)
        PROVE  Goal
    BY <2>4 DEF validateAll, validateAllFails, StartReleaseLocks,
                releaseLockWithNewClock
  <2> QED
    BY <1>5, <2>1, <2>2, <2>3, <2>4 DEF WriteBack
<1>6. ASSUME Handler(t) \/ UNCHANGED vars \/ \E u \in Thread \ {t} : Others(u)
      PROVE  Goal
  BY <1>6, HandlerFrame DEF Others, vars
<1> HIDE DEF Goal
<1> QED
  BY <1>1, <1>2, <1>3, <1>4, <1>5, <1>6, StepOf DEF Goal

\* A lock is granted only for the version the object has.
LEMMA GrantedVersion ==
    ASSUME OneWriterNode, LockInv, VersionInv,
           NEW t \in Thread, NEW o \in Object, grabLock(t, o)
    PROVE  lock[o].lock = 0 /\ lock[o].version = Version(t, o)
<1>1. /\ lock[o] \in Timestamp(Node) /\ copy[t][o].ts \in Timestamp(Node)
      /\ copy[t][o].ts.lock = 0
  BY DEF LockInv, TypeOK, Copy, UnlockedCopies
<1>2. ~WordGreater(lock[o], copy[t][o].ts)
  BY DEF grabLock, LockRefused
<1>3. lock[o].lock = 0
  BY <1>1, <1>2 DEF WordGreater, Timestamp
<1>4. Version(t, o) <= lock[o].version
  BY DEF VersionInv, CopiesNotNewer
<1>5. o \in mayWrite[t]
  BY DEF grabLock, LockInv, RequestsInCommit, VersionInv, WritesAllowed
<1>6. FromWriter(lock[o], o) /\ FromWriter(copy[t][o].ts, o)
  BY DEF VersionInv, WriterStamps
<1>7. /\ \/ lock[o].node = 0 /\ lock[o].version = 0
         \/ lock[o].node = nodeOf[t]
      /\ \/ copy[t][o].ts.node = 0 /\ Version(t, o) = 0
         \/ copy[t][o].ts.node = nodeOf[t]
  BY <1>5, <1>6 DEF FromWriter, Version
<1>8. nodeOf[t] \in Nat /\ lock[o].version \in Nat /\ Version(t, o) \in Nat
  BY <1>1, NodeAssumption, ThreadAssumption DEF Timestamp, Version
<1> QED
  BY <1>1, <1>2, <1>3, <1>4, <1>7, <1>8 DEF WordGreater, Version

\* A piece is put by the owner of the lock.
LEMMA PutLocked ==
    ASSUME LockInv, LoopsInBounds, NEW t \in Thread, NEW o \in Object,
           NEW w \in Word, commitWriteSetValues(t, o, w)
    PROVE  grab[t][o] = "held" /\ LOCKBIT_TS(lock[o])
<1>1. o \in write_set[t] /\ pc[t] = "commitWriteSetValues"
  BY DEF commitWriteSetValues, LoopsInBounds, LoopBounds
<1> QED
  BY <1>1 DEF LockInv, LocksComplete, LockOwnership

\* A commit puts a version that is newer than the object's.
LEMMA PutVersion ==
    ASSUME LockInv, VersionInv, NEW t \in Thread, NEW o \in Object,
           releaseLockWithNewClock(t, o)
    PROVE  /\ grab[t][o] = "held" /\ o \in mayWrite[t]
           /\ ts[t].version > lock[o].version
<1>1. grab[t][o] = "held"
  BY DEF releaseLockWithNewClock, LockInv, LocksLeft, TypeOK
<1> QED
  BY <1>1 DEF releaseLockWithNewClock, LockInv, RequestsInCommit, VersionInv,
              WritesAllowed, HeldVersions, NewVersions

\* Versions never go back; blocks change under their lock.
LEMMA VersionsForward ==
    ASSUME OneWriterNode, LockInv, VersionInv, [Next]_vars, NEW o \in Object
    PROVE  /\ lock'[o].version >= lock[o].version
           /\ lock'[o].version # lock[o].version =>
                \E t \in Thread : releaseLockWithNewClock(t, o)
<1> USE DEF LockInv
<1>1. lock[o].version \in Nat
  BY DEF TypeOK, Timestamp
<1>2. CASE lock'[o] = lock[o]
  BY <1>1, <1>2
<1>3. ASSUME NEW t \in Thread, grabLock(t, o)
      PROVE  lock'[o].version = lock[o].version
  <2>1. lock'[o] = SetLockBit(copy[t][o].ts) /\ copy[t][o].ts \in Timestamp(Node)
    BY <1>3 DEF grabLock, TypeOK, Copy
  <2> QED
    BY <1>3, <2>1, GrantedVersion DEF SetLockBit, Timestamp, Version
<1>4. ASSUME NEW t \in Thread, releaseLock(t, o)
      PROVE  lock'[o].version = lock[o].version
  <2>1. grab[t][o] = "held" /\ lock'[o] = copy[t][o].ts
    BY <1>4 DEF releaseLock, LocksLeft, TypeOK
  <2> QED
    BY <2>1 DEF VersionInv, HeldVersions, Version
<1>5. ASSUME NEW t \in Thread, releaseLockWithNewClock(t, o)
      PROVE  lock'[o].version > lock[o].version
  <2>1. lock'[o] = ts[t]
    BY <1>5 DEF releaseLockWithNewClock, TypeOK
  <2> QED
    BY <1>5, <2>1, PutVersion
<1>6. CASE lock'[o] # lock[o]
  <2>1. TypeOK
    OBVIOUS
  <2>2. lock'[o].version \in Nat
    BY TypeStep DEF TypeOK, Timestamp
  <2> QED
    BY <1>1, <1>3, <1>4, <1>5, <1>6, <2>1, <2>2, LockFrame
<1> QED
  BY <1>2, <1>6

\* VersionInv is inductive, given the locks.
LEMMA VersionStep ==
    ASSUME OneWriterNode, LockInv, LockInv', VersionInv, [Next]_vars
    PROVE  VersionInv'
<1> USE DEF LockInv
<1>0. TypeOK /\ TypeOK'
  OBVIOUS
<1>1. \A o \in Object : FromWriter(lock[o], o)'
  <2> SUFFICES ASSUME NEW o \in Object, lock'[o] # lock[o]
               PROVE  FromWriter(lock'[o], o)
    BY DEF VersionInv, WriterStamps, FromWriter
  <2>1. ASSUME NEW t \in Thread, grabLock(t, o)
        PROVE  FromWriter(lock'[o], o)
    <3>1. lock'[o] = SetLockBit(copy[t][o].ts) /\ copy[t][o].ts \in Timestamp(Node)
      BY <2>1 DEF grabLock, TypeOK, Copy
    <3>2. /\ lock'[o].node = copy[t][o].ts.node
          /\ lock'[o].version = copy[t][o].ts.version
      BY <3>1 DEF SetLockBit, Timestamp
    <3> QED
      BY <3>2 DEF VersionInv, WriterStamps, FromWriter
  <2>2. ASSUME NEW t \in Thread, releaseLock(t, o)
        PROVE  FromWriter(lock'[o], o)
    BY <2>2 DEF releaseLock, TypeOK, VersionInv, WriterStamps
  <2>3. ASSUME NEW t \in Thread, releaseLockWithNewClock(t, o)
        PROVE  FromWriter(lock'[o], o)
    <3>1. lock'[o] = ts[t] /\ ts[t].node = nodeOf[t]
      BY <2>3 DEF releaseLockWithNewClock, TypeOK, VersionInv, NewVersions
    <3>2. \A u \in Thread : o \in mayWrite[u] => nodeOf[u] = nodeOf[t]
      BY <2>3, PutVersion DEF OneWriterNode
    <3> QED
      BY <3>1, <3>2 DEF FromWriter
  <2> QED
    BY <1>0, <2>1, <2>2, <2>3, LockFrame
<1>2. ASSUME NEW t \in Thread, NEW o \in Object
      PROVE  /\ FromWriter(copy'[t][o].ts, o)
             /\ Version(t, o)' <= lock'[o].version
  <2>1. CASE copy'[t][o].ts = copy[t][o].ts
    <3>1. Version(t, o) \in Nat /\ lock[o].version \in Nat /\ lock'[o].version \in Nat
      BY <1>0 DEF TypeOK, Copy, Timestamp, Version
    <3>2. Version(t, o) <= lock[o].version /\ FromWriter(copy[t][o].ts, o)
      BY DEF VersionInv, CopiesNotNewer, WriterStamps
    <3> QED
      BY <2>1, <3>1, <3>2, VersionsForward DEF Version
  <2>2. CASE recheckVersion(t, o) /\ StillCurrent(t, o) /\ copy'[t][o].ts = ts[t]
    <3>1. lock'[o] = lock[o] /\ lock[o].version \in Nat
      BY <2>2 DEF recheckVersion, memory, TypeOK, Timestamp
    <3>2. ts[t].version = lock[o].version /\ ts[t].node = lock[o].node
      BY <2>2 DEF StillCurrent, isTimestampsEquivalent
    <3> QED
      BY <2>2, <3>1, <3>2 DEF Version, FromWriter, VersionInv, WriterStamps
  <2>3. CASE copy'[t][o] = EmptyCopy
    <3>1. lock'[o].version \in Nat
      BY <1>0 DEF TypeOK, Timestamp
    <3> QED
      BY <2>3, <3>1 DEF EmptyCopy, InitialTS, FromWriter, Version
  <2> QED
    BY <1>0, <2>1, <2>2, <2>3, StampFrame
<1>3. WritesAllowed'
  BY <1>0, WriteSetFrame DEF VersionInv, WritesAllowed
<1>4. ASSUME NEW t \in Thread, NEW o \in Object, grab'[t][o] = "held"
      PROVE  lock'[o].version = Version(t, o)'
  <2>1. copy'[t][o].ts = copy[t][o].ts
    <3>1. pc'[t] # "idle"
      BY <1>4 DEF RequestsInCommit
    <3>2. ~Clear(t)
      BY <3>1 DEF Clear, TypeOK
    <3>3. ~recheckVersion(t, o)
      <4>1. recheckVersion(t, o) => pc[t] = "recheck" /\ UNCHANGED grab
        BY DEF recheckVersion, request
      <4> QED
        BY <1>4, <4>1 DEF RequestsInCommit
    <3> QED
      BY <1>0, <3>2, <3>3, StampFrame
  <2>2. CASE grab[t][o] # "held"
    <3>1. grabLock(t, o)
      BY <1>0, <1>4, <2>2, HeldFrame
    <3>2. lock'[o] = SetLockBit(copy[t][o].ts) /\ copy[t][o].ts \in Timestamp(Node)
      BY <3>1 DEF grabLock, TypeOK, Copy
    <3> QED
      BY <2>1, <3>2 DEF SetLockBit, Timestamp, Version
  <2>3. CASE grab[t][o] = "held"
    <3>1. lock[o].version = Version(t, o)
      BY <2>3 DEF VersionInv, HeldVersions
    <3>2. \A u \in Thread : ~releaseLockWithNewClock(u, o)
      <4> SUFFICES ASSUME NEW u \in Thread, releaseLockWithNewClock(u, o)
                   PROVE  FALSE
        OBVIOUS
      <4>1. u = t
        BY <2>3, PutVersion DEF LockOwnership
      <4> QED
        BY <1>4, <4>1 DEF releaseLockWithNewClock, TypeOK
    <3> QED
      BY <2>1, <3>1, <3>2, VersionsForward DEF Version
  <2> QED
    BY <2>2, <2>3
<1>5. ASSUME NEW t \in Thread, NEW o \in Object
      PROVE  \/ Version(t, o)' <= clock'[nodeOf[t]]
             \/ pc'[t] = "increaseClock" /\ Version(t, o)' <= ts'[t].version
  <2>1. /\ Version(t, o) \in Nat /\ nodeOf[t] \in Node /\ ts[t].version \in Nat
        /\ clock[nodeOf[t]] \in Nat /\ clock'[nodeOf[t]] \in Nat
    BY <1>0, ThreadAssumption DEF TypeOK, Copy, Timestamp, Version
  <2>2. clock'[nodeOf[t]] >= clock[nodeOf[t]]
    BY <1>0, <2>1, ClockFrame
  <2>3. CASE copy'[t][o].ts = copy[t][o].ts
    <3>1. Version(t, o)' = Version(t, o)
      BY <2>3 DEF Version
    <3>2. CASE Version(t, o) <= clock[nodeOf[t]]
      BY <2>1, <2>2, <3>1, <3>2
    <3>3. CASE pc[t] = "increaseClock" /\ Version(t, o) <= ts[t].version
      <4>1. increaseClock(t) => clock'[nodeOf[t]] >= ts[t].version
        BY <2>1 DEF increaseClock, CaughtUp, TypeOK
      <4> QED
        BY <1>0, <2>1, <3>1, <3>3, <4>1, StampingFrame
    <3> QED
      BY <3>2, <3>3 DEF VersionInv, ClockAhead
  <2>4. CASE recheckVersion(t, o) /\ StillCurrent(t, o) /\ copy'[t][o].ts = ts[t]
    BY <2>1, <2>4 DEF recheckVersion, TypeOK, loops, Version
  <2>5. CASE copy'[t][o] = EmptyCopy
    BY <2>1, <2>5 DEF EmptyCopy, InitialTS, Version
  <2> QED
    BY <1>0, <2>3, <2>4, <2>5, StampFrame
<1>6. ASSUME NEW t \in Thread, pc'[t] = "releaseLocksWithNewClock"
      PROVE  /\ ts'[t].node = nodeOf[t]
             /\ \A o \in Object : Version(t, o)' < ts'[t].version
  <2>1. \A o \in Object : copy'[t][o].ts = copy[t][o].ts
    <3>1. ~Clear(t) /\ \A o \in Object : ~(recheckVersion(t, o) /\ StillCurrent(t, o))
      BY <1>6 DEF Clear, recheckVersion, TypeOK
    <3> QED
      BY <1>0, <3>1, StampFrame
  <2>2. CASE getNextClock(t)
    <3>1. /\ pc[t] = "getNextClock"
          /\ ts'[t] = ToTS(nodeOf[t], clock[nodeOf[t]] + 1)
      BY <2>2 DEF getNextClock, TypeOK
    <3>2. ASSUME NEW o \in Object
          PROVE  Version(t, o) < clock[nodeOf[t]] + 1
      <4>1. Version(t, o) \in Nat /\ clock[nodeOf[t]] \in Nat
        BY ThreadAssumption DEF TypeOK, Copy, Timestamp, Version
      <4>2. Version(t, o) <= clock[nodeOf[t]]
        BY <3>1 DEF VersionInv, ClockAhead
      <4> QED
        BY <4>1, <4>2
    <3> QED
      BY <2>1, <3>1, <3>2 DEF ToTS, Version
  <2>3. CASE pc'[t] = pc[t] /\ ts'[t] = ts[t]
    BY <1>6, <2>1, <2>3 DEF VersionInv, NewVersions, Version
  <2> QED
    BY <1>0, <1>6, <2>2, <2>3, StampingFrame
<1>7. LoopsInBounds'
  BY <1>0, LoopsStep DEF VersionInv
<1> QED
  BY <1>1, <1>2, <1>3, <1>4, <1>5, <1>6, <1>7
     DEF VersionInv, WriterStamps, CopiesNotNewer, HeldVersions, ClockAhead,
         NewVersions

\* Versions start at 0, with nothing copied or locked.
LEMMA VersionInit == Init => VersionInv
  BY NodeAssumption, ThreadAssumption
     DEF Init, VersionInv, WriterStamps, FromWriter, WritesAllowed,
         CopiesNotNewer, HeldVersions, ClockAhead, NewVersions, Version,
         EmptyCopy, InitialTS, LoopsInBounds, LoopBounds, Reading

\* No copy is newer than its object, a lock is granted for the version the
\* object has, and a commit puts a newer one, in every execution in which
\* each object is written from one node.
THEOREM VersionInvariant ==
    ASSUME OneWriterNode
    PROVE  Spec => [](LockInv /\ VersionInv)
<1>1. Init => LockInv /\ VersionInv
  BY LockInit, VersionInit
<1>2. LockInv /\ VersionInv /\ [Next]_vars => (LockInv /\ VersionInv)'
  BY LockStep, VersionStep
<1> QED
  BY <1>1, <1>2, PTL DEF Spec

\* The version of an object never goes back and its block changes only under
\* its lock, if each object is written from one node.
THEOREM VersionsOnlyGrow ==
    ASSUME OneWriterNode
    PROVE  Spec => VersionsGrow
<1> DEFINE A == \A o \in Object :
                   /\ lock'[o].version >= lock[o].version
                   /\ mem'[o] # mem[o] => LOCKBIT_TS(lock[o])
<1>1. LockInv /\ VersionInv /\ [Next]_vars => A
  <2> SUFFICES ASSUME LockInv, VersionInv, [Next]_vars, NEW o \in Object
               PROVE  /\ lock'[o].version >= lock[o].version
                      /\ mem'[o] # mem[o] => LOCKBIT_TS(lock[o])
    OBVIOUS
  <2>1. TypeOK /\ TypeOK'
    BY TypeStep DEF LockInv
  <2>2. ASSUME mem'[o] # mem[o]
        PROVE  LOCKBIT_TS(lock[o])
    <3>1. PICK w \in Word : mem'[o][w] # mem[o][w]
      BY <2>1, <2>2 DEF TypeOK, Block
    <3>2. PICK t \in Thread : commitWriteSetValues(t, o, w)
      BY <2>1, <3>1, BlockFrame
    <3> QED
      BY <3>2, PutLocked DEF VersionInv
  <2> QED
    BY <2>2, VersionsForward
<1> QED
  BY <1>1, VersionInvariant, PTL DEF Spec, VersionsGrow

-----------------------------------------------------------------------------
(* Contents. *)

\* t has recorded its commit and not yet put the new version of o.
Writing(t, o) == pc[t] \in Updating /\ grab[t][o] = "held"

Stable(o) == \A t \in Thread : ~Writing(t, o)

\* What readCell has loaded is the block, as long as the version is the same.
LoadsCurrent ==
    \A t \in Thread : pc[t] \in {"loadData", "recheck"} => \A o \in todo[t] :
        /\ ts[t].version <= lock[o].version
        /\ ts[t].version = lock[o].version /\ Stable(o) =>
             \A w \in Word :
                <<o, w>> \notin left[t] => copy[t][o].val[w] = mem[o][w]

\* So is a complete copy, and it is the content one transaction left.
CopiesCurrent ==
    \A t \in Thread : \A o \in Complete(t) :
        Version(t, o) = lock[o].version /\ Stable(o) =>
            \A w \in Word : copy[t][o].val[w] = mem[o][w]

CopiesWhole ==
    \A t \in Thread : \A o \in Complete(t) :
        \A w, x \in Word : copy[t][o].val[w] = copy[t][o].val[x]

BlocksWhole ==
    \A o \in Object : Stable(o) => \A w, x \in Word : mem[o][w] = mem[o][x]

\* The pieces a commit has put are the committing transaction's.
BlocksPut ==
    \A t \in Thread, o \in Object : Writing(t, o) =>
        \A w \in Word : <<o, w>> \notin left[t] => mem[o][w] = Me(t)

ContentInv == /\ LoadsCurrent /\ CopiesCurrent /\ CopiesWhole
              /\ BlocksWhole /\ BlocksPut

\* An unlocked object is stable.
LEMMA UnlockedStable ==
    ASSUME LockInv, NEW o \in Object, ~LOCKBIT_TS(lock[o])
    PROVE  Stable(o)
  BY DEF LockInv, LockOwnership, Stable, Writing

\* An object stops being written when its new version is put.
LEMMA WritingEnds ==
    ASSUME LockInv, [Next]_vars, NEW t \in Thread, NEW o \in Object,
           Writing(t, o), ~Writing(t, o)'
    PROVE  releaseLockWithNewClock(t, o)
<1>1. TypeOK
  BY DEF LockInv
<1>2. pc[t] \in Updating /\ grab[t][o] = "held"
  BY DEF Writing
<1>3. ~committed(t)
  BY <1>2 DEF committed, LockInv, LocksLeft
<1>4. pc'[t] \in Updating
  BY <1>1, <1>2, <1>3, UpdatingFrame
<1>5. grab'[t][o] # "held"
  BY <1>4 DEF Writing
<1>6. ~releaseLock(t, o)
  BY <1>2 DEF releaseLock, Updating
<1> QED
  BY <1>1, <1>2, <1>5, <1>6, HeldFrame

\* An object starts to be written, all of it, when the commit is recorded.
LEMMA WritingStarts ==
    ASSUME LockInv, [Next]_vars, NEW t \in Thread, NEW o \in Object,
           ~Writing(t, o), Writing(t, o)'
    PROVE  validatedAll(t) /\ grab[t][o] = "held" /\ o \in write_set[t]
<1>1. TypeOK
  BY DEF LockInv
<1>2. pc'[t] \in Updating /\ grab'[t][o] = "held"
  BY DEF Writing
<1>3. ~grabLock(t, o)
  BY <1>1, <1>2 DEF grabLock, LockInv, RepliesAwaited, Updating
<1>4. grab[t][o] = "held"
  BY <1>1, <1>2, <1>3, HeldFrame
<1>5. pc[t] \notin Updating
  BY <1>4 DEF Writing
<1> QED
  BY <1>1, <1>2, <1>4, <1>5, UpdatingFrame DEF LockInv, RequestsInCommit

\* While an object is stable its block does not change.
LEMMA StableBlock ==
    ASSUME LockInv, LoopsInBounds, [Next]_vars, NEW o \in Object, Stable(o),
           NEW w \in Word
    PROVE  mem'[o][w] = mem[o][w]
<1>1. TypeOK
  BY DEF LockInv
<1>2. ASSUME NEW t \in Thread
      PROVE  ~commitWriteSetValues(t, o, w)
  <2>1. commitWriteSetValues(t, o, w) => pc[t] \in Updating
    BY DEF commitWriteSetValues, Updating
  <2> QED
    BY <2>1, PutLocked DEF Stable, Writing
<1> QED
  BY <1>1, <1>2, BlockFrame

\* A version that is still there, on a stable object, stands for the same
\* block as before: a version is never put twice.
LEMMA SameVersion ==
    ASSUME OneWriterNode, LockInv, VersionInv, [Next]_vars,
           NEW o \in Object, Stable(o)', lock'[o].version = lock[o].version
    PROVE  Stable(o) /\ \A w \in Word : mem'[o][w] = mem[o][w]
<1>1. ASSUME NEW t \in Thread, releaseLockWithNewClock(t, o)
      PROVE  FALSE
  <2>1. lock'[o] = ts[t]
    BY <1>1 DEF releaseLockWithNewClock, LockInv, TypeOK
  <2>2. ts[t].version > lock[o].version
    BY <1>1, PutVersion
  <2>3. lock[o].version \in Nat /\ ts[t].version \in Nat
    BY DEF LockInv, TypeOK, Timestamp
  <2> QED
    BY <2>1, <2>2, <2>3
<1>2. Stable(o)
  BY <1>1, WritingEnds DEF Stable
<1> QED
  BY <1>2, StableBlock DEF VersionInv

\* A copy that stays complete does not change.
LEMMA CompleteSame ==
    ASSUME TypeOK, LoopsInBounds, [Next]_vars, NEW t \in Thread,
           NEW o \in Complete(t)', o \in Complete(t)
    PROVE  copy'[t][o].ts = copy[t][o].ts /\ copy'[t][o].val = copy[t][o].val
<1>1. o \in Object
  BY DEF TypeOK, Complete, Accessed
<1>2. ~Clear(t)
  BY DEF Clear, Complete, Accessed, TypeOK
<1>3. pc[t] \in Reading => o \notin todo[t]
  BY DEF Complete, Reading
<1>4. ~recheckVersion(t, o)
  BY <1>3 DEF recheckVersion, Reading
<1>5. \A w \in Word : ~loadData(t, o, w)
  BY <1>3 DEF loadData, LoopsInBounds, LoopBounds, Reading
<1> QED
  BY <1>1, <1>2, <1>4, <1>5, StampFrame, ContentFrame

\* ContentInv is inductive, given locks and versions.
LEMMA ContentStep ==
    ASSUME OneWriterNode, LockInv, LockInv', VersionInv, VersionInv',
           ContentInv, [Next]_vars
    PROVE  ContentInv'
<1>0. /\ TypeOK /\ TypeOK' /\ LoopsInBounds /\ LoopsInBounds'
      /\ LoadsCurrent /\ CopiesCurrent /\ CopiesWhole /\ BlocksWhole /\ BlocksPut
  BY DEF LockInv, VersionInv, ContentInv
<1>1. ASSUME NEW o \in Object
      PROVE  /\ lock[o].version \in Nat /\ lock'[o].version \in Nat
             /\ lock[o].version <= lock'[o].version
  BY <1>0, VersionsForward DEF TypeOK, Timestamp
<1>2. LoadsCurrent'
  <2> SUFFICES ASSUME NEW t \in Thread, pc'[t] \in {"loadData", "recheck"},
                      NEW o \in todo'[t]
               PROVE  /\ ts'[t].version <= lock'[o].version
                      /\ ts'[t].version = lock'[o].version /\ Stable(o)' =>
                           \A w \in Word : <<o, w>> \notin left'[t] =>
                               copy'[t][o].val[w] = mem'[o][w]
    BY DEF LoadsCurrent
  <2>1. o \in Object /\ ts[t].version \in Nat
    BY <1>0 DEF TypeOK, Timestamp
  <2>2. ASSUME NEW p \in Object, loadVersion(t, p)
        PROVE  /\ p = o /\ ts'[t].version = lock'[o].version
               /\ \A w \in Word : <<o, w>> \in left'[t]
    <3>1. pc[t] \in Reading /\ p \in todo[t] /\ todo'[t] = todo[t]
      BY <2>2 DEF loadVersion, Reading
    <3>2. p = o
      BY <1>0, <3>1 DEF LoopsInBounds, LoopBounds
    <3> QED
      BY <1>0, <2>2, <3>2 DEF loadVersion, memory, TypeOK
  <2>3. CASE \E p \in Object : loadVersion(t, p)
    BY <1>1, <2>1, <2>2, <2>3
  <2>4. ASSUME ts'[t] = ts[t], todo'[t] = todo[t],
               pc[t] \in {"loadData", "recheck"},
               \A w \in Word : <<o, w>> \notin left'[t] =>
                    \/ /\ <<o, w>> \notin left[t]
                       /\ copy'[t][o].val[w] = copy[t][o].val[w]
                    \/ copy'[t][o].val[w] = mem'[o][w]
        PROVE  /\ ts'[t].version <= lock'[o].version
               /\ ts'[t].version = lock'[o].version /\ Stable(o)' =>
                    \A w \in Word : <<o, w>> \notin left'[t] =>
                        copy'[t][o].val[w] = mem'[o][w]
    <3>1. ts[t].version <= lock[o].version
      BY <1>0, <2>4 DEF LoadsCurrent
    <3>2. ASSUME ts'[t].version = lock'[o].version, Stable(o)', NEW w \in Word,
                 <<o, w>> \notin left'[t]
          PROVE  copy'[t][o].val[w] = mem'[o][w]
      <4>1. lock'[o].version = lock[o].version
        BY <1>1, <2>1, <2>4, <3>1, <3>2
      <4>2. Stable(o) /\ mem'[o][w] = mem[o][w]
        BY <2>1, <3>2, <4>1, SameVersion
      <4> QED
        BY <1>0, <2>4, <3>2, <4>1, <4>2 DEF LoadsCurrent
    <3> QED
      BY <1>1, <2>1, <2>4, <3>1, <3>2
  <2>5. ASSUME NEW p \in Object, NEW x \in Word, loadData(t, p, x)
        PROVE  \A w \in Word : <<o, w>> \notin left'[t] =>
                    \/ /\ <<o, w>> \notin left[t]
                       /\ copy'[t][o].val[w] = copy[t][o].val[w]
                    \/ copy'[t][o].val[w] = mem'[o][w]
    <3>1. /\ copy \in [Thread -> [Object -> Copy]] /\ copy[t][o] \in Copy
          /\ copy' = [copy EXCEPT ![t][p].val[x] = mem[p][x]]
          /\ left'[t] = left[t] \ {<<p, x>>} /\ mem' = mem
      BY <1>0, <2>1, <2>5 DEF loadData, TypeOK, memory
    <3>2. ASSUME NEW w \in Word
          PROVE  copy'[t][o].val[w] = IF o = p /\ w = x THEN mem[o][w]
                                      ELSE copy[t][o].val[w]
      BY <2>1, <3>1 DEF Copy, Block
    <3> QED
      BY <3>1, <3>2
  <2>6. CASE \E p \in Object, x \in Word : loadData(t, p, x)
    <3>1. ts'[t] = ts[t] /\ todo'[t] = todo[t] /\ pc[t] = "loadData"
      BY <2>6 DEF loadData
    <3> QED
      BY <2>4, <2>5, <2>6, <3>1
  <2>7. CASE /\ pc'[t] = pc[t] /\ todo'[t] = todo[t] /\ left'[t] = left[t]
             /\ ts'[t] = ts[t]
             /\ \A p \in Object, x \in Word : ~loadData(t, p, x)
    <3>1. ~Clear(t)
      BY <1>0 DEF Clear, TypeOK
    <3>2. copy'[t][o].val = copy[t][o].val
      BY <1>0, <2>1, <2>7, <3>1, ContentFrame
    <3> QED
      BY <2>4, <2>7, <3>2
  <2> QED
    BY <1>0, <2>3, <2>6, <2>7, ReadingFrame
\* readCell has found the version unchanged: the copy is the block.
<1>3. ASSUME NEW t \in Thread, NEW o \in Object, recheckVersion(t, o),
             StillCurrent(t, o)
      PROVE  /\ Stable(o) /\ mem' = mem
             /\ \A w \in Word : copy'[t][o].val[w] = mem[o][w]
  <2>1. /\ pc[t] = "recheck" /\ o \in todo[t] /\ mem' = mem
        /\ ~LOCKBIT_TS(lock[o]) /\ ts[t].version = lock[o].version
    BY <1>3 DEF recheckVersion, memory, StillCurrent, isTimestampsEquivalent
  <2>2. Stable(o)
    BY <2>1, UnlockedStable
  <2>3. \A w \in Word : copy[t][o].val[w] = mem[o][w]
    <3>1. left[t] = {}
      BY <1>0, <2>1 DEF LoopsInBounds, LoopBounds
    <3> QED
      BY <1>0, <2>1, <2>2, <3>1 DEF LoadsCurrent
  <2>4. copy'[t][o].val = copy[t][o].val
    <3>1. ~Clear(t) /\ \A w \in Word : ~loadData(t, o, w)
      BY <1>0, <1>3 DEF Clear, recheckVersion, loadData, TypeOK
    <3> QED
      BY <1>0, <3>1, ContentFrame
  <2> QED
    BY <2>1, <2>2, <2>3, <2>4
<1>4. CopiesCurrent'
  <2> SUFFICES ASSUME NEW t \in Thread, NEW o \in Complete(t)',
                      Version(t, o)' = lock'[o].version, Stable(o)',
                      NEW w \in Word
               PROVE  copy'[t][o].val[w] = mem'[o][w]
    BY DEF CopiesCurrent
  <2>1. o \in Object
    BY <1>0 DEF TypeOK, Complete, Accessed
  <2>2. CASE o \in Complete(t)
    <3>1. copy'[t][o].ts = copy[t][o].ts /\ copy'[t][o].val = copy[t][o].val
      BY <1>0, <2>2, CompleteSame
    <3>2. Version(t, o) \in Nat /\ Version(t, o) <= lock[o].version
      BY <1>0, <2>1 DEF VersionInv, CopiesNotNewer, TypeOK, Copy, Timestamp,
                        Version
    <3>3. Version(t, o) = lock[o].version /\ lock'[o].version = lock[o].version
      BY <1>1, <2>1, <3>1, <3>2 DEF Version
    <3>4. Stable(o) /\ mem'[o][w] = mem[o][w]
      BY <2>1, <3>3, SameVersion
    <3> QED
      BY <1>0, <2>2, <3>1, <3>3, <3>4 DEF CopiesCurrent
  <2>3. CASE o \notin Complete(t)
    BY <1>0, <1>3, <2>1, <2>3, CompleteFrame
  <2> QED
    BY <2>2, <2>3
<1>5. CopiesWhole'
  <2> SUFFICES ASSUME NEW t \in Thread, NEW o \in Complete(t)',
                      NEW w \in Word, NEW x \in Word
               PROVE  copy'[t][o].val[w] = copy'[t][o].val[x]
    BY DEF CopiesWhole
  <2>1. o \in Object
    BY <1>0 DEF TypeOK, Complete, Accessed
  <2>2. CASE o \in Complete(t)
    BY <1>0, <2>2, CompleteSame DEF CopiesWhole
  <2>3. CASE o \notin Complete(t)
    BY <1>0, <1>3, <2>1, <2>3, CompleteFrame DEF BlocksWhole
  <2> QED
    BY <2>2, <2>3
<1>6. BlocksWhole'
  <2> SUFFICES ASSUME NEW o \in Object, Stable(o)', NEW w \in Word, NEW x \in Word
               PROVE  mem'[o][w] = mem'[o][x]
    BY DEF BlocksWhole
  <2>1. CASE Stable(o)
    BY <1>0, <2>1, StableBlock DEF BlocksWhole
  <2>2. CASE ~Stable(o)
    <3>1. PICK t \in Thread : Writing(t, o) /\ ~Writing(t, o)'
      BY <2>2 DEF Stable
    <3>2. releaseLockWithNewClock(t, o)
      BY <3>1, WritingEnds
    <3>3. mem' = mem /\ left[t] = {}
      BY <1>0, <3>2 DEF releaseLockWithNewClock, LoopsInBounds, LoopBounds
    <3> QED
      BY <1>0, <3>1, <3>3 DEF BlocksPut
  <2> QED
    BY <2>1, <2>2
<1>7. BlocksPut'
  <2> SUFFICES ASSUME NEW t \in Thread, NEW o \in Object, Writing(t, o)',
                      NEW w \in Word, <<o, w>> \notin left'[t]
               PROVE  mem'[o][w] = Me(t)'
    BY DEF BlocksPut
  <2>1. Writing(t, o)
    <3>1. ASSUME validatedAll(t), o \in write_set[t]
          PROVE  FALSE
      BY <1>0, <3>1 DEF validatedAll, TypeOK
    <3> QED
      BY <3>1, WritingStarts
  <2>2. Me(t)' = Me(t)
    <3>1. ~committed(t)
      BY <1>0, <2>1 DEF committed, Writing, LockInv, LocksLeft
    <3> QED
      BY <1>0, <2>1, <3>1, UpdatingFrame DEF Writing, Me
  <2>3. ASSUME NEW u \in Thread, commitWriteSetValues(u, o, w)
        PROVE  mem'[o][w] = Me(t)
    <3>1. u = t
      BY <1>0, <2>1, <2>3, PutLocked DEF Writing, LockInv, LockOwnership
    <3> QED
      BY <1>0, <2>3, <3>1 DEF commitWriteSetValues, TypeOK, Block
  <2>4. CASE <<o, w>> \notin left[t]
    <3>1. mem[o][w] = Me(t)
      BY <1>0, <2>1, <2>4 DEF BlocksPut
    <3> QED
      BY <1>0, <2>2, <2>3, <3>1, BlockFrame
  <2>5. CASE <<o, w>> \in left[t]
    <3>1. PICK p \in Object, x \in Word : commitWriteSetValues(t, p, x)
      BY <1>0, <2>1, <2>5, UpdatingFrame DEF Writing
    <3>2. p = o /\ x = w
      BY <1>0, <2>5, <3>1 DEF commitWriteSetValues, TypeOK
    <3> QED
      BY <2>2, <2>3, <3>1, <3>2
  <2> QED
    BY <2>4, <2>5
<1> QED
  BY <1>2, <1>4, <1>5, <1>6, <1>7 DEF ContentInv

\* Nothing has been written or copied at first.
LEMMA ContentInit == Init => ContentInv
  BY DEF Init, ContentInv, LoadsCurrent, CopiesCurrent, CopiesWhole,
         BlocksWhole, BlocksPut, Complete, Accessed, Writing, Updating

\* Copies are the blocks their versions stand for, in every execution in
\* which each object is written from one node.
THEOREM ContentInvariant ==
    ASSUME OneWriterNode
    PROVE  Spec => [](LockInv /\ VersionInv /\ ContentInv)
<1>1. Init => LockInv /\ VersionInv /\ ContentInv
  BY LockInit, VersionInit, ContentInit
<1>2. LockInv /\ VersionInv /\ ContentInv /\ [Next]_vars
        => (LockInv /\ VersionInv /\ ContentInv)'
  BY LockStep, VersionStep, ContentStep
<1> QED
  BY <1>1, <1>2, PTL DEF Spec

\* The copy readCell ends with is never torn, and while its timestamp is the
\* one at the home node it is the block there, if each object is written
\* from one node.
THEOREM CopiesAuthentic ==
    ASSUME OneWriterNode
    PROVE  Spec => []CopyAuthentic
<1>1. LockInv /\ VersionInv /\ ContentInv => CopyAuthentic
  <2> SUFFICES ASSUME LockInv, VersionInv, ContentInv,
                      NEW t \in Thread, NEW o \in Complete(t)
               PROVE  /\ \A w, x \in Word : copy[t][o].val[w] = copy[t][o].val[x]
                      /\ ~LOCKBIT_TS(lock[o]) =>
                           (isTimestampsEquivalent(lock[o], copy[t][o].ts) =>
                              copy[t][o].val = mem[o])
    BY DEF CopyAuthentic
  <2>1. /\ o \in Object /\ copy[t][o] \in Copy
        /\ copy[t][o].val \in Block /\ mem[o] \in Block
    BY DEF LockInv, TypeOK, Complete, Accessed, Copy
  <2>2. ASSUME ~LOCKBIT_TS(lock[o]),
               isTimestampsEquivalent(lock[o], copy[t][o].ts)
        PROVE  copy[t][o].val = mem[o]
    <3>1. Version(t, o) = lock[o].version /\ Stable(o)
      BY <2>1, <2>2, UnlockedStable DEF isTimestampsEquivalent, Version
    <3>2. \A w \in Word : copy[t][o].val[w] = mem[o][w]
      BY <3>1 DEF ContentInv, CopiesCurrent
    <3> QED
      BY <2>1, <3>2 DEF Block
  <2>3. \A w, x \in Word : copy[t][o].val[w] = copy[t][o].val[x]
    BY DEF ContentInv, CopiesWhole
  <2> QED
    BY <2>2, <2>3
<1> QED
  BY <1>1, ContentInvariant, PTL

-----------------------------------------------------------------------------
(* The order of the commits. *)

\* Among the commits H: those that wrote o, and whether v is what the last of
\* them, or the last one before position p, left in o.
Writers(H, o) == {h \in H : o \in h.writes}

LeftLast(S, v) == IF v = NoAttempt THEN S = {}
                  ELSE \E h \in S : h.tx = v /\ \A g \in S : g.pos <= h.pos

Last(H, o, v) == LeftLast(Writers(H, o), v)

Before(H, o, p) == {h \in Writers(H, o) : h.pos < p}

Positions == /\ \A h \in hist : h.pos < ticket
             /\ \A t \in Thread : pc[t] = "validateAll" => pos[t] < ticket

\* A block holds what the last commit left, where no commit has yet to put.
BlocksLast ==
    \A o \in Object, w \in Word :
        \/ Last(hist, o, mem[o][w])
        \/ \E t \in Thread : /\ pc[t] = "commitWriteSetValues"
                             /\ <<o, w>> \in left[t]

\* A commit that puts its blocks is the last one that wrote them.
CommitsLast ==
    \A t \in Thread : pc[t] = "commitWriteSetValues" =>
        \A o \in write_set[t] : Last(hist, o, Me(t))

\* A commit that overtakes a validation shows in the lock words.
OvertakersShow ==
    \A t \in Thread : pc[t] = "validateAll" =>
        \A o \in Accessed(t) : \A h \in Writers(hist, o) : h.pos >= pos[t] =>
            Version(t, o) < lock[o].version \/ ~Stable(o)

\* What has been validated is what the earlier commits left, and no commit
\* that is still to be recorded can come in between.
ReadsValidated ==
    \A t \in Thread : pc[t] = "validateAll" => \A o \in read_set[t] \ todo[t] :
        /\ \A w \in Word : Current(o, copy[t][o].val[w], pos[t])
        /\ \A u \in Thread : pc[u] = "validateAll" /\ o \in write_set[u] =>
              pos[u] > pos[t]

WritersLater ==
    \A h \in hist : \A o \in h.acc : \A u \in Thread :
        pc[u] = "validateAll" /\ o \in write_set[u] => pos[u] > h.pos

SerialInv == /\ Positions /\ BlocksLast /\ CommitsLast /\ OvertakersShow
             /\ ReadsValidated /\ WritersLater /\ Serializable

\* Current, in terms of the sets above.
LEMMA CurrentBefore ==
    ASSUME NEW o, NEW v, NEW p
    PROVE  Current(o, v, p) <=> LeftLast(Before(hist, o, p), v)
<1>1. Before(hist, o, p) = {h \in hist : o \in h.writes /\ h.pos < p}
  BY DEF Before, Writers
<1> QED
  BY <1>1 DEF Current, LeftLast

\* The record validatedAll makes.
Record(t) == [tx |-> Me(t), pos |-> pos[t], acc |-> Accessed(t),
              seen |-> [o \in Object |-> copy[t][o].val],
              writes |-> write_set[t]]

\* Its fields.
LEMMA RecordFields ==
    ASSUME NEW t \in Thread
    PROVE  /\ Record(t).tx = Me(t) /\ Record(t).pos = pos[t]
           /\ Record(t).acc = Accessed(t) /\ Record(t).writes = write_set[t]
           /\ \A o \in Object : Record(t).seen[o] = copy[t][o].val
  BY DEF Record

\* A commit of another block, or one at a later position, changes nothing.
LEMMA AddedWriters ==
    ASSUME NEW t \in Thread, hist' = hist \cup {Record(t)}, NEW o, NEW p
    PROVE  /\ o \notin write_set[t] => Writers(hist', o) = Writers(hist, o)
           /\ o \in write_set[t] =>
                Writers(hist', o) = Writers(hist, o) \cup {Record(t)}
           /\ o \notin write_set[t] \/ ~(pos[t] < p) =>
                Before(hist', o, p) = Before(hist, o, p)
<1>1. Record(t).writes = write_set[t] /\ Record(t).pos = pos[t]
  BY RecordFields
<1> QED
  BY <1>1 DEF Writers, Before

\* A step records nothing, or the commit of one thread.
LEMMA RecordFrame ==
    ASSUME TypeOK, [Next]_vars, hist' # hist
    PROVE  \E t \in Thread : validatedAll(t) /\ hist' = hist \cup {Record(t)}
  BY HistFrame DEF validatedAll, Record

\* On a stable object all commits have been put.
LEMMA StableLast ==
    ASSUME LockInv, LoopsInBounds, BlocksLast, NEW o \in Object, Stable(o),
           NEW w \in Word
    PROVE  Last(hist, o, mem[o][w])
<1>1. ASSUME NEW t \in Thread, pc[t] = "commitWriteSetValues",
             <<o, w>> \in left[t]
      PROVE  FALSE
  <2>1. o \in write_set[t]
    BY <1>1 DEF LoopsInBounds, LoopBounds
  <2> QED
    BY <1>1, <2>1 DEF LockInv, LocksComplete, Stable, Writing, Updating
<1> QED
  BY <1>1 DEF BlocksLast

\* A copy with the version of a stable object, during validateAll, is what
\* the commits before the transaction's position left, and there is no other
\* commit of the object.
LEMMA ValidCopy ==
    ASSUME LockInv, VersionInv, ContentInv, SerialInv, NEW t \in Thread,
           pc[t] = "validateAll", NEW o \in Accessed(t),
           Version(t, o) = lock[o].version, Stable(o)
    PROVE  /\ \A h \in Writers(hist, o) : h.pos < pos[t]
           /\ \A w \in Word : Current(o, copy[t][o].val[w], pos[t])
<1>1. o \in Object /\ o \in Complete(t)
  BY DEF LockInv, TypeOK, Accessed, Complete
<1>2. \A h \in Writers(hist, o) : h.pos < pos[t]
  <2>1. lock[o].version \in Nat /\ pos[t] \in Nat
    BY <1>1 DEF LockInv, TypeOK, Timestamp
  <2>2. \A h \in Writers(hist, o) : h.pos \in Nat
    BY DEF LockInv, TypeOK, Commits, Writers
  <2> QED
    BY <2>1, <2>2 DEF SerialInv, OvertakersShow
<1>3. Before(hist, o, pos[t]) = Writers(hist, o)
  BY <1>2 DEF Before
<1>4. ASSUME NEW w \in Word
      PROVE  Current(o, copy[t][o].val[w], pos[t])
  <2>1. copy[t][o].val[w] = mem[o][w]
    BY <1>1 DEF ContentInv, CopiesCurrent
  <2>2. Last(hist, o, mem[o][w])
    BY <1>1, StableLast DEF SerialInv, VersionInv
  <2> QED
    BY <1>3, <2>1, <2>2, CurrentBefore DEF Last
<1> QED
  BY <1>2, <1>4

\* Two transactions that have all their locks write different objects.
LEMMA WritersApart ==
    ASSUME LockInv, NEW t \in Thread, NEW u \in Thread, NEW o \in Object,
           pc[t] \in {"validateAll", "commitWriteSetValues"},
           pc[u] \in {"validateAll", "commitWriteSetValues"},
           o \in write_set[t], o \in write_set[u]
    PROVE  t = u
  BY DEF LockInv, LocksComplete, LockOwnership

\* What a transaction has written and locked is valid.
LEMMA ValidWrites ==
    ASSUME LockInv, VersionInv, ContentInv, SerialInv, NEW t \in Thread,
           pc[t] = "validateAll", NEW o \in write_set[t]
    PROVE  /\ \A h \in Writers(hist, o) : h.pos < pos[t]
           /\ \A w \in Word : Current(o, copy[t][o].val[w], pos[t])
<1>1. o \in Object /\ o \in Accessed(t) /\ grab[t][o] = "held"
  BY DEF LockInv, TypeOK, Accessed, LocksComplete
<1>2. Stable(o)
  BY <1>1 DEF LockInv, LockOwnership, Stable, Writing, Updating
<1>3. Version(t, o) = lock[o].version
  BY <1>1 DEF VersionInv, HeldVersions
<1> QED
  BY <1>1, <1>2, <1>3, ValidCopy

\* SerialInv is inductive, given locks, versions and contents.
LEMMA SerialStep ==
    ASSUME OneWriterNode, LockInv, LockInv', VersionInv, VersionInv',
           ContentInv, ContentInv', SerialInv, [Next]_vars
    PROVE  SerialInv'
<1>0. /\ TypeOK /\ TypeOK' /\ LoopsInBounds
      /\ Positions /\ BlocksLast /\ CommitsLast /\ OvertakersShow
      /\ ReadsValidated /\ WritersLater /\ Serializable
  BY DEF LockInv, VersionInv, SerialInv
<1>1. /\ ticket \in Nat /\ \A t \in Thread : pos[t] \in Nat
      /\ \A h \in hist : h.pos \in Nat
  BY <1>0 DEF TypeOK, Commits
\* A thread that enters validateAll does it with the highest position.
<1>2. ASSUME NEW t \in Thread, StartValidateAll(t)
      PROVE  /\ pos'[t] = ticket /\ ticket' = ticket + 1 /\ hist' = hist
             /\ todo'[t] = read_set'[t]
  BY <1>0, <1>2 DEF StartValidateAll, TypeOK, sets
<1>3. ASSUME NEW t \in Thread, validatedAll(t)
      PROVE  /\ pc[t] = "validateAll" /\ todo[t] = {}
             /\ pc'[t] # "validateAll" /\ hist' = hist \cup {Record(t)}
             /\ \A u \in Thread : ~StartValidateAll(u)
  <2>1. /\ pc[t] = "validateAll" /\ todo[t] = {} /\ pc'[t] # "validateAll"
        /\ hist' = hist \cup {Record(t)} /\ ticket' = ticket
    BY <1>0, <1>3 DEF validatedAll, Record, TypeOK
  <2> QED
    BY <1>1, <1>2, <2>1
<1>4. Positions'
  <2>1. ticket' \in Nat /\ ticket' >= ticket
    BY <1>0, <1>1, <1>2, TicketFrame DEF TypeOK
  <2>2. ASSUME NEW h \in hist'
        PROVE  h.pos < ticket'
    <3>1. CASE h \in hist
      BY <1>0, <1>1, <2>1, <3>1 DEF Positions
    <3>2. CASE h \notin hist
      <4>1. PICK t \in Thread : validatedAll(t) /\ h = Record(t)
        BY <1>0, <3>2, RecordFrame
      <4> QED
        BY <1>0, <1>1, <1>3, <2>1, <4>1, RecordFields DEF Positions
    <3> QED
      BY <3>1, <3>2
  <2>3. ASSUME NEW t \in Thread, pc'[t] = "validateAll"
        PROVE  pos'[t] < ticket'
    BY <1>0, <1>1, <1>2, <2>1, <2>3, ValidateAllFrame DEF Positions
  <2> QED
    BY <2>2, <2>3 DEF Positions
<1>5. BlocksLast'
  <2> SUFFICES ASSUME NEW o \in Object, NEW w \in Word
               PROVE  \/ Last(hist', o, mem'[o][w])
                      \/ \E t \in Thread : /\ pc'[t] = "commitWriteSetValues"
                                           /\ <<o, w>> \in left'[t]
    BY DEF BlocksLast
  <2>1. ASSUME NEW t \in Thread, commitWriteSetValues(t, o, w)
        PROVE  Last(hist', o, mem'[o][w])
    <3>1. /\ pc[t] = "commitWriteSetValues" /\ o \in write_set[t]
          /\ hist' = hist /\ mem'[o][w] = Me(t)
      BY <1>0, <2>1 DEF commitWriteSetValues, LoopsInBounds, LoopBounds, TypeOK,
                        Block, history
    <3> QED
      BY <1>0, <3>1 DEF CommitsLast
  <2>2. ASSUME \A t \in Thread : ~commitWriteSetValues(t, o, w),
               NEW t \in Thread, pc[t] = "commitWriteSetValues",
               <<o, w>> \in left[t]
        PROVE  pc'[t] = "commitWriteSetValues" /\ <<o, w>> \in left'[t]
    <3>1. CASE pc'[t] = pc[t] /\ left'[t] = left[t]
      BY <2>2, <3>1
    <3>2. ASSUME NEW p \in Object, NEW x \in Word, commitWriteSetValues(t, p, x)
          PROVE  pc'[t] = "commitWriteSetValues" /\ <<o, w>> \in left'[t]
      <4>1. <<p, x>> # <<o, w>>
        BY <2>2, <3>2
      <4>2. left'[t] = left[t] \ {<<p, x>>}
        BY <1>0, <3>2 DEF commitWriteSetValues, TypeOK
      <4> QED
        BY <1>0, <2>2, <3>2, <4>1, <4>2 DEF commitWriteSetValues, TypeOK
    <3> QED
      BY <1>0, <2>2, <3>1, <3>2, PuttingFrame
  <2>3. ASSUME mem'[o][w] = mem[o][w], Last(hist, o, mem[o][w]), hist' # hist
        PROVE  \/ Last(hist', o, mem'[o][w])
               \/ \E t \in Thread : /\ pc'[t] = "commitWriteSetValues"
                                    /\ <<o, w>> \in left'[t]
    <3>1. PICK t \in Thread : validatedAll(t) /\ hist' = hist \cup {Record(t)}
      BY <1>0, <2>3, RecordFrame
    <3>2. CASE o \in write_set[t]
      BY <1>0, <3>1, <3>2 DEF validatedAll, TypeOK
    <3>3. CASE o \notin write_set[t]
      BY <2>3, <3>1, <3>3, AddedWriters DEF Last
    <3> QED
      BY <3>2, <3>3
  <2> QED
    BY <1>0, <2>1, <2>2, <2>3, BlockFrame DEF BlocksLast
<1>6. CommitsLast'
  <2> SUFFICES ASSUME NEW t \in Thread, pc'[t] = "commitWriteSetValues",
                      NEW o \in write_set'[t]
               PROVE  Last(hist', o, Me(t)')
    BY DEF CommitsLast
  <2>1. o \in write_set[t] /\ o \in Object /\ Me(t)' = Me(t)
    BY <1>0, PuttingFrame DEF Me, TypeOK
  <2>2. CASE validatedAll(t)
    <3>1. \A h \in Writers(hist, o) : h.pos < pos[t]
      BY <1>3, <2>1, <2>2, ValidWrites
    <3>2. Writers(hist', o) = Writers(hist, o) \cup {Record(t)}
      BY <1>3, <2>1, <2>2, AddedWriters
    <3>3. \A g \in Writers(hist, o) : g.pos \in Nat
      BY <1>1 DEF Writers
    <3>4. \A g \in Writers(hist', o) : g.pos <= Record(t).pos
      BY <1>1, <3>1, <3>2, <3>3, RecordFields
    <3>5. Me(t) # NoAttempt
      BY <1>0, NoAttemptAssumption DEF Me, TypeOK
    <3> QED
      BY <2>1, <3>2, <3>4, <3>5, RecordFields DEF Last, LeftLast
  <2>3. CASE pc[t] = pc'[t]
    <3>1. Last(hist, o, Me(t))
      BY <1>0, <2>1, <2>3 DEF CommitsLast
    <3>2. ASSUME hist' # hist
          PROVE  Writers(hist', o) = Writers(hist, o)
      <4>1. PICK u \in Thread : validatedAll(u) /\ hist' = hist \cup {Record(u)}
        BY <1>0, <3>2, RecordFrame
      <4>2. o \notin write_set[u]
        BY <1>3, <2>1, <2>3, <4>1, WritersApart
      <4> QED
        BY <4>1, <4>2, AddedWriters
    <3> QED
      BY <2>1, <3>1, <3>2 DEF Last
  <2> QED
    BY <1>0, <2>2, <2>3, PuttingFrame
\* A thread that stays in validateAll keeps its copies.
<1>7. ASSUME NEW t \in Thread, pc[t] = "validateAll", pc'[t] = "validateAll",
             NEW o \in Accessed(t), o \in Accessed(t)'
      PROVE  Version(t, o)' = Version(t, o) /\ copy'[t][o].val = copy[t][o].val
  BY <1>0, <1>7, CompleteSame DEF Complete, Version
<1>8. OvertakersShow'
  <2> SUFFICES ASSUME NEW t \in Thread, pc'[t] = "validateAll",
                      NEW o \in Accessed(t)', NEW h \in Writers(hist', o),
                      h.pos >= pos'[t]
               PROVE  Version(t, o)' < lock'[o].version \/ ~Stable(o)'
    BY DEF OvertakersShow
  <2>1. o \in Object /\ h \in hist' /\ o \in h.writes
    BY <1>0 DEF Writers, Accessed, TypeOK
  <2>2. ~StartValidateAll(t)
    BY <1>0, <1>1, <1>2, <2>1 DEF Positions
  <2>3. /\ pc[t] = "validateAll" /\ o \in Accessed(t) /\ pos'[t] = pos[t]
        /\ Version(t, o)' = Version(t, o)
    <3>1. /\ pc[t] = "validateAll" /\ o \in Accessed(t) /\ pos'[t] = pos[t]
      BY <1>0, <2>2, ValidateAllFrame DEF Accessed
    <3> QED
      BY <1>7, <3>1
  <2>4. /\ lock[o].version \in Nat /\ lock'[o].version \in Nat
        /\ lock'[o].version >= lock[o].version
        /\ Version(t, o) \in Nat /\ Version(t, o) <= lock[o].version
    <3>1. lock[o].version \in Nat /\ lock'[o].version \in Nat /\ Version(t, o) \in Nat
      BY <1>0, <2>1 DEF TypeOK, Timestamp, Copy, Version
    <3>2. lock'[o].version >= lock[o].version
      BY <2>1, VersionsForward
    <3> QED
      BY <2>1, <3>1, <3>2 DEF VersionInv, CopiesNotNewer
  <2>5. CASE h \in hist
    <3>1. Version(t, o) < lock[o].version \/ ~Stable(o)
      BY <1>0, <2>1, <2>3, <2>5 DEF OvertakersShow, Writers
    <3>2. CASE Version(t, o) < lock[o].version
      BY <2>3, <2>4, <3>2
    <3>3. ASSUME NEW u \in Thread, Writing(u, o), ~Writing(u, o)'
          PROVE  Version(t, o)' < lock'[o].version
      <4>1. releaseLockWithNewClock(u, o)
        BY <2>1, <3>3, WritingEnds
      <4>2. lock'[o] = ts[u] /\ ts[u].version > lock[o].version
        BY <1>0, <2>1, <4>1, PutVersion DEF releaseLockWithNewClock, TypeOK
      <4> QED
        BY <2>3, <2>4, <4>2
    <3> QED
      BY <3>1, <3>2, <3>3 DEF Stable
  <2>6. CASE h \notin hist
    <3>1. PICK u \in Thread : validatedAll(u) /\ h = Record(u)
      BY <1>0, <2>1, <2>6, RecordFrame
    <3>2. o \in write_set[u] /\ pc[u] = "validateAll" /\ grab[u][o] = "held"
      BY <1>3, <2>1, <3>1, RecordFields DEF LockInv, LocksComplete
    <3>3. Writing(u, o)'
      BY <1>0, <3>1, <3>2 DEF validatedAll, TypeOK, Writing, Updating, request
    <3> QED
      BY <3>3 DEF Stable
  <2> QED
    BY <2>5, <2>6
\* A transaction between its position and its record keeps its place.
<1>9. ASSUME NEW u \in Thread, NEW o \in write_set'[u], pc'[u] = "validateAll",
             NEW p \in Nat, p < ticket,
             pc[u] = "validateAll" /\ o \in write_set[u] => pos[u] > p
      PROVE  pos'[u] > p
  BY <1>0, <1>1, <1>2, <1>9, ValidateAllFrame
<1>10. ReadsValidated'
  <2> SUFFICES ASSUME NEW t \in Thread, pc'[t] = "validateAll",
                      NEW o \in read_set'[t] \ todo'[t]
               PROVE  /\ \A w \in Word : Current(o, copy[t][o].val[w], pos[t])'
                      /\ \A u \in Thread :
                            pc'[u] = "validateAll" /\ o \in write_set'[u] =>
                                pos'[u] > pos'[t]
    BY DEF ReadsValidated
  <2>1. ~StartValidateAll(t)
    BY <1>2
  <2>2. /\ pc[t] = "validateAll" /\ o \in read_set[t] /\ pos'[t] = pos[t]
        /\ o \in Accessed(t) /\ o \in Accessed(t)' /\ o \in Object
        /\ copy'[t][o].val = copy[t][o].val
    <3>1. /\ pc[t] = "validateAll" /\ o \in read_set[t] /\ pos'[t] = pos[t]
          /\ o \in Accessed(t) /\ o \in Accessed(t)' /\ o \in Object
      BY <1>0, <2>1, ValidateAllFrame DEF Accessed, TypeOK
    <3> QED
      BY <1>7, <3>1
  <2>3. CASE o \notin todo[t]
    <3>1. /\ \A w \in Word : Current(o, copy[t][o].val[w], pos[t])
          /\ \A u \in Thread : pc[u] = "validateAll" /\ o \in write_set[u] =>
                pos[u] > pos[t]
      BY <1>0, <2>2, <2>3 DEF ReadsValidated
    <3>2. Before(hist', o, pos[t]) = Before(hist, o, pos[t])
      <4>1. ASSUME NEW u \in Thread, validatedAll(u)
            PROVE  Before(hist', o, pos[t]) = Before(hist, o, pos[t])
        <5>1. o \notin write_set[u] \/ ~(pos[u] < pos[t])
          BY <1>1, <1>3, <3>1, <4>1
        <5> QED
          BY <1>3, <4>1, <5>1, AddedWriters
      <4> QED
        BY <1>0, <4>1, RecordFrame
    <3>3. ASSUME NEW w \in Word
          PROVE  Current(o, copy[t][o].val[w], pos[t])'
      <4>1. LeftLast(Before(hist, o, pos[t]), copy[t][o].val[w])
        BY <3>1, CurrentBefore
      <4>2. LeftLast(Before(hist', o, pos'[t]), copy'[t][o].val[w])
        BY <2>2, <3>2, <4>1
      <4> QED
        BY <4>2 DEF Current, LeftLast, Before, Writers
    <3>4. ASSUME NEW u \in Thread, pc'[u] = "validateAll", o \in write_set'[u]
          PROVE  pos'[u] > pos'[t]
      BY <1>0, <1>1, <1>9, <2>2, <3>1, <3>4 DEF Positions
    <3> QED
      BY <3>3, <3>4
  <2>4. CASE o \in todo[t]
    <3>1. validateAll(t, o)
      <4>1. PICK p \in Object : validateAll(t, p)
        BY <1>0, <2>1, <2>4, ValidateAllFrame
      <4>2. p = o
        BY <1>0, <2>4, <4>1 DEF validateAll, TypeOK
      <4> QED
        BY <4>1, <4>2
    <3>2. /\ ~LOCKBIT_TS(lock[o]) /\ ~(lock[o].version > Version(t, o))
          /\ hist' = hist /\ UNCHANGED <<pc, pos, write_set>>
      BY <3>1 DEF validateAll, Changed, isTimestampGreater, Version, history, sets
    <3>3. Version(t, o) = lock[o].version
      <4>1. /\ lock[o].version \in Nat /\ Version(t, o) \in Nat
            /\ Version(t, o) <= lock[o].version
        BY <1>0, <2>2 DEF TypeOK, Timestamp, Copy, Version, VersionInv,
                          CopiesNotNewer
      <4> QED
        BY <3>2, <4>1
    <3>4. \A w \in Word : Current(o, copy[t][o].val[w], pos[t])
      BY <2>2, <3>2, <3>3, UnlockedStable, ValidCopy
    <3>5. \A w \in Word : Current(o, copy[t][o].val[w], pos[t])'
      BY <2>2, <3>2, <3>4 DEF Current
    <3>6. \A u \in Thread : ~(pc[u] = "validateAll" /\ o \in write_set[u])
      BY <2>2, <3>2 DEF LockInv, LocksComplete, LockOwnership
    <3> QED
      BY <3>2, <3>5, <3>6
  <2> QED
    BY <2>3, <2>4
<1>11. WritersLater'
  <2> SUFFICES ASSUME NEW h \in hist', NEW o \in h.acc, NEW u \in Thread,
                      pc'[u] = "validateAll", o \in write_set'[u]
               PROVE  pos'[u] > h.pos
    BY DEF WritersLater
  <2>1. CASE h \in hist
    BY <1>0, <1>1, <1>9, <2>1 DEF WritersLater, Positions
  <2>2. CASE h \notin hist
    <3>1. PICK t \in Thread : validatedAll(t) /\ h = Record(t)
      BY <1>0, <2>2, RecordFrame
    <3>2. /\ pc[t] = "validateAll" /\ todo[t] = {} /\ u # t
          /\ o \in read_set[t] \cup write_set[t]
      BY <1>3, <3>1, RecordFields DEF Accessed
    <3>3. /\ pc[u] = "validateAll" /\ o \in write_set[u] /\ pos'[u] = pos[u]
          /\ o \in Object
      BY <1>0, <1>3, <3>1, ValidateAllFrame DEF TypeOK
    <3>4. CASE o \in write_set[t]
      BY <3>2, <3>3, <3>4, WritersApart
    <3>5. CASE o \in read_set[t]
      BY <1>0, <3>1, <3>2, <3>3, <3>5, RecordFields DEF ReadsValidated
    <3> QED
      BY <3>2, <3>4, <3>5
  <2> QED
    BY <2>1, <2>2
<1>12. Serializable'
  <2> SUFFICES ASSUME NEW h \in hist', NEW o \in h.acc, NEW w \in Word
               PROVE  LeftLast(Before(hist', o, h.pos), h.seen[o][w])
    BY DEF Serializable, Current, LeftLast, Before, Writers
  <2>1. CASE h \in hist
    <3>1. LeftLast(Before(hist, o, h.pos), h.seen[o][w])
      BY <1>0, <2>1, CurrentBefore DEF Serializable
    <3>2. ASSUME NEW t \in Thread, validatedAll(t)
          PROVE  Before(hist', o, h.pos) = Before(hist, o, h.pos)
      <4>1. o \notin write_set[t] \/ ~(pos[t] < h.pos)
        BY <1>0, <1>1, <1>3, <2>1, <3>2 DEF WritersLater
      <4> QED
        BY <1>3, <3>2, <4>1, AddedWriters
    <3> QED
      BY <1>0, <3>1, <3>2, RecordFrame
  <2>2. CASE h \notin hist
    <3>1. PICK t \in Thread : validatedAll(t) /\ h = Record(t)
      BY <1>0, <2>2, RecordFrame
    <3>2. /\ pc[t] = "validateAll" /\ todo[t] = {}
          /\ hist' = hist \cup {Record(t)}
          /\ o \in read_set[t] \cup write_set[t] /\ o \in Object
          /\ h.seen[o] = copy[t][o].val /\ h.pos = pos[t]
      BY <1>0, <1>3, <3>1, RecordFields DEF Accessed, TypeOK
    <3>3. Current(o, copy[t][o].val[w], pos[t])
      <4>1. CASE o \in write_set[t]
        BY <3>2, <4>1, ValidWrites
      <4>2. CASE o \in read_set[t]
        BY <1>0, <3>2, <4>2 DEF ReadsValidated
      <4> QED
        BY <3>2, <4>1, <4>2
    <3>4. Before(hist', o, pos[t]) = Before(hist, o, pos[t])
      <4>1. ~(pos[t] < pos[t])
        BY <1>1
      <4> QED
        BY <3>2, <4>1, AddedWriters
    <3> QED
      BY <3>2, <3>3, <3>4, CurrentBefore
  <2> QED
    BY <2>1, <2>2
<1> QED
  BY <1>4, <1>5, <1>6, <1>8, <1>10, <1>11, <1>12 DEF SerialInv

\* No transaction has a position or a record at first.
LEMMA SerialInit == Init => SerialInv
<1> SUFFICES ASSUME Init
             PROVE  SerialInv
  OBVIOUS
<1>1. BlocksLast
  <2>1. \A o \in Object, w \in Word : mem[o][w] = NoAttempt /\ hist = {}
    BY DEF Init
  <2> QED
    BY <2>1 DEF BlocksLast, Last, LeftLast, Writers
<1>2. Serializable /\ Positions /\ WritersLater
  BY DEF Init, Serializable, Positions, WritersLater
<1>3. CommitsLast /\ OvertakersShow /\ ReadsValidated
  BY DEF Init, CommitsLast, OvertakersShow, ReadsValidated
<1> QED
  BY <1>1, <1>2, <1>3 DEF SerialInv

\* The order in which transactions start validateAll explains what each of
\* them saw, at every moment and with commits still under way.
THEOREM SerialInvariant ==
    ASSUME OneWriterNode
    PROVE  Spec => [](LockInv /\ VersionInv /\ ContentInv /\ SerialInv)
<1>1. Init => LockInv /\ VersionInv /\ ContentInv /\ SerialInv
  BY LockInit, VersionInit, ContentInit, SerialInit
<1>2. LockInv /\ VersionInv /\ ContentInv /\ SerialInv /\ [Next]_vars
        => (LockInv /\ VersionInv /\ ContentInv /\ SerialInv)'
  BY LockStep, VersionStep, ContentStep, SerialStep
<1> QED
  BY <1>1, <1>2, PTL DEF Spec

\* The committed transactions are serializable in the order in which they
\* started validateAll, for any nodes, threads, objects and access patterns
\* in which each object is written from one node.
THEOREM CommitsSerializable ==
    ASSUME OneWriterNode
    PROVE  Spec => []Serializable
<1>1. SerialInv => Serializable
  BY DEF SerialInv
<1> QED
  BY <1>1, SerialInvariant, PTL
=============================================================================
