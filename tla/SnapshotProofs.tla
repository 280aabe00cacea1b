--------------------------- MODULE SnapshotProofs ---------------------------
(***************************************************************************)
(* What a running transaction of DSTMTransaction has read, committed or    *)
(* not.  When all threads run on one node it is one consistent snapshot:   *)
(* the snapshot has a position among the commits, and validate moves it    *)
(* forward when readCell meets a version newer than those validated        *)
(* before.  On any number of nodes it respects cause and effect, if each   *)
(* object is written from one node.                                        *)
(***************************************************************************)
EXTENDS DSTMTransactionProofs

-----------------------------------------------------------------------------
(* Which steps change timestamps, positions and sets. *)

\* The local timestamp is loaded by readCell, drawn by getNextClock, cleared.
LEMMA TimestampFrame ==
    ASSUME TypeOK, [Next]_vars, NEW t \in Thread
    PROVE  \/ ts'[t] = ts[t] \/ ts'[t] = InitialTS
           \/ \E o \in Object : ts'[t] = lock[o]
           \/ getNextClock(t) /\ ts'[t] = ToTS(nodeOf[t], clock[nodeOf[t]] + 1)
<1> DEFINE Goal == \/ ts'[t] = ts[t] \/ ts'[t] = InitialTS
                   \/ \E o \in Object : ts'[t] = lock[o]
                   \/ /\ getNextClock(t)
                      /\ ts'[t] = ToTS(nodeOf[t], clock[nodeOf[t]] + 1)
<1> USE DEF TypeOK, loops, Clear, abort
<1>1. ASSUME Application(t)
      PROVE  Goal
  BY <1>1 DEF Application, begin, invalidAccess, commitReadOnly, commitUpdate,
              StartValidateAll, read, write, writeRead, StartReadCell
<1>2. ASSUME ReadCell(t)
      PROVE  Goal
  BY <1>2 DEF ReadCell, loadVersion, loadData, recheckVersion, cellLocked
<1>3. ASSUME Validate(t)
      PROVE  Goal
  BY <1>3 DEF Validate, increaseClock, validated, validate, validateFails
<1>4. ASSUME GetLocks(t)
      PROVE  Goal
  BY <1>4 DEF GetLocks, requestLocks, locksGranted, StartValidateAll,
              locksRefused, StartReleaseLocks, locksReleased, releaseLock
<1>5. ASSUME WriteBack(t)
      PROVE  Goal
  BY <1>5 DEF WriteBack, validatedAll, getNextClock, committed, validateAll,
              validateAllFails, StartReleaseLocks, releaseLockWithNewClock,
              commitWriteSetValues
<1>6. ASSUME Handler(t)
      PROVE  Goal
  BY <1>6, HandlerFrame
<1>7. ASSUME \/ UNCHANGED vars \/ \E u \in Thread \ {t} : Others(u)
      PROVE  Goal
  BY <1>7 DEF vars, Others
<1> QED
  BY <1>1, <1>2, <1>3, <1>4, <1>5, <1>6, <1>7, StepOf DEF Goal

\* VC is cleared when a transaction begins and set by validate.
LEMMA KnownFrame ==
    ASSUME TypeOK, [Next]_vars, NEW t \in Thread
    PROVE  \/ VC'[t] = VC[t]
           \/ begin(t) /\ VC'[t] = [n \in Node |-> 0]
           \/ validated(t) /\ VC'[t] = [VC[t] EXCEPT ![ts[t].node] = ts[t].version]
<1>1. ASSUME NEW u \in Thread, Application(u)
      PROVE  VC' = VC \/ (begin(u) /\ VC' = [VC EXCEPT ![u] = [n \in Node |-> 0]])
  BY <1>1 DEF Application, begin, invalidAccess, abort, commitReadOnly,
              commitUpdate, StartValidateAll, read, write, writeRead,
              StartReadCell
<1>2. ASSUME NEW u \in Thread, ReadCell(u)
      PROVE  VC' = VC
  BY <1>2 DEF ReadCell, loadVersion, loadData, recheckVersion, cellLocked, abort
<1>3. ASSUME NEW u \in Thread, Validate(u)
      PROVE  VC' = VC \/ validated(u)
  BY <1>3 DEF Validate, increaseClock, validate, validateFails, abort
<1>4. ASSUME NEW u \in Thread, GetLocks(u)
      PROVE  VC' = VC
  BY <1>4 DEF GetLocks, requestLocks, locksGranted, StartValidateAll, abort,
              locksRefused, StartReleaseLocks, locksReleased, releaseLock
<1>5. ASSUME NEW u \in Thread, WriteBack(u)
      PROVE  VC' = VC
  BY <1>5 DEF WriteBack, validatedAll, getNextClock, committed, validateAll,
              validateAllFails, StartReleaseLocks, abort,
              releaseLockWithNewClock, commitWriteSetValues
<1>6. ASSUME NEW u \in Thread, Handler(u)
      PROVE  VC' = VC
  BY <1>6 DEF Handler, loadLock, grabLock, refuseLock, locksRequestProcessed
<1>7. ASSUME NEW u \in Thread, begin(u), VC' = [VC EXCEPT ![u] = [n \in Node |-> 0]]
      PROVE  VC'[t] = VC[t] \/ (begin(t) /\ VC'[t] = [n \in Node |-> 0])
  BY <1>7 DEF TypeOK
<1>8. ASSUME NEW u \in Thread, validated(u)
      PROVE  \/ VC'[t] = VC[t]
             \/ /\ validated(t)
                /\ VC'[t] = [VC[t] EXCEPT ![ts[t].node] = ts[t].version]
  <2>1. /\ VC \in [Thread -> [Node -> Nat]]
        /\ VC' = [VC EXCEPT ![u][ts[u].node] = ts[u].version]
    BY <1>8 DEF validated, TypeOK
  <2> QED
    BY <1>8, <2>1
<1> QED
  BY <1>1, <1>2, <1>3, <1>4, <1>5, <1>6, <1>7, <1>8, StepOf DEF vars

\* A commit keeps its position and its sets while it puts its blocks.
LEMMA PositionFrame ==
    ASSUME TypeOK, [Next]_vars, NEW t \in Thread, pc'[t] \in Updating
    PROVE  /\ pos'[t] = pos[t] /\ attempt'[t] = attempt[t]
           /\ Accessed(t)' = Accessed(t) /\ write_set'[t] = write_set[t]
           /\ copy'[t] = copy[t]
           /\ pc[t] = "validateAll" \/ pc[t] \in Updating
<1> DEFINE Goal == /\ pos'[t] = pos[t] /\ attempt'[t] = attempt[t]
                   /\ Accessed(t)' = Accessed(t) /\ write_set'[t] = write_set[t]
                   /\ copy'[t] = copy[t]
                   /\ pc[t] = "validateAll" \/ pc[t] \in Updating
<1> USE DEF TypeOK, history, sets, Clear, abort, Updating, Accessed
<1>1. ~Application(t)
  BY DEF Application, begin, invalidAccess, commitReadOnly, commitUpdate,
         StartValidateAll, read, write, writeRead, StartReadCell
<1>2. ~ReadCell(t)
  BY DEF ReadCell, loadVersion, loadData, recheckVersion, cellLocked
<1>3. ~Validate(t)
  BY DEF Validate, increaseClock, validated, validate, validateFails
<1>4. ~GetLocks(t)
  BY DEF GetLocks, requestLocks, locksGranted, StartValidateAll,
         locksRefused, StartReleaseLocks, locksReleased, releaseLock
<1>5. ASSUME WriteBack(t)
      PROVE  Goal
  BY <1>5 DEF WriteBack, validatedAll, getNextClock, committed, validateAll,
              validateAllFails, StartReleaseLocks, releaseLockWithNewClock,
              commitWriteSetValues
<1>6. ASSUME Handler(t)
      PROVE  Goal
  BY <1>6, HandlerFrame
<1>7. ASSUME \/ UNCHANGED vars \/ \E u \in Thread \ {t} : Others(u)
      PROVE  Goal
  BY <1>7 DEF vars, Others
<1> QED
  BY <1>1, <1>2, <1>3, <1>4, <1>5, <1>6, <1>7, StepOf DEF Goal

\* An ended transaction stays so until the thread begins the next one.
LEMMA AttemptFrame ==
    ASSUME TypeOK, [Next]_vars, NEW t \in Thread
    PROVE  \/ begin(t)
           \/ attempt'[t] = attempt[t] /\ (pc[t] = "idle" => pc'[t] = "idle")
<1> DEFINE Goal == \/ begin(t)
                   \/ /\ attempt'[t] = attempt[t]
                      /\ pc[t] = "idle" => pc'[t] = "idle"
<1> USE DEF TypeOK, Clear, abort
<1>1. ASSUME Application(t)
      PROVE  Goal
  BY <1>1 DEF Application, invalidAccess, commitReadOnly, commitUpdate,
              StartValidateAll, read, write, writeRead, StartReadCell
<1>2. ASSUME ReadCell(t)
      PROVE  Goal
  BY <1>2 DEF ReadCell, loadVersion, loadData, recheckVersion, cellLocked
<1>3. ASSUME Validate(t)
      PROVE  Goal
  BY <1>3 DEF Validate, increaseClock, validated, validate, validateFails
<1>4. ASSUME GetLocks(t)
      PROVE  Goal
  BY <1>4 DEF GetLocks, requestLocks, locksGranted, StartValidateAll,
              locksRefused, StartReleaseLocks, locksReleased, releaseLock
<1>5. ASSUME WriteBack(t)
      PROVE  Goal
  BY <1>5 DEF WriteBack, validatedAll, getNextClock, committed, validateAll,
              validateAllFails, StartReleaseLocks, releaseLockWithNewClock,
              commitWriteSetValues
<1>6. ASSUME Handler(t)
      PROVE  Goal
  BY <1>6, HandlerFrame
<1>7. ASSUME \/ UNCHANGED vars \/ \E u \in Thread \ {t} : Others(u)
      PROVE  Goal
  BY <1>7 DEF vars, Others
<1> QED
  BY <1>1, <1>2, <1>3, <1>4, <1>5, <1>6, <1>7, StepOf DEF Goal

\* A transaction ends with empty sets.
LEMMA IdleFrame ==
    ASSUME TypeOK, [Next]_vars, NEW t \in Thread, pc'[t] = "idle"
    PROVE  Accessed(t)' = {} \/ (pc[t] = "idle" /\ Accessed(t)' = Accessed(t))
<1> DEFINE Goal == Accessed(t)' = {} \/ (pc[t] = "idle" /\ Accessed(t)' = Accessed(t))
<1>1. CASE Clear(t)
  BY <1>1 DEF Clear, Accessed, TypeOK
<1> USE DEF TypeOK, abort
<1>2. ASSUME Application(t)
      PROVE  Clear(t)
  BY <1>2 DEF Application, begin, invalidAccess, commitReadOnly, commitUpdate,
              StartValidateAll, read, write, writeRead, StartReadCell
<1>3. ASSUME ReadCell(t)
      PROVE  Clear(t)
  BY <1>3 DEF ReadCell, loadVersion, loadData, recheckVersion, cellLocked
<1>4. ASSUME Validate(t)
      PROVE  Clear(t)
  BY <1>4 DEF Validate, increaseClock, validated, validate, validateFails
<1>5. ASSUME GetLocks(t)
      PROVE  Clear(t)
  BY <1>5 DEF GetLocks, requestLocks, locksGranted, StartValidateAll,
              locksRefused, StartReleaseLocks, locksReleased, releaseLock
<1>6. ASSUME WriteBack(t)
      PROVE  Clear(t)
  BY <1>6 DEF WriteBack, validatedAll, getNextClock, committed, validateAll,
              validateAllFails, StartReleaseLocks, releaseLockWithNewClock,
              commitWriteSetValues
<1>7. ASSUME Handler(t)
      PROVE  Goal
  BY <1>7, HandlerFrame DEF sets, Accessed
<1>8. ASSUME \/ UNCHANGED vars \/ \E u \in Thread \ {t} : Others(u)
      PROVE  Goal
  BY <1>8 DEF vars, sets, Others, Accessed
<1> QED
  BY <1>1, <1>2, <1>3, <1>4, <1>5, <1>6, <1>7, <1>8, StepOf DEF Goal

-----------------------------------------------------------------------------
(* Running transactions. *)

\* Where a transaction may still read.
Live == {"active", "loadVersion", "loadData", "recheck", "increaseClock",
         "validate", "getLocks"}

\* Every version was drawn from the clock of its node.
Drawn(s) == s.version <= clock[s.node]

StampsDrawn ==
    /\ \A t \in Thread : /\ Drawn(ts[t])
                         /\ \A n \in Node : VC[t][n] <= clock[n]
                         /\ \A o \in Object : Drawn(copy[t][o].ts)
    /\ \A o \in Object : Drawn(lock[o])

\* readCell met a version newer than those of its node that t has validated.
Ahead(t) == /\ pc[t] \in {"increaseClock", "validate"}
            /\ ts[t].version > VC[t][ts[t].node]

ValidatingAhead ==
    \A t \in Thread : /\ pc[t] = "validate" => Ahead(t)
                      /\ pc[t] = "idle" => Accessed(t) = {}

RunInv == StampsDrawn /\ ValidatingAhead

\* The newest version of node n that t has validated, or is validating.
BoundOf(t, n) == IF Ahead(t) /\ n = ts[t].node THEN ts[t].version ELSE VC[t][n]

\* The copies that validate has still to look at, and the others.
Pending(t) ==
    IF pc[t] = "validate" THEN todo[t] \cap Accessed(t)
    ELSE IF Ahead(t)
         THEN {o \in Accessed(t) : ts[t].version > Version(t, o)} ELSE {}

Checked(t) == IF pc[t] \in Live THEN Complete(t) \ Pending(t) ELSE {}

\* What t has copied and has to check stays as it is.
Kept(t) == /\ Complete(t)' = Complete(t) /\ Pending(t)' = Pending(t)
           /\ Checked(t)' = Checked(t)
           /\ \A n \in Node : BoundOf(t, n)' = BoundOf(t, n)

\* A running transaction reads and validates; other steps, its own and those
\* of other threads, leave its copies, its loops and its clock alone.
LEMMA LiveFrame ==
    ASSUME TypeOK, LoopsInBounds, [Next]_vars, NEW t \in Thread, pc'[t] \in Live
    PROVE  \/ begin(t) \/ increaseClock(t) \/ validated(t)
           \/ \E o \in Object : \/ recheckVersion(t, o) /\ StillCurrent(t, o)
                                \/ validate(t, o)
           \/ /\ pc[t] \in Live \ {"increaseClock", "validate"}
              /\ pc'[t] \in Live \ {"increaseClock", "validate"}
              /\ Complete(t)' = Complete(t)
           \/ /\ pc'[t] = pc[t] /\ ts'[t] = ts[t] /\ todo'[t] = todo[t]
              /\ Accessed(t)' = Accessed(t)
              /\ \A o \in Object : copy'[t][o].ts = copy[t][o].ts
<1> DEFINE Apart == /\ pc[t] \in Live \ {"increaseClock", "validate"}
                    /\ pc'[t] \in Live \ {"increaseClock", "validate"}
                    /\ Complete(t)' = Complete(t)
           Same == /\ pc'[t] = pc[t] /\ ts'[t] = ts[t] /\ todo'[t] = todo[t]
                   /\ Accessed(t)' = Accessed(t) /\ copy'[t] = copy[t]
<1> USE DEF TypeOK, loops, sets, Clear, abort, Live
<1>1. ASSUME Application(t)
      PROVE  begin(t) \/ Apart
  <2>1. ASSUME NEW o \in Object, read(t, o) \/ write(t, o)
        PROVE  Apart
    <3>1. /\ pc[t] = "active" /\ pc'[t] = "loadVersion" /\ todo'[t] = {o}
          /\ o \notin Accessed(t) /\ Accessed(t)' = Accessed(t) \cup {o}
      BY <2>1 DEF read, write, StartReadCell, Accessed
    <3> QED
      BY <3>1 DEF Complete
  <2>2. ASSUME NEW o \in Object, writeRead(t, o)
        PROVE  Apart
    <3>1. pc[t] = "active" /\ pc' = pc /\ Accessed(t)' = Accessed(t)
      BY <2>2 DEF writeRead, Accessed
    <3> QED
      BY <3>1 DEF Complete
  <2>3. ASSUME commitUpdate(t)
        PROVE  Apart
    BY <2>3 DEF commitUpdate, Complete, Accessed
  <2>4. ~invalidAccess(t) /\ ~commitReadOnly(t)
    BY DEF invalidAccess, commitReadOnly, StartValidateAll
  <2> QED
    BY <1>1, <2>1, <2>2, <2>3, <2>4 DEF Application
<1>2. ASSUME NEW o \in Object
      PROVE  /\ ~cellLocked(t, o)
             /\ loadVersion(t, o) => Apart
             /\ recheckVersion(t, o) /\ ~StillCurrent(t, o) => Apart
  BY DEF cellLocked, loadVersion, recheckVersion, Complete, Accessed
<1>3. ASSUME NEW o \in Object, NEW w \in Word, loadData(t, o, w)
      PROVE  Apart
  BY <1>3 DEF loadData, Complete, Accessed
<1>4. ASSUME Validate(t)
      PROVE  \/ increaseClock(t) \/ validated(t)
             \/ \E o \in Object : validate(t, o)
  BY <1>4 DEF Validate, validateFails
<1>5. ASSUME GetLocks(t)
      PROVE  Apart
  BY <1>5 DEF GetLocks, requestLocks, locksGranted, StartValidateAll,
              locksRefused, StartReleaseLocks, locksReleased, releaseLock,
              Complete, Accessed
<1>6. ~WriteBack(t)
  BY DEF WriteBack, validatedAll, getNextClock, committed, validateAll,
         validateAllFails, StartReleaseLocks, releaseLockWithNewClock,
         commitWriteSetValues
<1>7. ASSUME Handler(t)
      PROVE  Same
  BY <1>7, HandlerFrame DEF Accessed
<1>8. ASSUME \/ UNCHANGED vars \/ \E u \in Thread \ {t} : Others(u)
      PROVE  Same
  BY <1>8 DEF vars, Others, Accessed
<1> QED
  BY <1>1, <1>2, <1>3, <1>4, <1>5, <1>6, <1>7, <1>8, StepOf DEF ReadCell

\* A step of a running transaction that copies nothing and checks nothing
\* keeps what there is to check and the versions it knows.
LEMMA LiveStep ==
    ASSUME TypeOK, TypeOK', LoopsInBounds, ValidatingAhead, [Next]_vars,
           NEW t \in Thread, pc'[t] \in Live
    PROVE  \/ begin(t)
           \/ \E o \in Object : \/ recheckVersion(t, o) /\ StillCurrent(t, o)
                                \/ validate(t, o)
           \/ pc[t] \in Live /\ Kept(t)
<1>0. /\ ts[t].version \in Nat /\ ts[t].node \in Node /\ VC[t] \in [Node -> Nat]
  BY DEF TypeOK, Timestamp
<1>1. CASE increaseClock(t)
  <2>1. /\ pc[t] = "increaseClock" /\ VC'[t] = VC[t] /\ copy'[t] = copy[t]
        /\ Accessed(t)' = Accessed(t)
    BY <1>1 DEF increaseClock, sets, Accessed
  <2>2. CASE Ahead(t)
    <3>1. /\ pc'[t] = "validate" /\ ts'[t] = ts[t]
          /\ todo'[t] = {o \in Accessed(t) : ts[t].version > Version(t, o)}
      BY <1>1, <2>2 DEF increaseClock, TypeOK, isTimestampGreater, Version, Ahead
    <3>2. Ahead(t)'
      BY <2>1, <2>2, <3>1 DEF Ahead
    <3>3. Pending(t)' = Pending(t)
      BY <2>1, <2>2, <3>1 DEF Pending
    <3>4. \A n \in Node : BoundOf(t, n)' = BoundOf(t, n)
      BY <2>1, <2>2, <3>1, <3>2 DEF BoundOf
    <3>5. Complete(t)' = Complete(t) /\ pc[t] \in Live /\ pc'[t] \in Live
      BY <2>1, <3>1 DEF Complete, Live
    <3> QED
      BY <3>3, <3>4, <3>5 DEF Kept, Checked
  <2>3. CASE ~Ahead(t)
    <3>1. pc'[t] = "active"
      BY <1>1, <2>1, <2>3 DEF increaseClock, TypeOK, Ahead
    <3>2. Complete(t)' = Complete(t) /\ pc[t] \in Live /\ pc'[t] \in Live
      BY <2>1, <3>1 DEF Complete, Live
    <3>3. Pending(t) = {} /\ Pending(t)' = {} /\ ~Ahead(t)'
      BY <2>1, <2>3, <3>1 DEF Pending, Ahead
    <3>4. \A n \in Node : BoundOf(t, n)' = BoundOf(t, n)
      BY <2>1, <2>3, <3>3 DEF BoundOf
    <3> QED
      BY <3>2, <3>3, <3>4 DEF Kept, Checked
  <2> QED
    BY <2>2, <2>3
<1>2. CASE validated(t)
  <2>1. /\ pc[t] = "validate" /\ todo[t] = {} /\ pc'[t] = "active"
        /\ Accessed(t)' = Accessed(t)
    BY <1>2 DEF validated, sets, Accessed, TypeOK
  <2>2. Ahead(t) /\ ~Ahead(t)'
    BY <2>1 DEF ValidatingAhead, Ahead
  <2>3. VC'[t] = [VC[t] EXCEPT ![ts[t].node] = ts[t].version]
    <3>1. /\ VC \in [Thread -> [Node -> Nat]]
          /\ VC' = [VC EXCEPT ![t][ts[t].node] = ts[t].version]
      BY <1>2 DEF validated, TypeOK
    <3> QED
      BY <3>1
  <2>4. ASSUME NEW n \in Node
        PROVE  BoundOf(t, n)' = BoundOf(t, n)
    BY <1>0, <2>2, <2>3 DEF BoundOf
  <2>5. Pending(t) = {} /\ Pending(t)' = {}
    BY <2>1, <2>2 DEF Pending
  <2>6. Complete(t)' = Complete(t) /\ pc[t] \in Live /\ pc'[t] \in Live
    BY <2>1 DEF Complete, Live
  <2> QED
    BY <2>4, <2>5, <2>6 DEF Kept, Checked
<1>3. ASSUME VC'[t] = VC[t], pc[t] \in Live \ {"increaseClock", "validate"},
             pc'[t] \in Live \ {"increaseClock", "validate"},
             Complete(t)' = Complete(t)
      PROVE  pc[t] \in Live /\ Kept(t)
  <2>1. ~Ahead(t) /\ ~Ahead(t)'
    BY <1>3 DEF Ahead
  <2>2. Pending(t) = {} /\ Pending(t)' = {}
    BY <1>3, <2>1 DEF Pending
  <2>3. \A n \in Node : BoundOf(t, n)' = BoundOf(t, n)
    BY <1>3, <2>1 DEF BoundOf
  <2> QED
    BY <1>3, <2>2, <2>3 DEF Kept, Checked
<1>4. ASSUME VC'[t] = VC[t], pc'[t] = pc[t], ts'[t] = ts[t], todo'[t] = todo[t],
             Accessed(t)' = Accessed(t),
             \A o \in Object : copy'[t][o].ts = copy[t][o].ts
      PROVE  pc[t] \in Live /\ Kept(t)
  <2>1. Ahead(t)' = Ahead(t)
    BY <1>4 DEF Ahead
  <2>2. \A n \in Node : BoundOf(t, n)' = BoundOf(t, n)
    BY <1>4, <2>1 DEF BoundOf
  <2>3. \A o \in Accessed(t) : Version(t, o)' = Version(t, o)
    BY <1>4 DEF Version, Accessed, TypeOK
  <2>4. Pending(t)' = Pending(t)
    BY <1>4, <2>1, <2>3 DEF Pending
  <2>5. Complete(t)' = Complete(t)
    BY <1>4 DEF Complete
  <2> QED
    BY <1>4, <2>2, <2>4, <2>5 DEF Kept, Checked
<1> QED
  BY <1>1, <1>2, <1>3, <1>4, LiveFrame, KnownFrame

\* What readCell ends with: one more complete copy, of the version loaded.
LEMMA CopyTaken ==
    ASSUME TypeOK, LoopsInBounds, [Next]_vars, NEW t \in Thread, NEW o \in Object,
           recheckVersion(t, o), StillCurrent(t, o)
    PROVE  /\ pc[t] = "recheck" /\ pc'[t] = "increaseClock" /\ todo[t] = {o}
           /\ Complete(t) = Accessed(t) \ {o} /\ Complete(t)' = Accessed(t)
           /\ Accessed(t)' = Accessed(t)
           /\ copy'[t][o].ts = ts[t] /\ Version(t, o)' = ts[t].version
           /\ ts'[t] = ts[t] /\ VC'[t] = VC[t] /\ ~Ahead(t) /\ Pending(t) = {}
           /\ ~LOCKBIT_TS(lock[o]) /\ lock[o].version = ts[t].version
           /\ lock[o].node = ts[t].node
           /\ UNCHANGED <<lock, mem, hist, ticket>>
<1>1. /\ pc[t] = "recheck" /\ pc'[t] = "increaseClock" /\ o \in todo[t]
      /\ ts'[t] = ts[t] /\ VC' = VC /\ Accessed(t)' = Accessed(t)
      /\ UNCHANGED <<lock, mem, hist, ticket>>
      /\ ~LOCKBIT_TS(lock[o]) /\ lock[o].version = ts[t].version
      /\ lock[o].node = ts[t].node
  BY DEF recheckVersion, StillCurrent, TypeOK, isTimestampsEquivalent, loops,
         memory, history, Accessed
<1>2. todo[t] = {o}
  BY <1>1 DEF LoopsInBounds, LoopBounds, Reading
<1>3. copy'[t][o].ts = ts[t]
  <2>1. /\ copy \in [Thread -> [Object -> Copy]]
        /\ copy' = [copy EXCEPT ![t][o].ts = ts[t]]
    BY DEF recheckVersion, TypeOK
  <2>2. copy'[t][o] = [copy[t][o] EXCEPT !.ts = ts[t]] /\ copy[t][o] \in Copy
    BY <2>1
  <2> QED
    BY <2>2 DEF Copy
<1>4. ~Ahead(t) /\ Pending(t) = {}
  BY <1>1 DEF Ahead, Pending
<1> QED
  BY <1>1, <1>2, <1>3, <1>4 DEF Complete, Version

\* validate passes one copy that is still current.
LEMMA CopyChecked ==
    ASSUME TypeOK, NEW t \in Thread, NEW o \in Object, validate(t, o)
    PROVE  /\ pc[t] = "validate" /\ pc'[t] = "validate" /\ o \in todo[t]
           /\ todo'[t] = todo[t] \ {o} /\ Accessed(t)' = Accessed(t)
           /\ Complete(t) = Accessed(t) /\ Complete(t)' = Accessed(t)
           /\ Pending(t)' = Pending(t) \ {o}
           /\ \A n : BoundOf(t, n)' = BoundOf(t, n)
           /\ ~LOCKBIT_TS(lock[o]) /\ ~(lock[o].version > Version(t, o))
           /\ UNCHANGED <<lock, mem, hist, ticket, copy, ts, VC>>
<1>1. /\ pc[t] = "validate" /\ pc' = pc /\ o \in todo[t]
      /\ todo'[t] = todo[t] \ {o} /\ Accessed(t)' = Accessed(t)
      /\ ~LOCKBIT_TS(lock[o]) /\ ~(lock[o].version > Version(t, o))
      /\ UNCHANGED <<lock, mem, hist, ticket, copy, ts, VC>>
  BY DEF validate, sets, memory, history, Accessed, Changed, isTimestampGreater,
         Version, NextToValidate, TypeOK
<1>2. Ahead(t)' = Ahead(t)
  BY <1>1 DEF Ahead
<1> QED
  BY <1>1, <1>2 DEF Complete, Pending, BoundOf

\* Versions are drawn from the clocks, copied and put back.
LEMMA StampsDrawnStep ==
    ASSUME LockInv, LockInv', StampsDrawn, [Next]_vars
    PROVE  StampsDrawn'
<1>0. TypeOK /\ TypeOK'
  BY DEF LockInv
<1>1. ASSUME NEW s \in Timestamp(Node), Drawn(s)
      PROVE  s.version <= clock'[s.node]
  <2>1. s.node \in Node /\ s.version \in Nat
    BY DEF Timestamp
  <2>2. /\ clock[s.node] \in Nat /\ clock'[s.node] \in Nat
        /\ clock'[s.node] >= clock[s.node]
    BY <1>0, <2>1, ClockFrame DEF TypeOK
  <2> QED
    BY <1>1, <2>1, <2>2 DEF Drawn
<1>2. /\ InitialTS \in Timestamp(Node) /\ InitialTS.version = 0
      /\ InitialTS.node \in Node /\ clock[0] \in Nat
  BY <1>0, NodeAssumption DEF InitialTS, Timestamp, TypeOK
<1>3. Drawn(InitialTS)
  BY <1>2 DEF Drawn, InitialTS
<1>4. ASSUME NEW t \in Thread
      PROVE  ts'[t].version <= clock'[ts'[t].node]
  <2>1. CASE getNextClock(t) /\ ts'[t] = ToTS(nodeOf[t], clock[nodeOf[t]] + 1)
    <3>1. clock'[nodeOf[t]] = clock[nodeOf[t]] + 1 /\ clock[nodeOf[t]] \in Nat
      BY <1>0, <2>1, ThreadAssumption DEF getNextClock, TypeOK
    <3> QED
      BY <2>1, <3>1 DEF ToTS
  <2>2. CASE ts'[t] = InitialTS
    BY <1>1, <1>2, <1>3, <2>2
  <2>3. CASE ts'[t] = ts[t] \/ \E o \in Object : ts'[t] = lock[o]
    BY <1>0, <1>1, <2>3 DEF StampsDrawn, TypeOK
  <2> QED
    BY <1>0, <2>1, <2>2, <2>3, TimestampFrame
<1>5. ASSUME NEW t \in Thread, NEW n \in Node
      PROVE  VC'[t][n] <= clock'[n]
  <2>1. /\ VC[t] \in [Node -> Nat] /\ clock[n] \in Nat /\ clock'[n] \in Nat
        /\ clock'[n] >= clock[n] /\ VC[t][n] <= clock[n]
        /\ ts[t] \in Timestamp(Node) /\ Drawn(ts[t])
    BY <1>0, ClockFrame DEF TypeOK, StampsDrawn
  <2>2. CASE VC'[t] = VC[t]
    BY <2>1, <2>2
  <2>3. CASE VC'[t] = [m \in Node |-> 0]
    BY <2>1, <2>3
  <2>4. CASE VC'[t] = [VC[t] EXCEPT ![ts[t].node] = ts[t].version]
    <3>1. CASE n = ts[t].node
      BY <1>1, <2>1, <2>4, <3>1
    <3>2. CASE n # ts[t].node
      BY <2>1, <2>4, <3>2
    <3> QED
      BY <3>1, <3>2
  <2> QED
    BY <1>0, <2>2, <2>3, <2>4, KnownFrame
<1>6. ASSUME NEW t \in Thread, NEW o \in Object
      PROVE  copy'[t][o].ts.version <= clock'[copy'[t][o].ts.node]
  <2>1. /\ ts[t] \in Timestamp(Node) /\ copy[t][o].ts \in Timestamp(Node)
        /\ Drawn(ts[t]) /\ Drawn(copy[t][o].ts)
    BY <1>0 DEF TypeOK, Copy, StampsDrawn
  <2>2. \/ copy'[t][o].ts = copy[t][o].ts \/ copy'[t][o].ts = ts[t]
        \/ copy'[t][o].ts = InitialTS
    BY <1>0, StampFrame DEF EmptyCopy
  <2> QED
    BY <1>1, <1>2, <1>3, <2>1, <2>2
<1>7. ASSUME NEW o \in Object
      PROVE  lock'[o].version <= clock'[lock'[o].node]
  <2>1. CASE lock'[o] = lock[o]
    BY <1>0, <1>1, <2>1 DEF TypeOK, StampsDrawn
  <2>2. CASE lock'[o] # lock[o]
    <3>1. PICK u \in Thread : \/ grabLock(u, o) \/ releaseLock(u, o)
                              \/ releaseLockWithNewClock(u, o)
      BY <1>0, <2>2, LockFrame
    <3>2. /\ ts[u] \in Timestamp(Node) /\ copy[u][o].ts \in Timestamp(Node)
          /\ Drawn(ts[u]) /\ Drawn(copy[u][o].ts)
      BY <1>0 DEF TypeOK, Copy, StampsDrawn
    <3>3. \/ lock'[o] = SetLockBit(copy[u][o].ts) \/ lock'[o] = copy[u][o].ts
          \/ lock'[o] = ts[u]
      BY <1>0, <3>1 DEF grabLock, releaseLock, releaseLockWithNewClock, TypeOK
    <3>4. /\ SetLockBit(copy[u][o].ts).version = copy[u][o].ts.version
          /\ SetLockBit(copy[u][o].ts).node = copy[u][o].ts.node
      BY <3>2 DEF SetLockBit, Timestamp
    <3> QED
      BY <1>1, <3>2, <3>3, <3>4
  <2> QED
    BY <2>1, <2>2
<1> QED
  BY <1>4, <1>5, <1>6, <1>7 DEF StampsDrawn, Drawn

\* validate runs on a version newer than those it has validated.
LEMMA ValidatingAheadStep ==
    ASSUME LockInv, LockInv', LoopsInBounds, ValidatingAhead, [Next]_vars
    PROVE  ValidatingAhead'
<1>0. TypeOK /\ TypeOK'
  BY DEF LockInv
<1> SUFFICES ASSUME NEW t \in Thread
             PROVE  /\ pc'[t] = "validate" => Ahead(t)'
                    /\ pc'[t] = "idle" => Accessed(t)' = {}
  BY DEF ValidatingAhead
<1>1. ASSUME pc'[t] = "idle"
      PROVE  Accessed(t)' = {}
  BY <1>0, <1>1, IdleFrame DEF ValidatingAhead
<1>2. ASSUME pc'[t] = "validate"
      PROVE  Ahead(t)'
  <2>1. ~begin(t) /\ ~validated(t)
    BY <1>0, <1>2 DEF begin, validated, TypeOK
  <2>2. VC'[t] = VC[t]
    BY <1>0, <2>1, KnownFrame
  <2>3. CASE increaseClock(t)
    BY <1>0, <1>2, <2>2, <2>3 DEF increaseClock, TypeOK, Ahead
  <2>4. CASE pc[t] = "validate" /\ ts'[t] = ts[t]
    BY <1>2, <2>2, <2>4 DEF ValidatingAhead, Ahead
  <2>5. ASSUME NEW o \in Object
        PROVE  /\ ~recheckVersion(t, o)
               /\ validate(t, o) => pc[t] = "validate" /\ ts'[t] = ts[t]
    BY <1>0, <1>2 DEF recheckVersion, validate, TypeOK
  <2>6. pc'[t] \in Live
    BY <1>2 DEF Live
  <2> QED
    BY <1>0, <1>2, <2>1, <2>3, <2>4, <2>5, <2>6, LiveFrame
<1> QED
  BY <1>1, <1>2

\* RunInv is inductive, and holds at first.
LEMMA RunStep ==
    ASSUME LockInv, LockInv', LoopsInBounds, RunInv, [Next]_vars
    PROVE  RunInv'
  BY StampsDrawnStep, ValidatingAheadStep DEF RunInv

\* Nothing has a version at first.
LEMMA RunInit == Init => RunInv
  BY NodeAssumption
     DEF Init, RunInv, StampsDrawn, Drawn, InitialTS, EmptyCopy,
         ValidatingAhead, Accessed

\* A running transaction knows no version that has not been drawn.
LEMMA BoundDrawn ==
    ASSUME TypeOK, StampsDrawn, NEW t \in Thread, NEW n \in Node
    PROVE  BoundOf(t, n) \in Nat /\ BoundOf(t, n) <= clock[n]
<1>1. ts[t].version \in Nat /\ ts[t].node \in Node /\ VC[t] \in [Node -> Nat]
  BY DEF TypeOK, Timestamp
<1>2. ts[t].version <= clock[ts[t].node] /\ VC[t][n] <= clock[n]
  BY DEF StampsDrawn, Drawn
<1> QED
  BY <1>1, <1>2 DEF BoundOf

-----------------------------------------------------------------------------
(* Snapshots. *)

\* All threads run on one node, whose clock orders all versions.
SameNode == \A t, u \in Thread : nodeOf[t] = nodeOf[u]

\* The newest version t has validated, or is validating.
Bound(t) == BoundOf(t, nodeOf[t])

\* A timestamp of the node.
Ours(s, t) == s.version = 0 \/ s.node = nodeOf[t]

StampsOurs == \A t \in Thread : /\ Ours(ts[t], t)
                                /\ \A o \in Object : /\ Ours(lock[o], t)
                                                     /\ Ours(copy[t][o].ts, t)

\* A commit that puts its blocks has its place behind the earlier writers.
UpdatersLast ==
    /\ ticket >= 1
    /\ \A t \in Thread : pc[t] \in Updating => pos[t] < ticket
    /\ \A t \in Thread, o \in Object : Writing(t, o) =>
          \A h \in Writers(hist, o) : h.pos <= pos[t]

\* What a transaction has copied is not newer than what it validated.
VersionsKnown ==
    \A t \in Thread : pc[t] \in Live =>
        \A o \in Complete(t) : Version(t, o) <= Bound(t)

\* The copies of C are what the commits before position p left, and no commit
\* that is still to be recorded can come before p.
Seen(t, C, p) ==
    \A o \in C : /\ \A w \in Word : Current(o, copy[t][o].val[w], p)
                 /\ \A u \in Thread : pc[u] = "validateAll" /\ o \in write_set[u]
                                        => pos[u] >= p

\* A commit at p or later shows in the lock words of U.
Shown(t, U, p) ==
    \A o \in U : \A h \in Writers(hist, o) :
        h.pos >= p => Version(t, o) < lock[o].version \/ ~Stable(o)

\* The versions up to b are those of the commits before p.
Closed(b, p) ==
    /\ \A o \in Object : Stable(o) /\ lock[o].version <= b =>
          \A h \in Writers(hist, o) : h.pos < p
    /\ \A u \in Thread :
          pc[u] = "releaseLocksWithNewClock" /\ ts[u].version <= b => pos[u] < p

Snapshot(t, p) == /\ Seen(t, Checked(t), p)
                  /\ Shown(t, Pending(t), p)
                  /\ Closed(Bound(t), p)

Snapshots == \A t \in Thread : pc[t] \in Live => \E p \in 1..ticket : Snapshot(t, p)

SnapshotInv == StampsOurs /\ UpdatersLast /\ VersionsKnown /\ Snapshots

\* On one node every object is written from one node.
LEMMA SameNodeWriters == SameNode => OneWriterNode
  BY DEF SameNode, OneWriterNode

\* The timestamps in use stay the node's.
LEMMA StampsOursStep ==
    ASSUME SameNode, LockInv, StampsOurs, [Next]_vars
    PROVE  StampsOurs'
<1>0. TypeOK
  BY DEF LockInv
<1> SUFFICES ASSUME NEW t \in Thread
             PROVE  /\ Ours(ts'[t], t)
                    /\ \A o \in Object : Ours(lock'[o], t) /\ Ours(copy'[t][o].ts, t)
  BY DEF StampsOurs, Ours
<1>1. Ours(InitialTS, t) /\ \A n : Ours(ToTS(nodeOf[t], n), t)
  BY DEF Ours, InitialTS, ToTS
<1>2. Ours(ts[t], t) /\ \A o \in Object : Ours(lock[o], t) /\ Ours(copy[t][o].ts, t)
  BY DEF StampsOurs
<1>3. Ours(ts'[t], t)
  BY <1>0, <1>1, <1>2, TimestampFrame
<1>4. ASSUME NEW o \in Object
      PROVE  Ours(copy'[t][o].ts, t)
  BY <1>0, <1>1, <1>2, StampFrame DEF EmptyCopy
<1>5. ASSUME NEW o \in Object, lock'[o] # lock[o]
      PROVE  Ours(lock'[o], t)
  <2>1. PICK u \in Thread : \/ grabLock(u, o) \/ releaseLock(u, o)
                            \/ releaseLockWithNewClock(u, o)
    BY <1>0, <1>5, LockFrame
  <2>2. copy[u][o].ts \in Timestamp(Node) /\ nodeOf[u] = nodeOf[t]
    BY <1>0 DEF TypeOK, Copy, SameNode
  <2>3. Ours(copy[u][o].ts, t) /\ Ours(ts[u], t)
    BY <2>2 DEF StampsOurs, Ours
  <2>4. \/ lock'[o] = SetLockBit(copy[u][o].ts) \/ lock'[o] = copy[u][o].ts
        \/ lock'[o] = ts[u]
    BY <1>0, <2>1 DEF grabLock, releaseLock, releaseLockWithNewClock, TypeOK
  <2> QED
    BY <2>2, <2>3, <2>4 DEF Ours, SetLockBit, Timestamp
<1> QED
  BY <1>2, <1>3, <1>4, <1>5

\* The version readCell met is bounded by the node's clock.
LEMMA OneBound ==
    ASSUME TypeOK, StampsOurs, NEW t \in Thread
    PROVE  /\ Ahead(t) => ts[t].node = nodeOf[t]
           /\ Bound(t) = IF Ahead(t) THEN ts[t].version ELSE VC[t][nodeOf[t]]
           /\ ts[t].version > VC[t][ts[t].node] \/ ts[t].version <= VC[t][nodeOf[t]]
<1>1. /\ ts[t].version \in Nat /\ ts[t].node \in Node /\ nodeOf[t] \in Node
      /\ VC[t] \in [Node -> Nat]
  BY ThreadAssumption DEF TypeOK, Timestamp
<1>2. ts[t].version = 0 \/ ts[t].node = nodeOf[t]
  BY DEF StampsOurs, Ours
<1>3. Ahead(t) => ts[t].node = nodeOf[t]
  BY <1>1, <1>2 DEF Ahead
<1> QED
  BY <1>1, <1>2, <1>3 DEF Bound, BoundOf

\* A commit is recorded behind the earlier writers of what it wrote.
LEMMA UpdatersLastStep ==
    ASSUME OneWriterNode, LockInv, LockInv', VersionInv, ContentInv, SerialInv,
           UpdatersLast, [Next]_vars
    PROVE  UpdatersLast'
<1>0. TypeOK /\ TypeOK' /\ Positions
  BY DEF LockInv, SerialInv
<1>1. ticket \in Nat /\ ticket' \in Nat /\ ticket' >= ticket
  BY <1>0, TicketFrame DEF TypeOK, StartValidateAll
<1>2. \A h \in hist : h.pos \in Nat
  BY <1>0 DEF TypeOK, Commits
<1>3. ticket' >= 1
  BY <1>1 DEF UpdatersLast
<1>4. ASSUME NEW t \in Thread, pc'[t] \in Updating
      PROVE  pos'[t] < ticket'
  <2>1. pos'[t] = pos[t] /\ pos[t] \in Nat
    BY <1>0, <1>4, PositionFrame DEF TypeOK
  <2>2. pos[t] < ticket
    BY <1>0, <1>4, PositionFrame DEF UpdatersLast, Positions
  <2> QED
    BY <1>1, <2>1, <2>2
<1>5. ASSUME NEW t \in Thread, NEW o \in Object, Writing(t, o)',
             NEW h \in Writers(hist', o)
      PROVE  h.pos <= pos'[t]
  <2>1. pos'[t] = pos[t] /\ pos[t] \in Nat
    BY <1>0, <1>5, PositionFrame DEF TypeOK, Writing
  <2>2. CASE ~Writing(t, o)
    <3>1. validatedAll(t) /\ o \in write_set[t] /\ pc[t] = "validateAll"
      BY <1>5, <2>2, WritingStarts DEF validatedAll
    <3>2. \A g \in Writers(hist, o) : g.pos < pos[t] /\ g.pos \in Nat
      BY <1>2, <3>1, ValidWrites DEF Writers
    <3>3. hist' = hist \cup {Record(t)} /\ Record(t).pos = pos[t]
      BY <3>1, RecordFields DEF validatedAll, Record
    <3> QED
      BY <2>1, <3>2, <3>3 DEF Writers
  <2>3. CASE Writing(t, o)
    <3>1. CASE h \in Writers(hist, o)
      BY <2>1, <2>3, <3>1 DEF UpdatersLast
    <3>2. CASE h \notin Writers(hist, o)
      <4>1. PICK u \in Thread : validatedAll(u) /\ hist' = hist \cup {Record(u)}
        BY <1>0, <3>2, RecordFrame
      <4>2. o \in write_set[u] /\ pc[u] = "validateAll"
        BY <3>2, <4>1, AddedWriters DEF validatedAll
      <4>3. grab[u][o] = "held" /\ grab[t][o] = "held"
        BY <2>3, <4>2 DEF LockInv, LocksComplete, Writing
      <4>4. u = t
        BY <4>3 DEF LockInv, LockOwnership
      <4> QED
        BY <2>3, <4>2, <4>4 DEF Writing, Updating
    <3> QED
      BY <3>1, <3>2
  <2> QED
    BY <2>2, <2>3
<1> QED
  BY <1>3, <1>4, <1>5 DEF UpdatersLast

\* Validated versions stay ahead of the copies.
LEMMA VersionsKnownStep ==
    ASSUME LockInv, LockInv', LoopsInBounds, StampsOurs, StampsOurs',
           ValidatingAhead, VersionsKnown, [Next]_vars
    PROVE  VersionsKnown'
<1>0. TypeOK /\ TypeOK'
  BY DEF LockInv
<1> SUFFICES ASSUME NEW t \in Thread, pc'[t] \in Live, NEW o \in Complete(t)'
             PROVE  Version(t, o)' <= Bound(t)'
  BY DEF VersionsKnown
<1>1. nodeOf[t] \in Node
  BY ThreadAssumption
<1>2. CASE begin(t)
  <2>1. Accessed(t) = {} /\ Accessed(t)' = Accessed(t)
    BY <1>2 DEF ValidatingAhead, begin, sets, Accessed
  <2> QED
    BY <2>1 DEF Complete
<1>3. ASSUME pc[t] \in Live, o \in Complete(t), Bound(t)' = Bound(t)
      PROVE  Version(t, o)' <= Bound(t)'
  BY <1>0, <1>3, CompleteSame DEF VersionsKnown, Version
<1>4. ASSUME NEW p \in Object, recheckVersion(t, p), StillCurrent(t, p)
      PROVE  Version(t, o)' <= Bound(t)'
  <2>0. /\ pc[t] = "recheck" /\ pc'[t] = "increaseClock"
        /\ Complete(t) = Accessed(t) \ {p} /\ Complete(t)' = Accessed(t)
        /\ Version(t, p)' = ts[t].version
        /\ ts'[t] = ts[t] /\ VC'[t] = VC[t] /\ ~Ahead(t)
    BY <1>0, <1>4, CopyTaken
  <2>1. ts[t].version \in Nat /\ VC[t][nodeOf[t]] \in Nat /\ VC[t][ts[t].node] \in Nat
    BY <1>0, <1>1 DEF TypeOK, Timestamp
  <2>2. Bound(t) = VC[t][nodeOf[t]]
    BY <2>0 DEF Bound, BoundOf
  <2>3. /\ Ahead(t)' <=> ts[t].version > VC[t][ts[t].node]
        /\ Ahead(t)' => ts[t].node = nodeOf[t]
    <3>1. Ahead(t)' <=> ts[t].version > VC[t][ts[t].node]
      BY <2>0 DEF Ahead
    <3>2. ts[t].version = 0 \/ ts[t].node = nodeOf[t]
      BY DEF StampsOurs, Ours
    <3> QED
      BY <2>1, <3>1, <3>2
  <2>4. /\ Bound(t)' >= ts[t].version /\ Bound(t)' >= VC[t][nodeOf[t]]
        /\ Bound(t)' \in Nat
    <3>1. CASE Ahead(t)'
      BY <2>0, <2>1, <2>3, <3>1 DEF Bound, BoundOf
    <3>2. CASE ~Ahead(t)'
      BY <1>0, <2>0, <2>1, <2>3, <3>2, OneBound DEF Bound, BoundOf
    <3> QED
      BY <3>1, <3>2
  <2>5. CASE o = p
    BY <2>0, <2>1, <2>4, <2>5
  <2>6. CASE o # p
    <3>1. o \in Complete(t)
      BY <2>0, <2>6
    <3>2. Version(t, o)' = Version(t, o) /\ o \in Object
      BY <1>0, <3>1, CompleteSame DEF Version, Complete, Accessed, TypeOK
    <3>3. Version(t, o) <= VC[t][nodeOf[t]]
      BY <2>0, <2>2, <3>1 DEF VersionsKnown, Live
    <3>4. Version(t, o) \in Nat
      BY <1>0, <3>2 DEF Version, TypeOK, Copy, Timestamp
    <3> QED
      BY <2>1, <2>4, <3>2, <3>3, <3>4
  <2> QED
    BY <2>5, <2>6
<1>5. ASSUME NEW p \in Object, validate(t, p)
      PROVE  pc[t] \in Live /\ o \in Complete(t) /\ Bound(t)' = Bound(t)
  BY <1>0, <1>5, CopyChecked DEF Live, Bound
<1> QED
  BY <1>0, <1>1, <1>2, <1>3, <1>4, <1>5, LiveStep DEF Kept, Bound

\* What has been seen at a position stays so: a commit that is recorded later
\* has a later position.
LEMMA SeenKept ==
    ASSUME LockInv, LockInv', LoopsInBounds, [Next]_vars, NEW t \in Thread,
           NEW C, C \subseteq Complete(t), C \subseteq Complete(t)',
           NEW p \in 1..ticket, Seen(t, C, p)
    PROVE  Seen(t, C, p)'
<1>0. TypeOK /\ TypeOK'
  BY DEF LockInv
<1>1. p \in Nat /\ ticket \in Nat /\ p <= ticket /\ \A u \in Thread : pos[u] \in Nat
  BY <1>0 DEF TypeOK
<1> SUFFICES ASSUME NEW o \in C
             PROVE  /\ \A w \in Word : Current(o, copy[t][o].val[w], p)'
                    /\ \A u \in Thread : pc'[u] = "validateAll" /\ o \in write_set'[u]
                                           => pos'[u] >= p
  BY DEF Seen
<1>2. /\ \A w \in Word : Current(o, copy[t][o].val[w], p)
      /\ \A u \in Thread : pc[u] = "validateAll" /\ o \in write_set[u] => pos[u] >= p
  BY DEF Seen
<1>3. copy'[t][o].val = copy[t][o].val
  BY <1>0, CompleteSame
<1>4. Before(hist', o, p) = Before(hist, o, p)
  <2>1. CASE hist' = hist
    BY <2>1
  <2>2. CASE hist' # hist
    <3>1. PICK u \in Thread : validatedAll(u) /\ hist' = hist \cup {Record(u)}
      BY <1>0, <2>2, RecordFrame
    <3>2. o \notin write_set[u] \/ ~(pos[u] < p)
      BY <1>1, <1>2, <3>1 DEF validatedAll
    <3> QED
      BY <3>1, <3>2, AddedWriters
  <2> QED
    BY <2>1, <2>2
<1>5. ASSUME NEW w \in Word
      PROVE  Current(o, copy[t][o].val[w], p)'
  <2>1. LeftLast(Before(hist, o, p), copy[t][o].val[w])
    BY <1>2, CurrentBefore
  <2>2. LeftLast(Before(hist', o, p), copy'[t][o].val[w])
    BY <1>3, <1>4, <2>1
  <2> QED
    BY <2>2 DEF Current, LeftLast, Before, Writers
<1>6. ASSUME NEW u \in Thread, pc'[u] = "validateAll", o \in write_set'[u]
      PROVE  pos'[u] >= p
  <2>1. CASE StartValidateAll(u)
    BY <1>0, <1>1, <2>1 DEF StartValidateAll, TypeOK
  <2> QED
    BY <1>0, <1>2, <1>6, <2>1, ValidateAllFrame
<1> QED
  BY <1>5, <1>6

\* A later commit goes on showing in the lock words.
LEMMA ShownKept ==
    ASSUME OneWriterNode, LockInv, LockInv', VersionInv, [Next]_vars,
           NEW t \in Thread, NEW U, U \subseteq Complete(t), U \subseteq Complete(t)',
           NEW p \in 1..ticket, Shown(t, U, p)
    PROVE  Shown(t, U, p)'
<1>0. TypeOK /\ TypeOK' /\ LoopsInBounds
  BY DEF LockInv, VersionInv
<1> SUFFICES ASSUME NEW o \in U, NEW h \in Writers(hist', o), h.pos >= p
             PROVE  Version(t, o)' < lock'[o].version \/ ~Stable(o)'
  BY DEF Shown
<1>1. o \in Object /\ Version(t, o)' = Version(t, o)
  BY <1>0, CompleteSame DEF Complete, Accessed, TypeOK, Version
<1>2. /\ lock[o].version \in Nat /\ lock'[o].version \in Nat
      /\ lock'[o].version >= lock[o].version
      /\ Version(t, o) \in Nat /\ Version(t, o) <= lock[o].version
  <2>1. lock[o].version \in Nat /\ lock'[o].version \in Nat /\ Version(t, o) \in Nat
    BY <1>0, <1>1 DEF TypeOK, Timestamp, Copy, Version
  <2>2. lock'[o].version >= lock[o].version
    BY <1>1, VersionsForward
  <2> QED
    BY <1>1, <2>1, <2>2 DEF VersionInv, CopiesNotNewer
<1>3. CASE h \in hist
  <2>1. Version(t, o) < lock[o].version \/ ~Stable(o)
    BY <1>3 DEF Shown, Writers
  <2>2. CASE Version(t, o) < lock[o].version
    BY <1>1, <1>2, <2>2
  <2>3. ASSUME NEW u \in Thread, Writing(u, o), ~Writing(u, o)'
        PROVE  Version(t, o)' < lock'[o].version
    <3>1. releaseLockWithNewClock(u, o)
      BY <1>1, <2>3, WritingEnds
    <3>2. lock'[o] = ts[u] /\ ts[u].version > lock[o].version
      BY <1>0, <1>1, <3>1, PutVersion DEF releaseLockWithNewClock, TypeOK
    <3> QED
      BY <1>1, <1>2, <3>2
  <2> QED
    BY <2>1, <2>2, <2>3 DEF Stable
<1>4. CASE h \notin hist
  <2>1. PICK u \in Thread : validatedAll(u) /\ h = Record(u)
    BY <1>0, <1>4, RecordFrame DEF Writers
  <2>2. o \in write_set[u] /\ pc[u] = "validateAll"
    BY <2>1, RecordFields DEF Writers, validatedAll
  <2>3. grab[u][o] = "held"
    BY <2>2 DEF LockInv, LocksComplete
  <2>4. Writing(u, o)'
    BY <1>0, <2>1, <2>3 DEF validatedAll, TypeOK, Writing, Updating, request
  <2> QED
    BY <2>4 DEF Stable
<1> QED
  BY <1>3, <1>4

\* Versions up to the clock are never drawn again.
LEMMA ClosedKept ==
    ASSUME SameNode, LockInv, LockInv', VersionInv, UpdatersLast, [Next]_vars,
           NEW t \in Thread, NEW b \in Nat, b <= clock[nodeOf[t]],
           NEW p \in 1..ticket, Closed(b, p)
    PROVE  Closed(b, p)'
<1>0. TypeOK /\ TypeOK' /\ OneWriterNode
  BY SameNodeWriters DEF LockInv
<1>1. p \in Nat /\ clock[nodeOf[t]] \in Nat /\ \A h \in hist : h.pos \in Nat
  BY <1>0, ThreadAssumption DEF TypeOK, Commits
<1>2. ASSUME NEW o \in Object, Stable(o)', lock'[o].version <= b,
             NEW h \in Writers(hist', o)
      PROVE  h.pos < p
  <2>1. h \in Writers(hist, o)
    <3>1. CASE h \in hist
      BY <1>2, <3>1 DEF Writers
    <3>2. CASE h \notin hist
      <4>1. PICK u \in Thread : validatedAll(u) /\ h = Record(u)
        BY <1>0, <1>2, <3>2, RecordFrame DEF Writers
      <4>2. o \in write_set[u] /\ pc[u] = "validateAll"
        BY <1>2, <4>1, RecordFields DEF Writers, validatedAll
      <4>3. grab[u][o] = "held"
        BY <4>2 DEF LockInv, LocksComplete
      <4>4. Writing(u, o)'
        BY <1>0, <4>1, <4>3 DEF validatedAll, TypeOK, Writing, Updating, request
      <4> QED
        BY <1>2, <4>4 DEF Stable
    <3> QED
      BY <3>1, <3>2
  <2>2. CASE Stable(o)
    <3>1. /\ lock[o].version \in Nat /\ lock'[o].version \in Nat
          /\ lock'[o].version >= lock[o].version
      BY <1>0, VersionsForward DEF TypeOK, Timestamp
    <3>2. lock[o].version <= b
      BY <1>2, <3>1
    <3> QED
      BY <2>1, <2>2, <3>2 DEF Closed
  <2>3. ASSUME NEW u \in Thread, Writing(u, o)
        PROVE  h.pos < p
    <3>1. releaseLockWithNewClock(u, o)
      BY <1>2, <2>3, WritingEnds DEF Stable
    <3>2. lock'[o] = ts[u] /\ pc[u] = "releaseLocksWithNewClock"
      BY <1>0, <3>1 DEF releaseLockWithNewClock, TypeOK
    <3>3. pos[u] < p /\ pos[u] \in Nat
      BY <1>0, <1>2, <3>2 DEF Closed, TypeOK
    <3>4. h.pos <= pos[u] /\ h.pos \in Nat
      BY <1>1, <2>1, <2>3 DEF UpdatersLast, Writers
    <3> QED
      BY <1>1, <3>3, <3>4
  <2> QED
    BY <2>2, <2>3 DEF Stable
<1>3. ASSUME NEW u \in Thread, pc'[u] = "releaseLocksWithNewClock",
             ts'[u].version <= b
      PROVE  pos'[u] < p
  <2>1. pos'[u] = pos[u]
    BY <1>0, <1>3, PositionFrame DEF Updating
  <2>2. ~getNextClock(u)
    <3>1. getNextClock(u) => ts'[u] = ToTS(nodeOf[t], clock[nodeOf[t]] + 1)
      BY <1>0 DEF getNextClock, TypeOK, SameNode
    <3> QED
      BY <1>1, <1>3, <3>1 DEF ToTS
  <2>3. pc'[u] = pc[u] /\ ts'[u] = ts[u]
    BY <1>0, <1>3, <2>2, StampingFrame
  <2> QED
    BY <1>3, <2>1, <2>3 DEF Closed
<1> QED
  BY <1>2, <1>3 DEF Closed

\* A snapshot whose parts are kept is still one, at the same position.
LEMMA SnapshotOf ==
    ASSUME NEW t \in Thread, NEW p, NEW C, NEW U, NEW b,
           C = Checked(t)', U = Pending(t)', b = Bound(t)',
           Seen(t, C, p)', Shown(t, U, p)', Closed(b, p)'
    PROVE  Snapshot(t, p)'
  BY DEF Snapshot, Seen, Shown, Closed

\* A copy with the version of an unlocked object, where all writers have
\* positions before p, is what those writers left.
LEMMA SeenCurrent ==
    ASSUME LockInv, LoopsInBounds, BlocksLast, CopiesCurrent, NEW t \in Thread,
           NEW o \in Complete(t), ~LOCKBIT_TS(lock[o]),
           Version(t, o) = lock[o].version,
           NEW p, \A h \in Writers(hist, o) : h.pos < p
    PROVE  Seen(t, {o}, p)
<1>1. o \in Object /\ Stable(o)
  BY UnlockedStable DEF LockInv, TypeOK, Complete, Accessed
<1>2. Before(hist, o, p) = Writers(hist, o)
  BY DEF Before
<1>3. ASSUME NEW w \in Word
      PROVE  Current(o, copy[t][o].val[w], p)
  <2>1. copy[t][o].val[w] = mem[o][w]
    BY <1>1 DEF CopiesCurrent
  <2>2. Last(hist, o, mem[o][w])
    BY <1>1, StableLast
  <2> QED
    BY <1>2, <2>1, <2>2, CurrentBefore DEF Last
<1>4. \A u \in Thread : ~(pc[u] = "validateAll" /\ o \in write_set[u])
  BY <1>1 DEF LockInv, LocksComplete, LockOwnership
<1> QED
  BY <1>3, <1>4 DEF Seen

\* The copy readCell ends with is the block that the last commit left.
LEMMA TakenCurrent ==
    ASSUME LockInv, LockInv', LoopsInBounds, BlocksLast, CopiesCurrent',
           [Next]_vars, NEW t \in Thread, NEW o \in Accessed(t),
           recheckVersion(t, o), StillCurrent(t, o)
    PROVE  /\ \A w \in Word : /\ copy'[t][o].val[w] = mem[o][w]
                             /\ Last(hist', o, copy'[t][o].val[w])
           /\ \A u \in Thread : ~(pc'[u] = "validateAll" /\ o \in write_set'[u])
<1>0. TypeOK /\ o \in Object
  BY DEF LockInv, TypeOK, Accessed
<1>1. /\ Complete(t)' = Accessed(t) /\ Version(t, o)' = ts[t].version
      /\ ~LOCKBIT_TS(lock[o]) /\ lock[o].version = ts[t].version
      /\ UNCHANGED <<lock, mem, hist>>
  BY <1>0, CopyTaken
<1>2. Stable(o) /\ \A u \in Thread : grab[u][o] # "held" /\ grab'[u][o] # "held"
  BY <1>0, <1>1, UnlockedStable DEF LockInv, LockOwnership
<1>3. Stable(o)'
  BY <1>2 DEF Stable, Writing
<1>4. ASSUME NEW w \in Word
      PROVE  copy'[t][o].val[w] = mem[o][w] /\ Last(hist', o, copy'[t][o].val[w])
  <2>1. copy'[t][o].val[w] = mem[o][w]
    BY <1>1, <1>3 DEF CopiesCurrent
  <2> QED
    BY <1>0, <1>1, <1>2, <2>1, StableLast
<1>5. \A u \in Thread : ~(pc'[u] = "validateAll" /\ o \in write_set'[u])
  BY <1>0, <1>2 DEF LockInv, LocksComplete
<1> QED
  BY <1>4, <1>5

\* Every step of the running transaction and of the others keeps a snapshot:
\* a newer version that is met moves it to the end, and validate checks the
\* older copies against it.
LEMMA SnapshotsStep ==
    ASSUME SameNode, LockInv, LockInv', VersionInv, VersionInv', ContentInv,
           ContentInv', SerialInv, SerialInv', RunInv, SnapshotInv,
           StampsOurs', UpdatersLast', [Next]_vars
    PROVE  Snapshots'
<1>0. /\ TypeOK /\ TypeOK' /\ LoopsInBounds /\ OneWriterNode
      /\ StampsOurs /\ UpdatersLast /\ VersionsKnown /\ Snapshots
      /\ StampsDrawn /\ ValidatingAhead
      /\ Positions /\ BlocksLast /\ CopiesCurrent
  BY SameNodeWriters
     DEF LockInv, VersionInv, SnapshotInv, SerialInv, ContentInv, RunInv
<1>p. CopiesCurrent' /\ Positions'
  BY DEF SerialInv, ContentInv
<1>1. ticket \in Nat /\ ticket' \in Nat /\ ticket' >= ticket /\ ticket >= 1
  BY <1>0, TicketFrame DEF TypeOK, StartValidateAll, UpdatersLast
<1> SUFFICES ASSUME NEW t \in Thread, pc'[t] \in Live
             PROVE  \E p \in 1..ticket' : Snapshot(t, p)'
  BY DEF Snapshots
<1>2. /\ Bound(t) \in Nat /\ Bound(t) <= clock[nodeOf[t]] /\ nodeOf[t] \in Node
      /\ ts[t].version \in Nat /\ VC[t][nodeOf[t]] \in Nat
      /\ VC[t][ts[t].node] \in Nat
  BY <1>0, ThreadAssumption, BoundDrawn DEF Bound, TypeOK, Timestamp
\* Any position after the others closes every version.
<1>c. ASSUME NEW b, NEW p, p = ticket'
      PROVE  Closed(b, p)'
  BY <1>p, <1>c DEF Closed, UpdatersLast, Positions, Updating, Writers
<1>3. CASE begin(t)
  <2>1. Accessed(t)' = {} /\ ticket' \in 1..ticket' /\ pc'[t] = "active"
    BY <1>0, <1>1, <1>3 DEF ValidatingAhead, begin, sets, Accessed, TypeOK
  <2>2. PICK b : b = Bound(t)'
    OBVIOUS
  <2>3. PICK p : p = ticket'
    OBVIOUS
  <2>4. Closed(b, p)'
    BY <1>c, <2>3
  <2>5. Checked(t)' = {} /\ Pending(t)' = {}
    BY <2>1 DEF Complete, Checked, Pending, Ahead
  <2>6. Seen(t, {}, p)' /\ Shown(t, {}, p)'
    BY DEF Seen, Shown
  <2>7. Snapshot(t, p)'
    BY <2>2, <2>4, <2>5, <2>6, SnapshotOf
  <2> QED
    BY <2>1, <2>3, <2>7
<1>4. ASSUME pc[t] \in Live, Kept(t)
      PROVE  \E p \in 1..ticket' : Snapshot(t, p)'
  <2>1. PICK p \in 1..ticket : Snapshot(t, p)
    BY <1>0, <1>4 DEF Snapshots
  <2>2. PICK C : C = Checked(t)
    OBVIOUS
  <2>3. PICK U : U = Pending(t)
    OBVIOUS
  <2>4. PICK b \in Nat : b = Bound(t)
    BY <1>2
  <2>5. Seen(t, C, p) /\ Shown(t, U, p) /\ Closed(b, p)
    BY <2>1, <2>2, <2>3, <2>4 DEF Snapshot
  <2>6. U \subseteq Complete(t) /\ U \subseteq Complete(t)'
    BY <1>4, <2>3 DEF Kept, Pending, Ahead, Complete
  <2>7. C \subseteq Complete(t) /\ C \subseteq Complete(t)'
    BY <1>4, <2>2 DEF Kept, Checked
  <2>8. Seen(t, C, p)'
    BY <1>0, <2>5, <2>7, SeenKept
  <2>9. Shown(t, U, p)'
    BY <1>0, <2>5, <2>6, ShownKept
  <2>10. Closed(b, p)'
    BY <1>0, <1>2, <2>4, <2>5, ClosedKept
  <2>11. b = Bound(t)'
    BY <1>2, <1>4, <2>4 DEF Kept, Bound
  <2>12. Snapshot(t, p)'
    BY <1>4, <2>2, <2>3, <2>8, <2>9, <2>10, <2>11, SnapshotOf DEF Kept
  <2> QED
    BY <1>1, <2>12
<1>5. ASSUME NEW o \in Object, recheckVersion(t, o), StillCurrent(t, o)
      PROVE  \E p \in 1..ticket' : Snapshot(t, p)'
  <2>0. /\ pc[t] = "recheck" /\ pc'[t] = "increaseClock"
        /\ Complete(t) = Accessed(t) \ {o} /\ Complete(t)' = Accessed(t)
        /\ Accessed(t)' = Accessed(t)
        /\ ts'[t] = ts[t] /\ VC'[t] = VC[t] /\ ~Ahead(t) /\ Pending(t) = {}
        /\ ~LOCKBIT_TS(lock[o]) /\ lock[o].version = ts[t].version
        /\ UNCHANGED <<lock, mem, hist, ticket>>
    BY <1>0, <1>5, CopyTaken
  <2>1. /\ Bound(t) = VC[t][nodeOf[t]]
        /\ Ahead(t)' <=> ts[t].version > VC[t][ts[t].node]
    BY <2>0 DEF Bound, BoundOf, Ahead
  <2>2. Checked(t) = Complete(t) /\ Checked(t)' = Accessed(t) \ Pending(t)'
    BY <2>0 DEF Checked, Live
  <2>3. ASSUME NEW p, \A h \in Writers(hist, o) : h.pos < p, o \in Accessed(t)
        PROVE  Seen(t, {o}, p)'
    <3>1. /\ \A w \in Word : Last(hist', o, copy'[t][o].val[w])
          /\ \A u \in Thread : ~(pc'[u] = "validateAll" /\ o \in write_set'[u])
      BY <1>0, <1>p, <1>5, <2>3, TakenCurrent
    <3>2. Before(hist', o, p) = Writers(hist', o)
      BY <2>0, <2>3 DEF Before
    <3>3. \A w \in Word : LeftLast(Before(hist', o, p), copy'[t][o].val[w])
      BY <3>1, <3>2 DEF Last
    <3>4. \A w \in Word : Current(o, copy[t][o].val[w], p)'
      BY <3>3 DEF Current, LeftLast, Before, Writers
    <3> QED
      BY <3>1, <3>4 DEF Seen
  <2>4. CASE ~Ahead(t)'
    <3>1. Pending(t)' = {} /\ Bound(t)' = Bound(t)
      BY <2>0, <2>1, <2>4 DEF Pending, Bound, BoundOf
    <3>2. PICK p \in 1..ticket : Snapshot(t, p)
      BY <1>0, <2>0 DEF Snapshots, Live
    <3>3. PICK C : C = Complete(t)
      OBVIOUS
    <3>4. PICK b \in Nat : b = Bound(t)
      BY <1>2
    <3>5. Seen(t, C, p) /\ Closed(b, p)
      BY <2>2, <3>2, <3>3, <3>4 DEF Snapshot
    <3>6. Seen(t, C, p)'
      BY <1>0, <2>0, <3>3, <3>5, SeenKept
    <3>7. Closed(b, p)'
      BY <1>0, <1>2, <3>4, <3>5, ClosedKept
    <3>8. lock[o].version <= b
      BY <1>0, <2>0, <2>1, <2>4, <3>4, OneBound
    <3>9. \A h \in Writers(hist, o) : h.pos < p
      BY <2>0, <3>5, <3>8, UnlockedStable DEF Closed
    <3>10. PICK D : D = Checked(t)'
      OBVIOUS
    <3>11. Seen(t, D, p)'
      <4>1. o \in Accessed(t) => Seen(t, {o}, p)'
        BY <2>3, <3>9
      <4>2. D \subseteq C \cup {o} /\ (o \in D => o \in Accessed(t))
        BY <2>0, <2>2, <3>3, <3>10
      <4> QED
        BY <3>6, <4>1, <4>2 DEF Seen
    <3>12. Shown(t, {}, p)'
      BY DEF Shown
    <3>13. Snapshot(t, p)'
      BY <3>1, <3>4, <3>7, <3>10, <3>11, <3>12, SnapshotOf
    <3> QED
      BY <1>1, <3>13
  <2>5. CASE Ahead(t)'
    <3>1. PICK D : D = Checked(t)'
      OBVIOUS
    <3>2. D \subseteq {o} /\ (o \in D => o \in Accessed(t))
      <4>1. ts[t].node = nodeOf[t]
        BY <1>2, <2>1, <2>5 DEF StampsOurs, Ours, SnapshotInv
      <4>2. ASSUME NEW q \in Complete(t)', q # o
            PROVE  q \in Pending(t)'
        <5>1. q \in Complete(t) /\ q \in Accessed(t)' /\ q \in Object
          BY <1>0, <2>0, <4>2 DEF Accessed, TypeOK
        <5>2. Version(t, q)' = Version(t, q) /\ Version(t, q) \in Nat
          BY <1>0, <4>2, <5>1, CompleteSame DEF Version, TypeOK, Copy, Timestamp
        <5>3. Version(t, q) <= VC[t][ts[t].node]
          BY <1>0, <2>0, <2>1, <4>1, <5>1 DEF VersionsKnown, Live
        <5>4. ts'[t].version > Version(t, q)'
          BY <1>2, <2>0, <2>1, <2>5, <5>2, <5>3
        <5> QED
          BY <2>0, <2>5, <5>1, <5>4 DEF Pending
      <4> QED
        BY <2>0, <2>2, <3>1, <4>2
    <3>3. PICK p : p = ticket'
      OBVIOUS
    <3>4. \A h \in Writers(hist, o) : h.pos < p
      BY <1>0, <2>0, <3>3 DEF Positions, Writers
    <3>5. Seen(t, D, p)'
      <4>1. o \in Accessed(t) => Seen(t, {o}, p)'
        BY <2>3, <3>4
      <4> QED
        BY <3>2, <4>1 DEF Seen
    <3>6. PICK b : b = Bound(t)'
      OBVIOUS
    <3>7. Closed(b, p)'
      BY <1>c, <3>3
    <3>8. PICK U : U = Pending(t)'
      OBVIOUS
    <3>9. Shown(t, U, p)'
      <4>1. \A q : \A h \in Writers(hist', q) : h.pos < p /\ h.pos \in Nat
        BY <1>p, <1>0, <3>3 DEF Positions, Writers, TypeOK, Commits
      <4>2. \A q : \A h \in Writers(hist', q) : ~(h.pos >= p)
        BY <1>1, <3>3, <4>1
      <4> QED
        BY <4>2 DEF Shown
    <3>10. Snapshot(t, p)'
      BY <3>1, <3>5, <3>6, <3>7, <3>8, <3>9, SnapshotOf
    <3> QED
      BY <1>1, <3>3, <3>10
  <2> QED
    BY <2>4, <2>5
<1>6. ASSUME NEW o \in Object, validate(t, o)
      PROVE  \E p \in 1..ticket' : Snapshot(t, p)'
  <2>0. /\ pc[t] = "validate" /\ pc'[t] = "validate" /\ o \in todo[t]
        /\ Complete(t) = Accessed(t) /\ Complete(t)' = Accessed(t)
        /\ Pending(t)' = Pending(t) \ {o}
        /\ Bound(t)' = Bound(t)
        /\ ~LOCKBIT_TS(lock[o]) /\ ~(lock[o].version > Version(t, o))
        /\ ticket' = ticket
    BY <1>0, <1>6, CopyChecked DEF Bound
  <2>1. PICK p \in 1..ticket : Snapshot(t, p)
    BY <1>0, <2>0 DEF Snapshots, Live
  <2>2. PICK C : C = Checked(t)
    OBVIOUS
  <2>3. PICK U : U = Pending(t)'
    OBVIOUS
  <2>4. PICK b \in Nat : b = Bound(t)
    BY <1>2
  <2>5. /\ U \subseteq Pending(t) /\ Pending(t) \subseteq Accessed(t)
        /\ C \subseteq Accessed(t) /\ Checked(t)' \subseteq C \cup {o}
        /\ o \in Accessed(t) => o \in Pending(t)
    BY <2>0, <2>2, <2>3 DEF Pending, Checked, Live
  <2>6. Seen(t, C, p) /\ Shown(t, U, p) /\ Closed(b, p)
    BY <2>1, <2>2, <2>4, <2>5 DEF Snapshot, Shown
  <2>7. Seen(t, C, p)'
    BY <1>0, <2>0, <2>5, <2>6, SeenKept
  <2>8. U \subseteq Complete(t) /\ U \subseteq Complete(t)'
    BY <2>0, <2>5
  <2>9. Shown(t, U, p)'
    BY <1>0, <2>6, <2>8, ShownKept
  <2>10. Closed(b, p)'
    BY <1>0, <1>2, <2>4, <2>6, ClosedKept
  <2>11. ASSUME o \in Accessed(t)
         PROVE  Seen(t, {o}, p)'
    <3>1. /\ lock[o].version \in Nat /\ Version(t, o) \in Nat
          /\ Version(t, o) <= lock[o].version /\ Stable(o)
      BY <1>0, <2>0, UnlockedStable DEF TypeOK, Timestamp, Copy, Version,
                                        VersionInv, CopiesNotNewer
    <3>2. Version(t, o) = lock[o].version
      BY <2>0, <3>1
    <3>3. Shown(t, Pending(t), p)
      BY <2>1 DEF Snapshot
    <3>4. \A h \in Writers(hist, o) : h.pos < p
      <4>1. \A h \in Writers(hist, o) : ~(h.pos >= p)
        BY <2>5, <2>11, <3>1, <3>2, <3>3 DEF Shown
      <4>2. \A h \in Writers(hist, o) : h.pos \in Nat
        BY <1>0 DEF Writers, TypeOK, Commits
      <4> QED
        BY <4>1, <4>2
    <3>5. Seen(t, {o}, p)
      BY <1>0, <2>0, <2>11, <3>2, <3>4, SeenCurrent
    <3>6. {o} \subseteq Complete(t) /\ {o} \subseteq Complete(t)'
      BY <2>0, <2>11
    <3> QED
      BY <1>0, <3>5, <3>6, SeenKept
  <2>12. PICK D : D = Checked(t)'
    OBVIOUS
  <2>13. Seen(t, D, p)'
    <3>1. D \subseteq C \cup {o} /\ (o \in D => o \in Accessed(t))
      BY <2>0, <2>5, <2>12 DEF Checked, Live
    <3> QED
      BY <2>7, <2>11, <3>1 DEF Seen
  <2>14. Snapshot(t, p)'
    BY <2>0, <2>3, <2>4, <2>9, <2>10, <2>12, <2>13, SnapshotOf
  <2> QED
    BY <1>1, <2>0, <2>14
<1> QED
  BY <1>0, <1>3, <1>4, <1>5, <1>6, LiveStep

\* SnapshotInv is inductive, given the serialization order.
LEMMA SnapshotStep ==
    ASSUME SameNode, LockInv, LockInv', VersionInv, VersionInv', ContentInv,
           ContentInv', SerialInv, SerialInv', RunInv, SnapshotInv, [Next]_vars
    PROVE  SnapshotInv'
<1>0. /\ OneWriterNode /\ LoopsInBounds /\ ValidatingAhead
      /\ StampsOurs /\ UpdatersLast /\ VersionsKnown
  BY SameNodeWriters DEF VersionInv, SnapshotInv, RunInv
<1>1. StampsOurs'
  BY <1>0, StampsOursStep
<1>2. UpdatersLast' /\ VersionsKnown'
  BY <1>0, <1>1, UpdatersLastStep, VersionsKnownStep
<1>3. Snapshots'
  BY <1>1, <1>2, SnapshotsStep
<1> QED
  BY <1>1, <1>2, <1>3 DEF SnapshotInv

\* No transaction runs at first.
LEMMA SnapshotInit == Init => SnapshotInv
<1> SUFFICES ASSUME Init
             PROVE  SnapshotInv
  OBVIOUS
<1>1. StampsOurs
  BY DEF Init, StampsOurs, Ours, InitialTS, EmptyCopy
<1>2. UpdatersLast
  BY DEF Init, UpdatersLast, Updating, Writing
<1>3. VersionsKnown /\ Snapshots
  BY DEF Init, VersionsKnown, Snapshots, Live
<1> QED
  BY <1>1, <1>2, <1>3 DEF SnapshotInv

\* Every running transaction has a position in the serialization order, with
\* validations and commits under way, when all threads run on one node.
THEOREM SnapshotInvariant ==
    ASSUME SameNode
    PROVE  Spec => [](/\ LockInv /\ VersionInv /\ ContentInv /\ SerialInv
                      /\ RunInv /\ SnapshotInv)
<1> DEFINE Inv == /\ LockInv /\ VersionInv /\ ContentInv /\ SerialInv
                  /\ RunInv /\ SnapshotInv
<1>1. Init => Inv
  BY LockInit, VersionInit, ContentInit, SerialInit, RunInit,
     SnapshotInit
<1>2. Inv /\ [Next]_vars => Inv'
  BY SameNodeWriters, LockStep, VersionStep, ContentStep, SerialStep,
     RunStep, SnapshotStep DEF VersionInv
<1> QED
  BY <1>1, <1>2, PTL DEF Spec

\* What a running transaction has read is one consistent snapshot, even if it
\* will never commit, for any number of threads of one node and of objects.
THEOREM SnapshotsConsistent ==
    ASSUME SameNode
    PROVE  Spec => []ConsistentSnapshot
<1>1. Snapshots => ConsistentSnapshot
  <2> SUFFICES ASSUME Snapshots, NEW t \in Thread, Settled(t)
               PROVE  \E p \in 1..ticket : \A o \in Accessed(t), w \in Word :
                         Current(o, copy[t][o].val[w], p)
    BY DEF ConsistentSnapshot
  <2>1. PICK p \in 1..ticket : Snapshot(t, p)
    BY DEF Snapshots, Settled, Live
  <2>2. Checked(t) = Accessed(t)
    BY DEF Settled, Live, Complete, Checked, Pending, Ahead
  <2> QED
    BY <2>1, <2>2 DEF Snapshot, Seen
<1>2. SnapshotInv => ConsistentSnapshot
  BY <1>1 DEF SnapshotInv
<1> QED
  BY <1>2, SnapshotInvariant, PTL

-----------------------------------------------------------------------------
(* Cause and effect. *)

\* v is what some commit of H, or none, left in o.
WrittenTo(H, o, v) == v = NoAttempt \/ \E h \in Writers(H, o) : h.tx = v

\* The content v is not older than the content f of the same block.
NotOlder(H, v, f) ==
    f = NoAttempt \/ (v # NoAttempt /\ \A g, h \in H :
                        g.tx = v /\ h.tx = f => g.pos >= h.pos)

\* What h left of a block it accessed.
Floor(h, o, w) == IF o \in h.writes THEN h.tx ELSE h.seen[o][w]

\* The copies t has of the blocks of C are as new as what h saw and wrote.
Reaches(t, h, C) ==
    \A o \in C \cap h.acc, w \in Word :
        NotOlder(hist, copy[t][o].val[w], Floor(h, o, w))

\* A transaction is recorded once, when it has all its blocks, and its record
\* is what it goes on to put.
OneEach(H) == \A g, h \in H : g.tx = h.tx => g = h

RecordsOnce ==
    /\ OneEach(hist)
    /\ \A h \in hist : /\ h.tx[2] <= attempt[h.tx[1]]
                       /\ h.writes \subseteq h.acc \cap mayWrite[h.tx[1]]
    /\ \A h \in hist, t \in Thread : h.tx = Me(t) =>
          /\ pc[t] \in Updating \cup {"idle"}
          /\ pc[t] \in Updating =>
                /\ h.acc = Accessed(t) /\ h.writes = write_set[t]
                /\ \A o \in Object : h.seen[o] = copy[t][o].val

\* Copies hold what commits left.
CopiesWritten ==
    \A t \in Thread : \A o \in Complete(t), w \in Word :
        WrittenTo(hist, o, copy[t][o].val[w])

\* The newer of two copies has the newer content.
CopiesOrdered ==
    \A t, u \in Thread : \A o \in Complete(t) \cap Complete(u), w \in Word :
        Version(t, o) > Version(u, o) =>
            NotOlder(hist, copy[t][o].val[w], copy[u][o].val[w])

\* The commit h is putting the version v, or a block with its content has it.
Publishes(h, v) ==
    \/ \E o \in Object, w \in Word :
          Stable(o) /\ mem[o][w] = h.tx /\ lock[o].version = v
    \/ \E u \in Thread : /\ pc[u] = "releaseLocksWithNewClock" /\ Me(u) = h.tx
                         /\ ts[u].version = v

\* The copies of t that a commit of version v of node n cannot have overtaken:
\* newer ones, and those checked against a newer version of that node.
Settling(t, v, n) ==
    {o \in Complete(t) : \/ Version(t, o) >= v
                         \/ o \in Checked(t) /\ v <= BoundOf(t, n)}

CausesReached ==
    \A h \in hist, v \in Nat : Publishes(h, v) =>
        \A t \in Thread : Reaches(t, h, Settling(t, v, nodeOf[h.tx[1]]))

\* The copies of a running transaction, but for those it still has to check,
\* are as new as what the writers of its other copies saw.
CopiesReached ==
    \A t \in Thread : pc[t] \in Live => \A o \in Complete(t), w \in Word :
        \A h \in hist : h.tx = copy[t][o].val[w] => Reaches(t, h, Checked(t))

CausalInv == /\ RecordsOnce /\ CopiesWritten /\ CopiesOrdered
             /\ CausesReached /\ CopiesReached

\* Who has written: later commits add to it.
LEMMA WrittenMore ==
    ASSUME NEW H, NEW G, H \subseteq G, NEW o, NEW v, WrittenTo(H, o, v)
    PROVE  WrittenTo(G, o, v)
  BY DEF WrittenTo, Writers

\* What the last commit left is not older than what any commit left.
LEMMA LastNotOlder ==
    ASSUME NEW H, OneEach(H), NEW o, NEW v, NEW f,
           Last(H, o, v), WrittenTo(H, o, f)
    PROVE  WrittenTo(H, o, v) /\ NotOlder(H, v, f)
<1>1. CASE v = NoAttempt
  <2>1. Writers(H, o) = {}
    BY <1>1 DEF Last, LeftLast
  <2> QED
    BY <1>1, <2>1 DEF WrittenTo, NotOlder
<1>2. CASE v # NoAttempt
  <2>1. PICK g \in Writers(H, o) : g.tx = v /\ \A k \in Writers(H, o) : k.pos <= g.pos
    BY <1>2 DEF Last, LeftLast
  <2>2. CASE f = NoAttempt
    BY <2>1, <2>2 DEF WrittenTo, NotOlder
  <2>3. CASE f # NoAttempt
    <3>1. PICK k \in Writers(H, o) : k.tx = f
      BY <2>3 DEF WrittenTo
    <3>2. ASSUME NEW a \in H, NEW b \in H, a.tx = v, b.tx = f
          PROVE  a.pos >= b.pos
      <4>1. a = g /\ b = k
        BY <2>1, <3>1, <3>2 DEF OneEach, Writers
      <4> QED
        BY <2>1, <3>1, <4>1
    <3> QED
      BY <1>2, <2>1, <3>2 DEF WrittenTo, NotOlder
  <2> QED
    BY <2>2, <2>3
<1> QED
  BY <1>1, <1>2

\* What a record saw, or wrote, some commit left.
LEMMA FloorWritten ==
    ASSUME Serializable, NEW h \in hist, NEW o \in h.acc, NEW w \in Word
    PROVE  WrittenTo(hist, o, Floor(h, o, w))
<1>1. Current(o, h.seen[o][w], h.pos)
  BY DEF Serializable
<1>2. WrittenTo(hist, o, h.seen[o][w])
  BY <1>1, CurrentBefore DEF LeftLast, Before, WrittenTo
<1>3. o \in h.writes => WrittenTo(hist, o, h.tx)
  BY DEF WrittenTo, Writers
<1> QED
  BY <1>2, <1>3 DEF Floor

\* A commit is recorded under a name that no record has.
LEMMA FreshRecord ==
    ASSUME TypeOK, RecordsOnce, [Next]_vars
    PROVE  \/ hist' = hist
           \/ \E u \in Thread : /\ validatedAll(u) /\ hist' = hist \cup {Record(u)}
                                /\ \A h \in hist : h.tx # Me(u)
<1>1. ASSUME NEW u \in Thread, validatedAll(u), NEW h \in hist
      PROVE  h.tx # Me(u)
  BY <1>1 DEF RecordsOnce, validatedAll, Updating
<1> QED
  BY <1>1, RecordFrame

\* A later record does not come between what was there before.
LEMMA NotOlderKept ==
    ASSUME TypeOK, RecordsOnce, [Next]_vars, NEW o, NEW v, NEW f,
           WrittenTo(hist, o, v), WrittenTo(hist, o, f), NotOlder(hist, v, f)
    PROVE  NotOlder(hist', v, f)
<1>1. CASE hist' = hist
  BY <1>1
<1>2. ASSUME NEW u \in Thread, hist' = hist \cup {Record(u)},
             \A h \in hist : h.tx # Me(u)
      PROVE  NotOlder(hist', v, f)
  <2>1. CASE f = NoAttempt
    BY <2>1 DEF NotOlder
  <2>2. CASE f # NoAttempt
    <3>1. v # NoAttempt /\ v # Me(u) /\ f # Me(u)
      BY <1>2, <2>2 DEF NotOlder, WrittenTo, Writers
    <3>2. ASSUME NEW g \in hist', g.tx = v \/ g.tx = f
          PROVE  g \in hist
      BY <1>2, <3>1, <3>2, RecordFields
    <3> QED
      BY <2>2, <3>1, <3>2 DEF NotOlder
  <2> QED
    BY <2>1, <2>2
<1> QED
  BY <1>1, <1>2, FreshRecord

\* Each transaction is recorded once.
LEMMA RecordsOnceStep ==
    ASSUME LockInv, LockInv', VersionInv, RecordsOnce, [Next]_vars
    PROVE  RecordsOnce'
<1>0. TypeOK /\ TypeOK'
  BY DEF LockInv
<1>1. \A h \in hist' : h.tx \in Thread \X Nat
  BY <1>0 DEF TypeOK, Commits, Attempt
<1>2. OneEach(hist')
  BY <1>0, FreshRecord, RecordFields DEF RecordsOnce, OneEach
<1>3. ASSUME NEW h \in hist'
      PROVE  /\ h.tx[2] <= attempt'[h.tx[1]]
             /\ h.writes \subseteq h.acc \cap mayWrite[h.tx[1]]
  <2>1. CASE h \in hist
    <3>1. PICK t \in Thread, n \in Nat : h.tx = <<t, n>>
      BY <1>1
    <3>2. n <= attempt[t] /\ h.writes \subseteq h.acc \cap mayWrite[t]
      BY <2>1, <3>1 DEF RecordsOnce
    <3>3. /\ attempt[t] \in Nat
          /\ attempt'[t] = attempt[t] \/ attempt'[t] = attempt[t] + 1
      BY <1>0, AttemptFrame DEF begin, TypeOK
    <3> QED
      BY <3>1, <3>2, <3>3
  <2>2. CASE h \notin hist
    <3>1. PICK u \in Thread : validatedAll(u) /\ h = Record(u)
      BY <1>0, <2>2, FreshRecord
    <3>2. /\ h.tx = <<u, attempt[u]>> /\ h.writes = write_set[u]
          /\ h.acc = Accessed(u) /\ attempt[u] \in Nat /\ attempt' = attempt
      BY <1>0, <3>1, RecordFields DEF Me, TypeOK, validatedAll
    <3>3. write_set[u] \subseteq Accessed(u) \cap mayWrite[u]
      BY DEF Accessed, VersionInv, WritesAllowed
    <3> QED
      BY <3>2, <3>3
  <2> QED
    BY <2>1, <2>2
<1>4. ASSUME NEW h \in hist', NEW t \in Thread, h.tx = Me(t)'
      PROVE  /\ pc'[t] \in Updating \cup {"idle"}
             /\ pc'[t] \in Updating =>
                   /\ h.acc = Accessed(t)' /\ h.writes = write_set'[t]
                   /\ \A o \in Object : h.seen[o] = copy'[t][o].val
  <2>1. h.tx = <<t, attempt'[t]>> /\ attempt[t] \in Nat
    BY <1>0, <1>4 DEF Me, TypeOK
  <2>2. CASE h \in hist
    <3>1. h.tx[2] <= attempt[h.tx[1]]
      BY <2>2 DEF RecordsOnce
    <3>2. ~begin(t)
      BY <1>0, <2>1, <3>1 DEF begin, TypeOK
    <3>3. attempt'[t] = attempt[t] /\ (pc[t] = "idle" => pc'[t] = "idle")
      BY <1>0, <3>2, AttemptFrame
    <3>4. /\ pc[t] \in Updating \cup {"idle"}
          /\ pc[t] \in Updating =>
                /\ h.acc = Accessed(t) /\ h.writes = write_set[t]
                /\ \A o \in Object : h.seen[o] = copy[t][o].val
      BY <2>1, <2>2, <3>3 DEF RecordsOnce, Me
    <3>5. pc'[t] \in Updating \cup {"idle"}
      BY <1>0, <3>3, <3>4, UpdatingFrame DEF committed, Clear, TypeOK
    <3>6. CASE pc[t] \in Updating /\ pc'[t] \in Updating
      BY <1>0, <3>4, <3>6, PositionFrame
    <3>7. pc[t] = "idle" => pc'[t] \notin Updating
      BY <3>3 DEF Updating
    <3> QED
      BY <3>4, <3>5, <3>6, <3>7
  <2>3. CASE h \notin hist
    <3>1. PICK u \in Thread : validatedAll(u) /\ h = Record(u)
      BY <1>0, <2>3, FreshRecord
    <3>2. u = t
      BY <2>1, <3>1, RecordFields DEF Me
    <3>3. /\ pc'[t] \in Updating /\ Accessed(t)' = Accessed(t)
          /\ UNCHANGED <<write_set, copy>>
      BY <1>0, <3>1, <3>2 DEF validatedAll, TypeOK, Updating, sets, Accessed
    <3> QED
      BY <3>1, <3>2, <3>3, RecordFields
  <2> QED
    BY <2>2, <2>3
<1> QED
  BY <1>2, <1>3, <1>4 DEF RecordsOnce

\* A copy that a step takes or checks is what the last commit left.
LEMMA FreshCopy ==
    ASSUME OneWriterNode, LockInv, LockInv', VersionInv, ContentInv, ContentInv',
           SerialInv, [Next]_vars, NEW t \in Thread, NEW o \in Complete(t)',
           o \notin Complete(t) \/ validate(t, o), NEW w \in Word
    PROVE  Last(hist', o, copy'[t][o].val[w])
<1>0. /\ TypeOK /\ TypeOK' /\ LoopsInBounds /\ BlocksLast /\ CopiesCurrent'
      /\ CopiesCurrent /\ o \in Object
  BY DEF LockInv, VersionInv, SerialInv, ContentInv, Complete, Accessed, TypeOK
<1>1. CASE o \notin Complete(t)
  <2>1. recheckVersion(t, o) /\ StillCurrent(t, o)
    BY <1>0, <1>1, CompleteFrame
  <2>2. o \in Accessed(t)
    BY <1>0, <2>1, CopyTaken
  <2> QED
    BY <1>0, <2>1, <2>2, TakenCurrent
<1>2. CASE o \in Complete(t) /\ validate(t, o)
  <2>1. /\ ~LOCKBIT_TS(lock[o]) /\ ~(lock[o].version > Version(t, o))
        /\ hist' = hist /\ copy' = copy
    BY <1>0, <1>2, CopyChecked
  <2>2. /\ lock[o].version \in Nat /\ Version(t, o) \in Nat
        /\ Version(t, o) <= lock[o].version /\ Stable(o)
    BY <1>0, <2>1, UnlockedStable DEF TypeOK, Timestamp, Copy, Version,
                                      VersionInv, CopiesNotNewer
  <2>3. Version(t, o) = lock[o].version
    BY <2>1, <2>2
  <2>4. copy[t][o].val[w] = mem[o][w]
    BY <1>0, <1>2, <2>2, <2>3 DEF CopiesCurrent
  <2> QED
    BY <1>0, <2>1, <2>2, <2>4, StableLast
<1> QED
  BY <1>1, <1>2

\* Copies go on holding what commits left.
LEMMA CopiesWrittenStep ==
    ASSUME OneWriterNode, LockInv, LockInv', VersionInv, ContentInv, ContentInv',
           SerialInv, RecordsOnce, RecordsOnce', CopiesWritten, [Next]_vars
    PROVE  CopiesWritten'
<1>0. TypeOK /\ TypeOK' /\ LoopsInBounds
  BY DEF LockInv, VersionInv
<1> SUFFICES ASSUME NEW t \in Thread, NEW o \in Complete(t)', NEW w \in Word
             PROVE  WrittenTo(hist', o, copy'[t][o].val[w])
  BY DEF CopiesWritten, WrittenTo, Writers
<1>1. CASE o \in Complete(t)
  <2>1. copy'[t][o].val = copy[t][o].val
    BY <1>0, <1>1, CompleteSame
  <2>2. WrittenTo(hist, o, copy[t][o].val[w])
    BY <1>1 DEF CopiesWritten
  <2>3. hist \subseteq hist'
    BY <1>0, FreshRecord
  <2> QED
    BY <2>1, <2>2, <2>3, WrittenMore
<1>2. CASE o \notin Complete(t)
  <2>1. Last(hist', o, copy'[t][o].val[w])
    BY <1>2, FreshCopy
  <2> QED
    BY <2>1 DEF Last, LeftLast, WrittenTo
<1> QED
  BY <1>1, <1>2

\* A fresh copy is not older than anything a commit left.
LEMMA FreshNotOlder ==
    ASSUME OneWriterNode, LockInv, LockInv', VersionInv, ContentInv, ContentInv',
           SerialInv, RecordsOnce', [Next]_vars,
           NEW t \in Thread, NEW o \in Complete(t)',
           o \notin Complete(t) \/ validate(t, o), NEW w \in Word,
           NEW f, WrittenTo(hist', o, f)
    PROVE  NotOlder(hist', copy'[t][o].val[w], f)
<1>1. Last(hist', o, copy'[t][o].val[w])
  BY FreshCopy
<1>2. OneEach(hist')
  BY DEF RecordsOnce, OneEach
<1> QED
  BY <1>1, <1>2, LastNotOlder

\* The order of the copies' versions is that of their contents.
LEMMA CopiesOrderedStep ==
    ASSUME OneWriterNode, LockInv, LockInv', VersionInv, ContentInv, ContentInv',
           SerialInv, RecordsOnce, RecordsOnce', CopiesWritten, CopiesWritten',
           CopiesOrdered, [Next]_vars
    PROVE  CopiesOrdered'
<1>0. TypeOK /\ TypeOK' /\ LoopsInBounds
  BY DEF LockInv, VersionInv
<1> SUFFICES ASSUME NEW t \in Thread, NEW u \in Thread,
                    NEW o \in Complete(t)' \cap Complete(u)', NEW w \in Word,
                    Version(t, o)' > Version(u, o)'
             PROVE  NotOlder(hist', copy'[t][o].val[w], copy'[u][o].val[w])
  BY DEF CopiesOrdered, NotOlder
<1>1. WrittenTo(hist', o, copy'[u][o].val[w])
  BY DEF CopiesWritten, WrittenTo, Writers
<1>2. CASE o \notin Complete(t)
  BY <1>1, <1>2, FreshNotOlder
<1>3. CASE o \in Complete(t) /\ o \notin Complete(u)
  <2>1. recheckVersion(u, o) /\ StillCurrent(u, o) /\ o \in Object
    BY <1>0, <1>3, CompleteFrame DEF Complete, Accessed, TypeOK
  <2>2. Version(u, o)' = lock[o].version
    BY <1>0, <2>1, CopyTaken
  <2>3. Version(t, o)' = Version(t, o)
    BY <1>0, <1>3, CompleteSame DEF Version
  <2>4. /\ Version(t, o) <= lock[o].version /\ Version(t, o) \in Nat
        /\ lock[o].version \in Nat
    BY <1>0, <2>1 DEF VersionInv, CopiesNotNewer, Version, TypeOK, Copy, Timestamp
  <2> QED
    BY <2>2, <2>3, <2>4
<1>4. CASE o \in Complete(t) /\ o \in Complete(u)
  <2>1. /\ copy'[t][o].val = copy[t][o].val /\ copy'[u][o].val = copy[u][o].val
        /\ Version(t, o)' = Version(t, o) /\ Version(u, o)' = Version(u, o)
    BY <1>0, <1>4, CompleteSame DEF Version
  <2>2. /\ WrittenTo(hist, o, copy[t][o].val[w])
        /\ WrittenTo(hist, o, copy[u][o].val[w])
    BY <1>4 DEF CopiesWritten
  <2>3. NotOlder(hist, copy[t][o].val[w], copy[u][o].val[w])
    BY <1>4, <2>1 DEF CopiesOrdered
  <2> QED
    BY <1>0, <2>1, <2>2, <2>3, NotOlderKept
<1> QED
  BY <1>2, <1>3, <1>4

\* What is published was published before, or getNextClock draws its version.
LEMMA PublishFrame ==
    ASSUME OneWriterNode, LockInv, LockInv', VersionInv, ContentInv, SerialInv,
           RecordsOnce, [Next]_vars, NEW h \in hist', NEW v, Publishes(h, v)'
    PROVE  /\ h \in hist
           /\ \/ Publishes(h, v)
              \/ \E u \in Thread : /\ getNextClock(u) /\ Me(u) = h.tx
                                   /\ v = clock[nodeOf[u]] + 1
<1>0. TypeOK /\ TypeOK' /\ LoopsInBounds /\ BlocksLast
  BY DEF LockInv, VersionInv, SerialInv
<1>1. ASSUME NEW o \in Object, NEW w \in Word, Stable(o)', mem'[o][w] = h.tx,
             lock'[o].version = v
      PROVE  h \in hist /\ Publishes(h, v)
  <2>1. CASE Stable(o)
    <3>1. mem'[o][w] = mem[o][w]
      BY <1>0, <2>1, StableBlock
    <3>2. ASSUME NEW u \in Thread
          PROVE  ~releaseLockWithNewClock(u, o)
      <4>1. releaseLockWithNewClock(u, o) => grab[u][o] = "held"
        BY PutVersion
      <4>2. releaseLockWithNewClock(u, o) => pc[u] \in Updating
        BY DEF releaseLockWithNewClock, Updating
      <4> QED
        BY <2>1, <4>1, <4>2 DEF Stable, Writing
    <3>3. lock[o].version = v
      BY <1>1, <3>2, VersionsForward
    <3>4. Publishes(h, v)
      BY <1>1, <2>1, <3>1, <3>3 DEF Publishes
    <3>5. h \in hist
      <4>1. Last(hist, o, mem[o][w])
        BY <1>0, <2>1, StableLast
      <4>2. h.tx # NoAttempt
        BY <1>0, NoAttemptAssumption DEF TypeOK, Commits, Attempt
      <4>3. \E k \in hist : k.tx = h.tx
        BY <1>1, <3>1, <4>1, <4>2 DEF Last, LeftLast, Writers
      <4> QED
        BY <1>0, <4>3, FreshRecord, RecordFields
    <3> QED
      BY <3>4, <3>5
  <2>2. ASSUME NEW u \in Thread, Writing(u, o)
        PROVE  h \in hist /\ Publishes(h, v)
    <3>1. releaseLockWithNewClock(u, o)
      BY <1>1, <2>2, WritingEnds DEF Stable
    <3>2. /\ pc[u] = "releaseLocksWithNewClock" /\ lock'[o] = ts[u]
          /\ UNCHANGED <<mem, hist>>
      BY <1>0, <3>1 DEF releaseLockWithNewClock, TypeOK, history
    <3>3. left[u] = {}
      BY <1>0, <3>2 DEF LoopsInBounds, LoopBounds
    <3>4. mem[o][w] = Me(u)
      BY <2>2, <3>3 DEF ContentInv, BlocksPut
    <3> QED
      BY <1>1, <3>2, <3>4 DEF Publishes
  <2> QED
    BY <2>1, <2>2 DEF Stable
<1>2. ASSUME NEW u \in Thread, pc'[u] = "releaseLocksWithNewClock",
             Me(u)' = h.tx, ts'[u].version = v
      PROVE  /\ h \in hist
             /\ Publishes(h, v) \/ (/\ getNextClock(u) /\ Me(u) = h.tx
                                    /\ v = clock[nodeOf[u]] + 1)
  <2>1. Me(u)' = Me(u)
    BY <1>0, <1>2, PositionFrame DEF Updating, Me
  <2>2. CASE getNextClock(u)
    <3>1. ts'[u] = ToTS(nodeOf[u], clock[nodeOf[u]] + 1) /\ hist' = hist
      BY <1>0, <2>2 DEF getNextClock, TypeOK, history
    <3> QED
      BY <1>2, <2>1, <2>2, <3>1 DEF ToTS
  <2>3. CASE pc'[u] = pc[u] /\ ts'[u] = ts[u]
    <3>1. Publishes(h, v)
      BY <1>2, <2>1, <2>3 DEF Publishes
    <3>2. h \in hist
      <4>1. ASSUME NEW q \in Thread, validatedAll(q), h = Record(q)
            PROVE  FALSE
        <5>1. Me(q) = Me(u)
          BY <1>2, <2>1, <4>1, RecordFields
        <5>2. q = u
          BY <5>1 DEF Me
        <5> QED
          BY <1>2, <2>3, <4>1, <5>2 DEF validatedAll
      <4> QED
        BY <1>0, <4>1, FreshRecord
    <3> QED
      BY <3>1, <3>2
  <2> QED
    BY <1>0, <1>2, <2>2, <2>3, StampingFrame
<1> QED
  BY <1>1, <1>2 DEF Publishes

\* A copy that a step neither takes nor checks is checked only if it was, or
\* if the transaction meets a version that is not newer than the copy's.
LEMMA CheckedFrame ==
    ASSUME LockInv, LockInv', LoopsInBounds, RunInv, [Next]_vars,
           NEW t \in Thread, NEW p \in Checked(t)', p \in Complete(t),
           ~validate(t, p)
    PROVE  /\ pc[t] \in Live /\ p \in Checked(t)
           /\ \A n \in Node : BoundOf(t, n)' # BoundOf(t, n) =>
                 BoundOf(t, n)' <= Version(t, p)
           /\ \A o \in Object : recheckVersion(t, o) /\ StillCurrent(t, o) =>
                 /\ p # o /\ Checked(t) = Complete(t) /\ ~Ahead(t)
                 /\ ts[t].version <= Version(t, p)
                      \/ ts[t].version <= VC[t][ts[t].node]
<1>0. /\ TypeOK /\ TypeOK' /\ ValidatingAhead /\ pc'[t] \in Live
      /\ p \in Complete(t)' /\ p \in Object
  BY DEF LockInv, RunInv, Checked, Complete, Accessed, TypeOK
<1>1. /\ ts[t].version \in Nat /\ ts[t].node \in Node /\ VC[t] \in [Node -> Nat]
      /\ Version(t, p) \in Nat
  BY <1>0 DEF TypeOK, Timestamp, Version, Copy
<1>2. ~begin(t)
  BY <1>0 DEF begin, Complete, ValidatingAhead, Accessed
<1>3. ASSUME NEW o \in Object, recheckVersion(t, o), StillCurrent(t, o)
      PROVE  /\ pc[t] \in Live /\ p # o /\ Checked(t) = Complete(t) /\ ~Ahead(t)
             /\ ts[t].version <= Version(t, p)
                  \/ ts[t].version <= VC[t][ts[t].node]
             /\ \A n \in Node : BoundOf(t, n)' # BoundOf(t, n) =>
                   BoundOf(t, n)' <= Version(t, p)
  <2>1. /\ pc[t] = "recheck" /\ pc'[t] = "increaseClock"
        /\ Complete(t) = Accessed(t) \ {o} /\ Complete(t)' = Accessed(t)
        /\ Accessed(t)' = Accessed(t)
        /\ ts'[t] = ts[t] /\ VC'[t] = VC[t] /\ ~Ahead(t) /\ Pending(t) = {}
    BY <1>0, <1>3, CopyTaken
  <2>2. Version(t, p)' = Version(t, p)
    BY <1>0, CompleteSame DEF Version
  <2>3. CASE Ahead(t)'
    <3>1. ~(ts'[t].version > Version(t, p)')
      BY <1>0, <2>1, <2>3 DEF Checked, Pending
    <3>2. ts[t].version <= Version(t, p)
      BY <1>1, <2>1, <2>2, <3>1
    <3>3. \A n \in Node : BoundOf(t, n)' # BoundOf(t, n) =>
             BoundOf(t, n)' = ts[t].version
      BY <2>1, <2>3 DEF BoundOf
    <3> QED
      BY <2>1, <3>2, <3>3 DEF Checked, Live
  <2>4. CASE ~Ahead(t)'
    <3>1. ts[t].version <= VC[t][ts[t].node]
      BY <1>1, <2>1, <2>4 DEF Ahead
    <3>2. \A n \in Node : BoundOf(t, n)' = BoundOf(t, n)
      BY <2>1, <2>4 DEF BoundOf
    <3> QED
      BY <2>1, <3>1, <3>2 DEF Checked, Live
  <2> QED
    BY <2>3, <2>4
<1>4. ASSUME NEW o \in Object, validate(t, o)
      PROVE  /\ pc[t] \in Live /\ p \in Checked(t)
             /\ \A n : BoundOf(t, n)' = BoundOf(t, n)
             /\ \A q \in Object : ~recheckVersion(t, q)
  <2>1. /\ pc[t] = "validate" /\ Pending(t)' = Pending(t) \ {o}
        /\ \A n : BoundOf(t, n)' = BoundOf(t, n)
    BY <1>0, <1>4, CopyChecked
  <2>2. p # o
    BY <1>4
  <2> QED
    BY <2>1, <2>2 DEF Checked, Live, recheckVersion
<1>5. ASSUME pc[t] \in Live, Kept(t),
             \A o \in Object : ~(recheckVersion(t, o) /\ StillCurrent(t, o))
      PROVE  p \in Checked(t) /\ \A n \in Node : BoundOf(t, n)' = BoundOf(t, n)
  BY <1>5 DEF Kept
<1> QED
  BY <1>0, <1>2, <1>3, <1>4, <1>5, LiveStep


\* What a published commit saw and wrote is no newer than the copies that its
\* version cannot have overtaken.
LEMMA CausesReachedStep ==
    ASSUME OneWriterNode, LockInv, LockInv', VersionInv, ContentInv, ContentInv',
           SerialInv, RunInv, RecordsOnce, RecordsOnce', CopiesWritten,
           CopiesOrdered, CausesReached, [Next]_vars
    PROVE  CausesReached'
<1>0. /\ TypeOK /\ TypeOK' /\ LoopsInBounds /\ Serializable /\ StampsDrawn
  BY DEF LockInv, VersionInv, SerialInv, RunInv
<1> SUFFICES ASSUME NEW h \in hist', NEW v \in Nat, Publishes(h, v)',
                    NEW t \in Thread,
                    NEW p \in Settling(t, v, nodeOf[h.tx[1]])' \cap h.acc,
                    NEW w \in Word
             PROVE  NotOlder(hist', copy'[t][p].val[w], Floor(h, p, w))
  BY DEF CausesReached, Reaches, NotOlder, Floor
<1> DEFINE n == nodeOf[h.tx[1]]
           f == Floor(h, p, w)
<1>1. /\ h \in hist
      /\ \/ Publishes(h, v)
         \/ \E u \in Thread : /\ getNextClock(u) /\ Me(u) = h.tx
                              /\ v = clock[nodeOf[u]] + 1
  BY PublishFrame
<1>2. /\ p \in Complete(t)' /\ p \in Object /\ n \in Node
      /\ Version(t, p)' >= v \/ (p \in Checked(t)' /\ v <= BoundOf(t, n)')
  BY <1>0, <1>1, ThreadAssumption
     DEF Settling, Complete, Accessed, TypeOK, Commits, Attempt
<1>3. WrittenTo(hist, p, f) /\ WrittenTo(hist', p, f)
  <2>1. WrittenTo(hist, p, f)
    BY <1>0, <1>1, FloorWritten
  <2>2. hist \subseteq hist'
    BY <1>0, FreshRecord
  <2> QED
    BY <2>1, <2>2, WrittenMore
<1> HIDE DEF n, f
<1>4. CASE p \notin Complete(t) \/ validate(t, p)
  <2>1. NotOlder(hist', copy'[t][p].val[w], f)
    BY <1>2, <1>3, <1>4, FreshNotOlder
  <2> QED
    BY <2>1 DEF f
<1>5. CASE p \in Complete(t) /\ ~validate(t, p)
  <2>1. Version(t, p)' = Version(t, p) /\ copy'[t][p].val = copy[t][p].val
    BY <1>0, <1>2, <1>5, CompleteSame DEF Version
  <2>2. WrittenTo(hist, p, copy[t][p].val[w])
    BY <1>5 DEF CopiesWritten
  <2>3. Version(t, p) \in Nat /\ BoundOf(t, n) \in Nat /\ BoundOf(t, n) <= clock[n]
    BY <1>0, <1>2, BoundDrawn DEF TypeOK, Copy, Timestamp, Version
  <2>4. \/ Version(t, p) >= v
        \/ p \in Checked(t) /\ v <= BoundOf(t, n)
    <3>1. CASE Version(t, p)' >= v
      BY <2>1, <3>1
    <3>2. CASE p \in Checked(t)' /\ v <= BoundOf(t, n)'
      <4>1. /\ p \in Checked(t)
            /\ BoundOf(t, n)' # BoundOf(t, n) => BoundOf(t, n)' <= Version(t, p)
        BY <1>0, <1>2, <1>5, <3>2, CheckedFrame
      <4>2. CASE BoundOf(t, n)' = BoundOf(t, n)
        BY <3>2, <4>1, <4>2
      <4>3. CASE BoundOf(t, n)' <= Version(t, p)
        <5>1. BoundOf(t, n)' \in Nat
          BY <1>0, <1>2 DEF BoundOf, TypeOK, Timestamp
        <5> QED
          BY <2>3, <3>2, <4>3, <5>1
      <4> QED
        BY <4>1, <4>2, <4>3
    <3> QED
      BY <1>2, <3>1, <3>2
  <2>5. NotOlder(hist, copy[t][p].val[w], f)
    <3>1. CASE Publishes(h, v)
      <4>1. p \in Settling(t, v, n)
        BY <1>5, <2>4 DEF Settling
      <4> QED
        BY <1>1, <3>1, <4>1 DEF CausesReached, Reaches, n, f
    <3>2. ASSUME NEW u \in Thread, getNextClock(u), Me(u) = h.tx,
                 v = clock[nodeOf[u]] + 1
          PROVE  NotOlder(hist, copy[t][p].val[w], f)
      <4>1. /\ pc[u] = "getNextClock" /\ n = nodeOf[u] /\ nodeOf[u] \in Node
            /\ clock[n] \in Nat
        BY <1>0, <3>2, ThreadAssumption DEF getNextClock, Me, n, TypeOK
      <4>2. Version(t, p) >= clock[n] + 1
        BY <2>3, <2>4, <3>2, <4>1
      <4>3. Version(u, p) \in Nat /\ Version(u, p) <= clock[n]
        <5>1. Version(u, p) \in Nat
          BY <1>0, <1>2 DEF TypeOK, Copy, Timestamp, Version
        <5>2. Version(u, p) <= clock[nodeOf[u]]
          BY <1>2, <4>1 DEF VersionInv, ClockAhead
        <5> QED
          BY <4>1, <5>1, <5>2
      <4>4. Version(t, p) > Version(u, p)
        BY <2>3, <4>1, <4>2, <4>3
      <4>5. /\ h.acc = Accessed(u) /\ h.writes = write_set[u]
            /\ h.seen[p] = copy[u][p].val
        BY <1>1, <1>2, <3>2, <4>1 DEF RecordsOnce, Updating
      <4>6. p \in Complete(u)
        BY <4>1, <4>5 DEF Complete
      <4>7. p \notin write_set[u]
        <5>1. SUFFICES ASSUME p \in write_set[u]
                       PROVE  FALSE
          OBVIOUS
        <5>2. grab[u][p] = "held"
          BY <4>1, <5>1 DEF LockInv, LocksComplete
        <5>3. /\ lock[p].version = Version(u, p)
              /\ Version(t, p) <= lock[p].version
          BY <1>2, <5>2 DEF VersionInv, HeldVersions, CopiesNotNewer
        <5> QED
          BY <2>3, <4>3, <4>4, <5>3
      <4>8. f = copy[u][p].val[w]
        BY <4>5, <4>7 DEF f, Floor
      <4> QED
        BY <1>5, <4>4, <4>6, <4>8 DEF CopiesOrdered
    <3> QED
      BY <1>1, <3>1, <3>2
  <2>6. NotOlder(hist', copy[t][p].val[w], f)
    BY <1>0, <1>3, <2>2, <2>5, NotOlderKept
  <2> QED
    BY <2>1, <2>6 DEF f
<1> QED
  BY <1>4, <1>5

\* The copies of a running transaction go on respecting cause and effect.
LEMMA CopiesReachedStep ==
    ASSUME OneWriterNode, LockInv, LockInv', VersionInv, ContentInv, ContentInv',
           SerialInv, RunInv, RecordsOnce, RecordsOnce', CopiesWritten,
           CausesReached, CopiesReached, [Next]_vars
    PROVE  CopiesReached'
<1>0. /\ TypeOK /\ TypeOK' /\ LoopsInBounds /\ Serializable /\ BlocksLast
  BY DEF LockInv, VersionInv, SerialInv
<1> SUFFICES ASSUME NEW t \in Thread, pc'[t] \in Live, NEW o \in Complete(t)',
                    NEW w \in Word, NEW h \in hist', h.tx = copy'[t][o].val[w],
                    NEW p \in Checked(t)' \cap h.acc, NEW x \in Word
             PROVE  NotOlder(hist', copy'[t][p].val[x], Floor(h, p, x))
  BY DEF CopiesReached, Reaches, NotOlder, Floor
<1> DEFINE f == Floor(h, p, x)
<1>1. o \in Object /\ p \in Object /\ p \in Complete(t)' /\ p \in h.acc
  BY <1>0 DEF Checked, Complete, Accessed, TypeOK
<1>2. h.tx # NoAttempt
  BY <1>0, NoAttemptAssumption DEF TypeOK, Commits, Attempt
<1>3. h \in hist
  <2>1. CASE o \in Complete(t)
    <3>1. WrittenTo(hist, o, h.tx)
      <4>1. copy'[t][o].val = copy[t][o].val
        BY <1>0, <2>1, CompleteSame
      <4> QED
        BY <2>1, <4>1 DEF CopiesWritten
    <3>2. \E k \in hist : k.tx = h.tx
      BY <1>2, <3>1 DEF WrittenTo, Writers
    <3> QED
      BY <1>0, <3>2, FreshRecord, RecordFields
  <2>2. CASE o \notin Complete(t)
    <3>1. recheckVersion(t, o) /\ StillCurrent(t, o)
      BY <1>0, <2>2, CompleteFrame
    <3> QED
      BY <1>0, <1>1, <3>1, CopyTaken
  <2> QED
    BY <2>1, <2>2
<1>4. WrittenTo(hist, p, f) /\ WrittenTo(hist', p, f)
  <2>1. WrittenTo(hist, p, f)
    BY <1>0, <1>1, <1>3, FloorWritten
  <2>2. hist \subseteq hist'
    BY <1>0, FreshRecord
  <2> QED
    BY <2>1, <2>2, WrittenMore
<1> HIDE DEF f
<1>5. CASE p \notin Complete(t) \/ validate(t, p)
  <2>1. NotOlder(hist', copy'[t][p].val[x], f)
    BY <1>1, <1>4, <1>5, FreshNotOlder
  <2> QED
    BY <2>1 DEF f
<1>6. CASE p \in Complete(t) /\ ~validate(t, p)
  <2>1. copy'[t][p].val = copy[t][p].val
    BY <1>0, <1>1, <1>6, CompleteSame
  <2>2. WrittenTo(hist, p, copy[t][p].val[x])
    BY <1>6 DEF CopiesWritten
  <2>3. /\ pc[t] \in Live /\ p \in Checked(t)
        /\ recheckVersion(t, o) /\ StillCurrent(t, o) =>
              /\ ~Ahead(t)
              /\ ts[t].version <= Version(t, p)
                   \/ ts[t].version <= VC[t][ts[t].node]
    BY <1>0, <1>1, <1>6, CheckedFrame
  <2>4. NotOlder(hist, copy[t][p].val[x], f)
    <3>1. CASE o \in Complete(t)
      <4>1. h.tx = copy[t][o].val[w]
        BY <1>0, <3>1, CompleteSame
      <4> QED
        BY <1>1, <1>3, <2>3, <3>1, <4>1 DEF CopiesReached, Reaches, Checked, f
    <3>2. CASE o \notin Complete(t)
      <4>1. recheckVersion(t, o) /\ StillCurrent(t, o)
        BY <1>0, <3>2, CompleteFrame
      <4>2. /\ pc[t] = "recheck" /\ todo[t] = {o}
            /\ ~LOCKBIT_TS(lock[o]) /\ lock[o].version = ts[t].version
            /\ lock[o].node = ts[t].node
        BY <1>0, <1>1, <4>1, CopyTaken
      <4>3. Stable(o)
        BY <1>1, <4>2, UnlockedStable
      <4>4. mem[o][w] = h.tx
        <5>1. o \in Accessed(t) /\ CopiesCurrent'
          BY <1>0, <1>1, <4>1, CopyTaken DEF ContentInv
        <5> QED
          BY <1>0, <4>1, <5>1, TakenCurrent
      <4>5. h \in Writers(hist, o)
        <5>1. Last(hist, o, mem[o][w])
          BY <1>0, <1>1, <4>3, StableLast
        <5>2. PICK k \in Writers(hist, o) : k.tx = h.tx
          BY <1>2, <4>4, <5>1 DEF Last, LeftLast
        <5> QED
          BY <1>3, <5>2 DEF RecordsOnce, OneEach, Writers
      <4>6. h.tx[1] \in Thread /\ o \in mayWrite[h.tx[1]]
        BY <1>0, <1>3, <4>5 DEF RecordsOnce, Writers, TypeOK, Commits, Attempt
      <4>7. lock[o].version = 0 \/ lock[o].node = nodeOf[h.tx[1]]
        BY <1>1, <4>6 DEF VersionInv, WriterStamps, FromWriter
      <4>8. /\ lock[o].version \in Nat /\ Version(t, p) \in Nat
        BY <1>0, <1>1 DEF TypeOK, Copy, Timestamp, Version
      <4>9. \/ Version(t, p) >= lock[o].version
            \/ lock[o].version <= BoundOf(t, nodeOf[h.tx[1]])
        <5>1. CASE lock[o].version = 0
          BY <4>8, <5>1
        <5>2. CASE ts[t].version <= Version(t, p)
          BY <4>2, <4>8, <5>2
        <5>3. CASE /\ ts[t].version <= VC[t][ts[t].node]
                   /\ lock[o].node = nodeOf[h.tx[1]]
          BY <2>3, <4>1, <4>2, <5>3 DEF BoundOf
        <5> QED
          BY <2>3, <4>1, <4>7, <5>1, <5>2, <5>3
      <4>10. p \in Settling(t, lock[o].version, nodeOf[h.tx[1]])
        BY <1>6, <2>3, <4>9 DEF Settling
      <4>11. Publishes(h, lock[o].version)
        BY <1>1, <4>3, <4>4 DEF Publishes
      <4> QED
        BY <1>1, <1>3, <4>8, <4>10, <4>11 DEF CausesReached, Reaches, f
    <3> QED
      BY <3>1, <3>2
  <2>5. NotOlder(hist', copy[t][p].val[x], f)
    BY <1>0, <1>4, <2>2, <2>4, NotOlderKept
  <2> QED
    BY <2>1, <2>5 DEF f
<1> QED
  BY <1>5, <1>6

\* CausalInv is inductive, given the serialization order.
LEMMA CausalStep ==
    ASSUME OneWriterNode, LockInv, LockInv', VersionInv, VersionInv', ContentInv,
           ContentInv', SerialInv, RunInv, CausalInv, [Next]_vars
    PROVE  CausalInv'
<1>0. RecordsOnce /\ CopiesWritten /\ CopiesOrdered /\ CausesReached /\ CopiesReached
  BY DEF CausalInv
<1>1. RecordsOnce'
  BY <1>0, RecordsOnceStep
<1>2. CopiesWritten'
  BY <1>0, <1>1, CopiesWrittenStep
<1>3. CopiesOrdered'
  BY <1>0, <1>1, <1>2, CopiesOrderedStep
<1>4. CausesReached' /\ CopiesReached'
  BY <1>0, <1>1, CausesReachedStep, CopiesReachedStep
<1> QED
  BY <1>1, <1>2, <1>3, <1>4 DEF CausalInv

\* Nothing is committed at first.
LEMMA CausalInit == Init => CausalInv
<1> SUFFICES ASSUME Init
             PROVE  CausalInv
  OBVIOUS
<1>1. hist = {} /\ \A t \in Thread : Complete(t) = {}
  BY DEF Init, Complete, Accessed
<1>2. RecordsOnce /\ CopiesWritten /\ CopiesOrdered
  BY <1>1 DEF RecordsOnce, OneEach, CopiesWritten, CopiesOrdered
<1>3. CausesReached
  BY <1>1 DEF CausesReached, Reaches, Settling
<1>4. CopiesReached
  BY <1>1 DEF CopiesReached
<1> QED
  BY <1>2, <1>3, <1>4 DEF CausalInv

\* Whatever the number of nodes, what a running transaction has checked is as
\* new as what the transactions it read from saw.
THEOREM CausalInvariant ==
    ASSUME OneWriterNode
    PROVE  Spec => [](/\ LockInv /\ VersionInv /\ ContentInv /\ SerialInv
                      /\ RunInv /\ CausalInv)
<1> DEFINE Inv == /\ LockInv /\ VersionInv /\ ContentInv /\ SerialInv
                  /\ RunInv /\ CausalInv
<1>1. Init => Inv
  BY LockInit, VersionInit, ContentInit, SerialInit, RunInit, CausalInit
<1>2. Inv /\ [Next]_vars => Inv'
  BY LockStep, VersionStep, ContentStep, SerialStep, RunStep, CausalStep
     DEF VersionInv
<1> QED
  BY <1>1, <1>2, PTL DEF Spec

\* The position of a recorded commit is that of its only record.
LEMMA WriterPosition ==
    ASSUME OneEach(hist), NEW h \in hist, h.tx # NoAttempt
    PROVE  WriterPos(h.tx) = h.pos
<1>1. (CHOOSE k \in hist : k.tx = h.tx) = h
  BY DEF OneEach
<1> QED
  BY <1>1 DEF WriterPos

\* Of two contents of a block, the one that is not older has the later place.
LEMMA PositionsOrdered ==
    ASSUME TypeOK, OneEach(hist), NEW o, NEW v, NEW f,
           WrittenTo(hist, o, v), WrittenTo(hist, o, f), NotOlder(hist, v, f)
    PROVE  WriterPos(v) >= WriterPos(f)
<1>1. CASE f = NoAttempt /\ v = NoAttempt
  BY <1>1 DEF WriterPos
<1>2. CASE f = NoAttempt /\ v # NoAttempt
  <2>1. PICK g \in hist : g.tx = v
    BY <1>2 DEF WrittenTo, Writers
  <2>2. WriterPos(v) = g.pos /\ g.pos \in Nat
    BY <1>2, <2>1, WriterPosition DEF TypeOK, Commits
  <2> QED
    BY <1>2, <2>2 DEF WriterPos
<1>3. CASE f # NoAttempt
  <2>1. v # NoAttempt
    BY <1>3 DEF NotOlder
  <2>2. PICK g \in hist, k \in hist : g.tx = v /\ k.tx = f
    BY <1>3, <2>1 DEF WrittenTo, Writers
  <2>3. WriterPos(v) = g.pos /\ WriterPos(f) = k.pos
    BY <1>3, <2>1, <2>2, WriterPosition
  <2> QED
    BY <1>3, <2>2, <2>3 DEF NotOlder
<1> QED
  BY <1>1, <1>2, <1>3

\* What a running transaction has read respects cause and effect, on any
\* number of nodes, if each object is written from one of them.
THEOREM SnapshotsCausal ==
    ASSUME OneWriterNode
    PROVE  Spec => []CausalSnapshot
<1>1. LockInv /\ SerialInv /\ CausalInv => CausalSnapshot
  <2> SUFFICES ASSUME LockInv, SerialInv, CausalInv, NEW t \in Thread, Settled(t),
                      NEW o \in Accessed(t), NEW p \in Accessed(t),
                      NEW w \in Word, NEW x \in Word, NEW h \in hist,
                      h.tx = copy[t][o].val[w], p \in h.acc
               PROVE  WriterPos(copy[t][p].val[x]) >=
                         IF p \in h.writes THEN h.pos ELSE WriterPos(h.seen[p][x])
    BY DEF CausalSnapshot
  <2>1. /\ pc[t] \in Live /\ Checked(t) = Accessed(t)
        /\ Complete(t) = Accessed(t)
    BY DEF Settled, Live, Complete, Checked, Pending, Ahead
  <2>2. TypeOK /\ Serializable /\ OneEach(hist) /\ CopiesWritten /\ CopiesReached
    BY DEF LockInv, SerialInv, CausalInv, RecordsOnce
  <2>3. NotOlder(hist, copy[t][p].val[x], Floor(h, p, x))
    BY <2>1, <2>2 DEF CopiesReached, Reaches
  <2>4. /\ WrittenTo(hist, p, copy[t][p].val[x])
        /\ WrittenTo(hist, p, Floor(h, p, x))
    BY <2>1, <2>2, FloorWritten DEF CopiesWritten
  <2>5. WriterPos(copy[t][p].val[x]) >= WriterPos(Floor(h, p, x))
    BY <2>2, <2>3, <2>4, PositionsOrdered
  <2>6. WriterPos(h.tx) = h.pos
    BY <2>2, WriterPosition, NoAttemptAssumption DEF TypeOK, Commits, Attempt
  <2> QED
    BY <2>5, <2>6 DEF Floor
<1>2. /\ LockInv /\ VersionInv /\ ContentInv /\ SerialInv /\ RunInv /\ CausalInv
      => CausalSnapshot
  BY <1>1
<1> QED
  BY <1>2, CausalInvariant, PTL
=============================================================================
