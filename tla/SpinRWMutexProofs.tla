-------------------------- MODULE SpinRWMutexProofs --------------------------
(***************************************************************************)
(* Why the word of spin_rw_mutex acts as a reader-writer lock, for any     *)
(* finite number of threads and calls: the word counts the threads that    *)
(* have added themselves and shows a writer and one that waits, and an     *)
(* upgrade that has set its bits keeps every other upgrade away.           *)
(***************************************************************************)
EXTENDS SpinRWMutex, FiniteSetTheorems, TLAPS

-----------------------------------------------------------------------------
(* The invariant. *)

PC == {"out", "reader", "writer", "swapWriter", "setPending", "addReader", "undo",
       "reading", "upgrade", "upgrading", "upgraded", "writing"}

TypeOK == /\ state \in Nat
          /\ pc \in [Locker -> PC]
          /\ s \in [Locker -> Nat]
          /\ try \in [Locker -> BOOLEAN]
          /\ calls \in Nat

At(L) == {t \in Locker : pc[t] \in L}

\* The threads the word counts, those that have set the writer's bit, and
\* those of them that came by an upgrade.
Counting == {"undo", "reading", "upgrade", "upgrading", "upgraded"}
Owning   == {"upgrading", "upgraded", "writing"}
Raising  == {"upgrading", "upgraded"}
Having   == {"reading", "upgrade", "upgrading", "upgraded", "writing"}

WordExact ==
    /\ Readers(state) = Cardinality(At(Counting))
    /\ Writer(state) <=> At(Owning) # {}
    /\ At(Raising) # {} => Pending(state)

\* At most one thread has set the writer's bit.
OneOwner == \A t, u \in At(Owning) : t = u

\* A writer is alone, and so is an upgrade whose readers have left.
Alone == \A t \in At({"upgraded", "writing"}), u \in At(Having) : t = u

\* acquire swaps the word of a free lock.
FreeLoaded == \A t \in At({"swapWriter"}) : ~Busy(s[t])

MutexInv == TypeOK /\ WordExact /\ OneOwner /\ Alone /\ FreeLoaded

-----------------------------------------------------------------------------
(* The arithmetic of the word. *)

\* Adding a reader, or taking one off, leaves the bits alone.
LEMMA WordReaders ==
    ASSUME NEW x \in Nat
    PROVE  /\ x + ONE_READER \in Nat
           /\ Readers(x + ONE_READER) = Readers(x) + 1
           /\ Writer(x + ONE_READER) <=> Writer(x)
           /\ Pending(x + ONE_READER) <=> Pending(x)
           /\ Readers(x) \in Nat
           /\ Readers(x) > 0 => /\ x - ONE_READER \in Nat
                                /\ Readers(x - ONE_READER) = Readers(x) - 1
                                /\ Writer(x - ONE_READER) <=> Writer(x)
                                /\ Pending(x - ONE_READER) <=> Pending(x)
  BY DEF ONE_READER, Readers, Writer, Pending

\* Setting bits leaves the readers alone.
LEMMA WordBits ==
    ASSUME NEW x \in Nat
    PROVE  /\ Or(x, WRITER_PENDING) \in Nat
           /\ Readers(Or(x, WRITER_PENDING)) = Readers(x)
           /\ Writer(Or(x, WRITER_PENDING)) <=> Writer(x)
           /\ Pending(Or(x, WRITER_PENDING))
           /\ Or(x, WRITER + WRITER_PENDING) \in Nat
           /\ Readers(Or(x, WRITER + WRITER_PENDING)) = Readers(x)
           /\ Writer(Or(x, WRITER + WRITER_PENDING))
           /\ Pending(Or(x, WRITER + WRITER_PENDING))
           /\ AndReaders(x) \in Nat
           /\ Readers(AndReaders(x)) = Readers(x)
           /\ ~Writer(AndReaders(x)) /\ ~Pending(AndReaders(x))
  BY DEF ONE_READER, WRITER, WRITER_PENDING, Readers, Writer, Pending, Or, AndReaders

\* The end of an upgrade, a downgrade, and a lock acquired by a writer.
LEMMA WordTurns ==
    ASSUME NEW x \in Nat
    PROVE  /\ Pending(x) /\ Writer(x) /\ Readers(x) > 0 =>
                /\ Upgraded(x) \in Nat
                /\ Readers(Upgraded(x)) = Readers(x) - 1
                /\ Writer(Upgraded(x)) /\ ~Pending(Upgraded(x))
           /\ Writer(x) =>
                /\ x + ONE_READER - WRITER \in Nat
                /\ Readers(x + ONE_READER - WRITER) = Readers(x) + 1
                /\ ~Writer(x + ONE_READER - WRITER)
                /\ Pending(x + ONE_READER - WRITER) <=> Pending(x)
           /\ Readers(WRITER) = 0 /\ Writer(WRITER) /\ WRITER \in Nat
           /\ Readers(0) = 0 /\ ~Writer(0) /\ ~Pending(0)
  BY DEF ONE_READER, WRITER, WRITER_PENDING, Readers, Writer, Pending, Upgraded

-----------------------------------------------------------------------------
(* Counting threads. *)

\* A thread that starts to be counted, stops, or does neither.
LEMMA CountMove ==
    ASSUME IsFiniteSet(Locker), TypeOK, NEW t \in Locker, NEW l \in PC, Goto(t, l)
    PROVE  /\ Cardinality(At(Counting)) \in Nat
           /\ pc' = [pc EXCEPT ![t] = l] /\ pc' \in [Locker -> PC] /\ pc'[t] = l
           /\ \A u \in Locker : u # t => pc'[u] = pc[u]
           /\ Cardinality(At(Counting))' =
                Cardinality(At(Counting))
                  + (IF l \in Counting THEN 1 ELSE 0)
                  - (IF pc[t] \in Counting THEN 1 ELSE 0)
<1> DEFINE C == At(Counting)
           D == At(Counting)'
<1>1. /\ pc' = [pc EXCEPT ![t] = l] /\ pc' \in [Locker -> PC] /\ pc'[t] = l
      /\ \A u \in Locker : u # t => pc'[u] = pc[u]
  BY DEF Goto, TypeOK
<1>2. C \in SUBSET Locker /\ IsFiniteSet(C)
  BY FS_Subset DEF At
<1>3. Cardinality(C) \in Nat
  BY <1>2, FS_CardinalityType
<1>4. CASE l \in Counting /\ pc[t] \notin Counting
  <2>1. D = C \cup {t} /\ t \notin C
    BY <1>1, <1>4 DEF At
  <2>2. Cardinality(D) = Cardinality(C) + 1
    BY <1>2, <2>1, FS_AddElement
  <2> QED
    BY <1>1, <1>3, <1>4, <2>2
<1>5. CASE l \notin Counting /\ pc[t] \in Counting
  <2>1. D = C \ {t} /\ t \in C
    BY <1>1, <1>5 DEF At
  <2>2. Cardinality(D) = Cardinality(C) - 1
    BY <1>2, <2>1, FS_RemoveElement
  <2> QED
    BY <1>1, <1>3, <1>5, <2>2
<1>6. CASE l \in Counting <=> pc[t] \in Counting
  <2>1. D = C
    BY <1>1, <1>6 DEF At
  <2> QED
    BY <1>1, <1>3, <1>6, <2>1
<1> QED
  BY <1>4, <1>5, <1>6

\* The word counts a thread, and it alone, or it and another one.
LEMMA CountOne ==
    ASSUME IsFiniteSet(Locker), TypeOK, NEW t \in At(Counting)
    PROVE  /\ Cardinality(At(Counting)) \in Nat /\ Cardinality(At(Counting)) > 0
           /\ Cardinality(At(Counting)) = 1 => At(Counting) = {t}
<1>1. At(Counting) \in SUBSET Locker /\ IsFiniteSet(At(Counting))
  BY FS_Subset DEF At
<1>2. Cardinality(At(Counting)) \in Nat /\ Cardinality(At(Counting)) # 0
  BY <1>1, FS_CardinalityType, FS_EmptySet
<1>3. Cardinality(At(Counting)) = 1 => \E x : At(Counting) = {x}
  BY <1>1, FS_Singleton
<1> QED
  BY <1>2, <1>3

\* What a step that goes to l does to a set of threads.
LEMMA AtMove ==
    ASSUME TypeOK, NEW t \in Locker, NEW l \in PC, Goto(t, l), NEW L
    PROVE  At(L)' = IF l \in L THEN At(L) \cup {t} ELSE At(L) \ {t}
  BY DEF At, Goto, TypeOK

-----------------------------------------------------------------------------
(* The steps. *)

\* A step on the way to the lock: the bits and the counted threads stay.
LEMMA QuietMove ==
    ASSUME IsFiniteSet(Locker), MutexInv, NEW t \in Locker, NEW l \in PC, Goto(t, l),
           l \notin Having \cup {"undo"}, pc[t] \notin Having \cup {"undo"},
           state' \in Nat, Readers(state') = Readers(state),
           Writer(state') <=> Writer(state), Pending(state) => Pending(state'),
           TypeOK', l = "swapWriter" => ~Busy(s'[t]),
           \A u \in Locker \ {t} : s'[u] = s[u]
    PROVE  MutexInv'
<1>0. /\ pc'[t] = l /\ \A u \in Locker : u # t => pc'[u] = pc[u]
      /\ Cardinality(At(Counting))' = Cardinality(At(Counting))
      /\ Cardinality(At(Counting)) \in Nat
  BY CountMove DEF MutexInv, Counting, Having
<1>1. WordExact'
  <2>1. At(Owning)' = At(Owning) /\ At(Raising)' = At(Raising)
    BY <1>0 DEF At, Owning, Raising, Having
  <2> QED
    BY <1>0, <2>1 DEF MutexInv, WordExact
<1>2. OneOwner' /\ Alone'
  BY <1>0 DEF MutexInv, OneOwner, Alone, At, Owning, Having
<1>3. FreeLoaded'
  BY <1>0 DEF MutexInv, FreeLoaded, At
<1> QED
  BY <1>1, <1>2, <1>3 DEF MutexInv

\* Every step keeps every variable in its type; the readers a step takes off
\* the word are in it.
LEMMA TypeStep ==
    ASSUME IsFiniteSet(Locker), MutexInv, [Next]_vars
    PROVE  TypeOK'
<1> USE DEF MutexInv, TypeOK, Goto, PC
<1>1. ASSUME NEW t \in Locker, pc[t] \in Counting
      PROVE  state - ONE_READER \in Nat /\ Readers(state) > 0
  <2>1. t \in At(Counting)
    BY <1>1 DEF At
  <2>2. Readers(state) > 0
    BY <2>1, CountOne DEF WordExact
  <2> QED
    BY <2>2, WordReaders
<1>2. ASSUME NEW t \in Locker, Step(t)
      PROVE  TypeOK'
  <2>1. CASE loadWriter(t) \/ swapWriter(t) \/ setPending(t) \/ loadReader(t)
    BY <2>1, WordBits DEF loadWriter, swapWriter, setPending, loadReader, Again, WRITER
  <2>2. CASE addReader(t) \/ undoReader(t)
    <3>1. state' \in Nat
      <4>1. addReader(t) => state' = state + ONE_READER
        BY DEF addReader
      <4>2. undoReader(t) => state' \in Nat
        BY <1>1 DEF undoReader, Counting
      <4> QED
        BY <2>2, <4>1, <4>2, WordReaders
    <3>2. PICK l \in PC : Goto(t, l)
      BY <2>2 DEF addReader, undoReader, Again
    <3>3. UNCHANGED <<s, try, calls>>
      BY <2>2 DEF addReader, undoReader
    <3> QED
      BY <3>1, <3>2, <3>3
  <2>3. CASE swapUpgrade(t)
    <3>1. pc[t] \in Counting
      BY <2>3 DEF swapUpgrade, Counting
    <3>2. state' \in Nat
      BY <1>1, <2>3, <3>1, WordBits DEF swapUpgrade
    <3>3. pc' \in [Locker -> PC]
      BY <2>3 DEF swapUpgrade
    <3>4. s' \in [Locker -> Nat]
      <4>1. s' = [s EXCEPT ![t] = 0] \/ s' = [s EXCEPT ![t] = state]
        BY <2>3 DEF swapUpgrade
      <4> QED
        BY <4>1
    <3>5. try' \in [Locker -> BOOLEAN]
      <4>1. try' = try \/ try' = [try EXCEPT ![t] = FALSE]
        BY <2>3 DEF swapUpgrade
      <4> QED
        BY <4>1
    <3> QED
      BY <2>3, <3>2, <3>3, <3>4, <3>5 DEF swapUpgrade
  <2>4. CASE lastReader(t)
    BY <2>4 DEF lastReader
  <2>5. CASE upgraded(t)
    <3>1. pc[t] = "upgraded"
      BY <2>5 DEF upgraded
    <3>2. Pending(state) /\ Writer(state)
      <4>1. t \in At(Raising) /\ t \in At(Owning)
        BY <3>1 DEF At, Raising, Owning
      <4> QED
        BY <4>1 DEF WordExact
    <3>3. Upgraded(state) \in Nat
      BY <1>1, <3>1, <3>2, WordTurns DEF Counting
    <3> QED
      BY <2>5, <3>3 DEF upgraded
  <2> QED
    BY <1>2, <2>1, <2>2, <2>3, <2>4, <2>5 DEF Step
<1>3. ASSUME NEW t \in Locker, Call(t)
      PROVE  TypeOK'
  <2>1. CASE downgrade_to_reader(t)
    <3>1. t \in At(Owning)
      BY <2>1 DEF downgrade_to_reader, At, Owning
    <3>2. state + ONE_READER - WRITER \in Nat
      BY <3>1, WordTurns DEF WordExact
    <3> QED
      BY <2>1, <3>2 DEF downgrade_to_reader, Called
  <2> QED
    BY <1>3, <2>1 DEF Call, acquire, upgrade_to_writer, Called
<1>4. ASSUME NEW t \in Locker, release(t)
      PROVE  TypeOK'
  BY <1>1, <1>4, WordBits DEF release, Counting
<1> QED
  BY <1>2, <1>3, <1>4 DEF Next, Finished, vars

\* Steps on the way to the lock.
LEMMA QuietSteps ==
    ASSUME IsFiniteSet(Locker), MutexInv, TypeOK', NEW t \in Locker,
           \/ \E write, once \in BOOLEAN : acquire(t, write, once)
           \/ loadWriter(t) \/ setPending(t) \/ loadReader(t)
           \/ swapWriter(t) /\ state # s[t]
    PROVE  MutexInv'
<1> USE DEF PC, Having
<1>0. TypeOK
  BY DEF MutexInv
<1>1. ASSUME NEW write \in BOOLEAN, NEW once \in BOOLEAN, acquire(t, write, once)
      PROVE  MutexInv'
  <2>1. PICK l \in {"writer", "reader"} : Goto(t, l)
    BY <1>1 DEF acquire
  <2> QED
    BY <1>0, <1>1, <2>1, QuietMove DEF acquire, TypeOK
<1>2. ASSUME loadWriter(t)
      PROVE  MutexInv'
  <2>1. PICK l \in {"swapWriter", "out", "writer", "setPending"} :
          Goto(t, l) /\ (l = "swapWriter" => ~Busy(state) /\ s' = [s EXCEPT ![t] = state])
    BY <1>2 DEF loadWriter, Again
  <2>2. \A u \in Locker \ {t} : s'[u] = s[u]
    BY <1>0, <1>2 DEF loadWriter, TypeOK
  <2>3. l = "swapWriter" => ~Busy(s'[t])
    BY <1>0, <2>1 DEF TypeOK
  <2>4. pc[t] = "writer" /\ state' = state
    BY <1>2 DEF loadWriter
  <2> QED
    BY <1>0, <2>1, <2>2, <2>3, <2>4, QuietMove DEF TypeOK
<1>3. ASSUME setPending(t)
      PROVE  MutexInv'
  BY <1>0, <1>3, WordBits, QuietMove DEF setPending, TypeOK
<1>4. ASSUME loadReader(t)
      PROVE  MutexInv'
  <2>1. PICK l \in {"out", "reader", "addReader"} : Goto(t, l)
    BY <1>4 DEF loadReader, Again
  <2> QED
    BY <1>0, <1>4, <2>1, QuietMove DEF loadReader, TypeOK
<1>5. ASSUME swapWriter(t), state # s[t]
      PROVE  MutexInv'
  <2>1. PICK l \in {"out", "writer"} : Goto(t, l)
    BY <1>5 DEF swapWriter, Again
  <2>2. \A u \in Locker \ {t} : s'[u] = s[u]
    BY <1>0, <1>5 DEF swapWriter, TypeOK
  <2> QED
    BY <1>0, <1>5, <2>1, <2>2, QuietMove DEF swapWriter, TypeOK
<1> QED
  BY <1>1, <1>2, <1>3, <1>4, <1>5

\* A free lock is taken by the writer whose swap succeeds.
LEMMA WriterStep ==
    ASSUME IsFiniteSet(Locker), MutexInv, TypeOK', NEW t \in Locker,
           swapWriter(t), state = s[t]
    PROVE  MutexInv' /\ At(Having) = {}
<1>0. TypeOK /\ pc[t] = "swapWriter" /\ state' = WRITER /\ Goto(t, "writing")
      /\ s' = [s EXCEPT ![t] = 0]
  BY DEF MutexInv, swapWriter
<1>1. ~Busy(state)
  BY <1>0 DEF MutexInv, FreeLoaded, At
<1>2. At(Owning) = {} /\ At(Counting) = {}
  <2>1. Cardinality(At(Counting)) = 0 /\ At(Owning) = {}
    BY <1>1 DEF Busy, MutexInv, WordExact
  <2>2. IsFiniteSet(At(Counting))
    BY FS_Subset DEF At
  <2> QED
    BY <2>1, <2>2, FS_EmptySet
<1>3. At(Having) = {}
  BY <1>2 DEF At, Having, Owning, Counting
<1>4. /\ pc'[t] = "writing" /\ \A u \in Locker : u # t => pc'[u] = pc[u]
      /\ Cardinality(At(Counting))' = 0
  <2>1. Cardinality(At(Counting)) = 0
    BY <1>2, FS_EmptySet
  <2> QED
    BY <1>0, <2>1, CountMove DEF PC, Counting
<1>5. WordExact'
  <2>1. At(Raising)' = {}
    BY <1>2, <1>4 DEF At, Raising, Owning
  <2>2. At(Owning)' = {t}
    BY <1>2, <1>4 DEF At, Owning
  <2>3. Readers(state') = 0 /\ Writer(state')
    BY <1>0, WordTurns
  <2> QED
    BY <1>4, <2>1, <2>2, <2>3 DEF WordExact
<1>6. OneOwner' /\ Alone'
  BY <1>2, <1>3, <1>4 DEF OneOwner, Alone, At, Owning, Having
<1>7. FreeLoaded'
  BY <1>0, <1>4 DEF MutexInv, FreeLoaded, At, TypeOK
<1> QED
  BY <1>3, <1>5, <1>6, <1>7 DEF MutexInv

\* A reader adds itself, and stays if no writer has come first.
LEMMA ReaderStep ==
    ASSUME IsFiniteSet(Locker), MutexInv, TypeOK', NEW t \in Locker, addReader(t)
    PROVE  /\ MutexInv'
           /\ pc[t] = "addReader"
           /\ \/ pc'[t] = "undo"
              \/ pc'[t] = "reading" /\ At({"upgraded", "writing"}) = {}
<1> DEFINE l == IF TooLate(state) THEN "undo" ELSE "reading"
<1>0. TypeOK /\ pc[t] = "addReader" /\ Goto(t, l) /\ l \in {"undo", "reading"}
      /\ state' = state + ONE_READER /\ s' = s
  BY DEF MutexInv, addReader
<1>1. /\ pc'[t] = l /\ \A u \in Locker : u # t => pc'[u] = pc[u]
      /\ Cardinality(At(Counting))' = Cardinality(At(Counting)) + 1
  BY <1>0, CountMove DEF PC, Counting
<1>2. l = "reading" => At(Owning) = {}
  BY DEF MutexInv, WordExact, TooLate
<1> HIDE DEF l
<1>3. WordExact'
  <2>1. At(Owning)' = At(Owning) /\ At(Raising)' = At(Raising)
    BY <1>0, <1>1 DEF At, Owning, Raising
  <2>2. /\ Readers(state') = Readers(state) + 1
        /\ (Writer(state') <=> Writer(state)) /\ (Pending(state') <=> Pending(state))
    BY <1>0, WordReaders DEF TypeOK
  <2> QED
    BY <1>1, <2>1, <2>2 DEF MutexInv, WordExact
<1>4. OneOwner' /\ Alone'
  BY <1>0, <1>1, <1>2 DEF MutexInv, OneOwner, Alone, At, Owning, Having
<1>5. FreeLoaded'
  BY <1>0, <1>1 DEF MutexInv, FreeLoaded, At
<1>6. l = "reading" => At({"upgraded", "writing"}) = {}
  BY <1>2 DEF At, Owning
<1> QED
  BY <1>0, <1>1, <1>3, <1>4, <1>5, <1>6 DEF MutexInv

\* A thread that takes itself off the word.
LEMMA LeaveStep ==
    ASSUME IsFiniteSet(Locker), MutexInv, TypeOK', NEW t \in Locker,
           NEW l \in {"out", "reader", "writer"}, Goto(t, l),
           pc[t] \in {"undo", "reading", "upgrade"}, state' = state - ONE_READER,
           \A u \in Locker \ {t} : s'[u] = s[u]
    PROVE  MutexInv'
<1>0. TypeOK
  BY DEF MutexInv
<1>1. /\ pc'[t] = l /\ \A u \in Locker : u # t => pc'[u] = pc[u]
      /\ Cardinality(At(Counting))' = Cardinality(At(Counting)) - 1
  BY <1>0, CountMove DEF PC, Counting
<1>2. WordExact'
  <2>1. At(Owning)' = At(Owning) /\ At(Raising)' = At(Raising)
    BY <1>1 DEF At, Owning, Raising
  <2>2. t \in At(Counting)
    BY DEF At, Counting
  <2>3. Readers(state) > 0
    BY <1>0, <2>2, CountOne DEF MutexInv, WordExact
  <2>4. /\ Readers(state') = Readers(state) - 1
        /\ (Writer(state') <=> Writer(state)) /\ (Pending(state') <=> Pending(state))
    BY <1>0, <2>3, WordReaders DEF TypeOK
  <2> QED
    BY <1>1, <2>1, <2>4 DEF MutexInv, WordExact
<1>3. OneOwner' /\ Alone'
  BY <1>1 DEF MutexInv, OneOwner, Alone, At, Owning, Having
<1>4. FreeLoaded'
  BY <1>1 DEF MutexInv, FreeLoaded, At
<1> QED
  BY <1>2, <1>3, <1>4 DEF MutexInv

\* An upgrade sets its bits when no other one has: two at once, with readers
\* to wait for, would wait for each other.
LEMMA UpgradeStep ==
    ASSUME IsFiniteSet(Locker), MutexInv, TypeOK', NEW t \in Locker,
           pc[t] = "upgrade", MayUpgrade(state), Goto(t, "upgrading"),
           state' = Or(state, WRITER + WRITER_PENDING),
           \A u \in Locker \ {t} : s'[u] = s[u]
    PROVE  MutexInv'
<1>0. TypeOK /\ t \in At(Counting) /\ t \in At(Having)
  BY DEF MutexInv, At, Counting, Having
<1>1. At(Owning) = {}
  <2> SUFFICES ASSUME NEW u \in At(Owning)
               PROVE  FALSE
    OBVIOUS
  <2>1. u \in Locker /\ u # t
    BY DEF At, Owning
  <2>2. pc[u] = "upgrading"
    BY <1>0, <2>1 DEF MutexInv, Alone, At, Owning
  <2>3. Pending(state)
    BY <2>1, <2>2 DEF MutexInv, WordExact, At, Raising
  <2>4. u \in At(Counting)
    BY <2>1, <2>2 DEF At, Counting
  <2>5. Cardinality(At(Counting)) # 1
    BY <1>0, <2>1, <2>4, CountOne
  <2> QED
    BY <2>3, <2>5 DEF MutexInv, WordExact, MayUpgrade
<1>2. /\ pc'[t] = "upgrading" /\ \A u \in Locker : u # t => pc'[u] = pc[u]
      /\ Cardinality(At(Counting))' = Cardinality(At(Counting))
      /\ Cardinality(At(Counting)) \in Nat
  BY <1>0, CountMove DEF PC, Counting
<1>3. WordExact'
  <2>1. Readers(state') = Readers(state) /\ Writer(state') /\ Pending(state')
    BY <1>0, WordBits DEF TypeOK
  <2>2. At(Owning)' # {}
    BY <1>2 DEF At, Owning
  <2> QED
    BY <1>2, <2>1, <2>2 DEF MutexInv, WordExact
<1>4. OneOwner' /\ Alone'
  BY <1>1, <1>2 DEF MutexInv, OneOwner, Alone, At, Owning, Having
<1>5. FreeLoaded'
  BY <1>2 DEF MutexInv, FreeLoaded, At
<1> QED
  BY <1>3, <1>4, <1>5 DEF MutexInv

\* When the word counts one reader, it is the one that upgrades.
LEMMA LastStep ==
    ASSUME IsFiniteSet(Locker), MutexInv, TypeOK', NEW t \in Locker, lastReader(t)
    PROVE  MutexInv'
<1>0. /\ TypeOK /\ pc[t] = "upgrading" /\ Readers(state) = 1 /\ Goto(t, "upgraded")
      /\ state' = state /\ s' = s /\ t \in At(Counting) /\ t \in At(Owning)
  BY DEF MutexInv, lastReader, At, Counting, Owning
<1>1. At(Counting) = {t}
  BY <1>0, CountOne DEF MutexInv, WordExact
<1>2. /\ pc'[t] = "upgraded" /\ \A u \in Locker : u # t => pc'[u] = pc[u]
      /\ Cardinality(At(Counting))' = Cardinality(At(Counting))
      /\ Cardinality(At(Counting)) \in Nat
  BY <1>0, CountMove DEF PC, Counting
<1>3. WordExact'
  <2>1. At(Owning)' = At(Owning) /\ At(Raising)' = At(Raising)
    BY <1>0, <1>2 DEF At, Owning, Raising
  <2> QED
    BY <1>0, <1>2, <2>1 DEF MutexInv, WordExact
<1>4. OneOwner' /\ Alone'
  <2>1. \A u \in Locker : u # t => pc[u] \notin Having
    <3> SUFFICES ASSUME NEW u \in Locker, u # t, pc[u] \in Having
                 PROVE  FALSE
      OBVIOUS
    <3>1. pc[u] = "writing"
      BY <1>1 DEF At, Counting, Having
    <3>2. u \in At(Owning)
      BY <3>1 DEF At, Owning
    <3> QED
      BY <1>0, <3>2 DEF MutexInv, OneOwner
  <2> QED
    BY <1>2, <2>1 DEF OneOwner, Alone, At, Owning, Having
<1>5. FreeLoaded'
  BY <1>0, <1>2 DEF MutexInv, FreeLoaded, At
<1> QED
  BY <1>3, <1>4, <1>5 DEF MutexInv

\* Who upgrades to a writer, writes and goes back to a reader, or stops
\* writing, is alone with the lock.
LEMMA AloneStep ==
    ASSUME IsFiniteSet(Locker), MutexInv, TypeOK', NEW t \in Locker,
           \/ upgraded(t) \/ downgrade_to_reader(t)
           \/ release(t) /\ pc[t] = "writing"
    PROVE  /\ MutexInv'
           /\ \A u \in Locker : u # t => pc[u] \notin Having
<1>0. TypeOK /\ pc[t] \in {"upgraded", "writing"}
      /\ \A u \in Locker \ {t} : s'[u] = s[u]
  BY DEF MutexInv, upgraded, downgrade_to_reader, release, TypeOK
<1>1. \A u \in Locker : u # t => pc[u] \notin Having
  BY <1>0 DEF MutexInv, Alone, At
<1>2. Writer(state) /\ state \in Nat
  BY <1>0 DEF MutexInv, WordExact, At, Owning, TypeOK
<1>3. PICK l \in {"writing", "reading", "out"} : Goto(t, l)
  BY DEF upgraded, downgrade_to_reader, release
<1>4. /\ pc'[t] = l /\ \A u \in Locker : u # t => pc'[u] = pc[u]
  BY <1>0, <1>3, CountMove DEF PC
<1>5. At(Raising)' = {}
  BY <1>1, <1>4 DEF At, Raising, Having
<1>6. ASSUME upgraded(t)
      PROVE  WordExact'
  <2>1. pc[t] = "upgraded" /\ Goto(t, "writing") /\ state' = Upgraded(state)
    BY <1>6 DEF upgraded
  <2>2. Pending(state) /\ Readers(state) > 0
    <3>1. t \in At(Raising) /\ t \in At(Counting)
      BY <2>1 DEF At, Raising, Counting
    <3> QED
      BY <1>0, <3>1, CountOne DEF MutexInv, WordExact
  <2>3. Readers(state') = Readers(state) - 1 /\ Writer(state')
    BY <1>2, <2>1, <2>2, WordTurns
  <2>4. Cardinality(At(Counting))' = Cardinality(At(Counting)) - 1
    BY <1>0, <2>1, CountMove DEF PC, Counting
  <2>5. At(Owning)' # {}
    BY <1>0, <2>1 DEF At, Owning, Goto, TypeOK
  <2> QED
    BY <1>5, <2>3, <2>4, <2>5 DEF MutexInv, WordExact
<1>7. ASSUME downgrade_to_reader(t)
      PROVE  WordExact'
  <2>1. /\ pc[t] = "writing" /\ Goto(t, "reading")
        /\ state' = state + ONE_READER - WRITER
    BY <1>7 DEF downgrade_to_reader
  <2>2. Readers(state') = Readers(state) + 1 /\ ~Writer(state')
    BY <1>2, <2>1, WordTurns
  <2>3. Cardinality(At(Counting))' = Cardinality(At(Counting)) + 1
    BY <1>0, <2>1, CountMove DEF PC, Counting
  <2>4. At(Owning)' = {}
    BY <1>0, <1>1, <2>1, <1>4 DEF At, Owning, Goto, TypeOK, Having
  <2> QED
    BY <1>5, <2>2, <2>3, <2>4 DEF MutexInv, WordExact
<1>8. ASSUME release(t), pc[t] = "writing"
      PROVE  WordExact'
  <2>1. Goto(t, "out") /\ state' = AndReaders(state)
    BY <1>8 DEF release
  <2>2. Readers(state') = Readers(state) /\ ~Writer(state')
    BY <1>2, <2>1, WordBits
  <2>3. /\ Cardinality(At(Counting))' = Cardinality(At(Counting))
        /\ Cardinality(At(Counting)) \in Nat
    BY <1>0, <1>8, <2>1, CountMove DEF PC, Counting
  <2>4. At(Owning)' = {}
    BY <1>0, <1>1, <2>1, <1>4 DEF At, Owning, Goto, TypeOK, Having
  <2> QED
    BY <1>5, <2>2, <2>3, <2>4 DEF MutexInv, WordExact
<1>9. OneOwner' /\ Alone'
  BY <1>1, <1>4 DEF OneOwner, Alone, At, Owning, Having
<1>10. FreeLoaded'
  BY <1>0, <1>4 DEF MutexInv, FreeLoaded, At
<1> QED
  BY <1>1, <1>6, <1>7, <1>8, <1>9, <1>10 DEF MutexInv

\* Every step keeps the invariant.
LEMMA MutexStep ==
    ASSUME IsFiniteSet(Locker), MutexInv, [Next]_vars
    PROVE  MutexInv'
<1>0. TypeOK /\ TypeOK'
  BY TypeStep DEF MutexInv
<1>1. ASSUME NEW t \in Locker, swapUpgrade(t)
      PROVE  MutexInv'
  <2>1. /\ pc[t] = "upgrade"
        /\ UNCHANGED s \/ \E v \in Nat : s' = [s EXCEPT ![t] = v]
    BY <1>0, <1>1 DEF swapUpgrade, TypeOK
  <2>2. \A u \in Locker \ {t} : s'[u] = s[u]
    BY <1>0, <2>1 DEF TypeOK
  <2>3. CASE MayUpgrade(s[t]) /\ state = s[t]
    BY <1>0, <1>1, <2>1, <2>2, <2>3, UpgradeStep DEF swapUpgrade
  <2>4. CASE MayUpgrade(s[t]) /\ state # s[t]
    <3>1. UNCHANGED <<state, pc>>
      BY <1>1, <2>4 DEF swapUpgrade
    <3>2. WordExact' /\ OneOwner' /\ Alone'
      BY <3>1 DEF MutexInv, WordExact, OneOwner, Alone, At
    <3>3. FreeLoaded'
      BY <2>1, <2>2, <3>1 DEF MutexInv, FreeLoaded, At
    <3> QED
      BY <1>0, <3>2, <3>3 DEF MutexInv
  <2>5. CASE ~MayUpgrade(s[t])
    BY <1>0, <1>1, <2>1, <2>2, <2>5, LeaveStep DEF swapUpgrade
  <2> QED
    BY <2>3, <2>4, <2>5
<1>2. ASSUME NEW t \in Locker, upgrade_to_writer(t)
      PROVE  MutexInv'
  <2>1. /\ pc[t] = "reading" /\ Goto(t, "upgrade") /\ state' = state
        /\ \A u \in Locker \ {t} : s'[u] = s[u]
    BY <1>0, <1>2 DEF upgrade_to_writer, TypeOK
  <2>2. /\ pc'[t] = "upgrade" /\ \A u \in Locker : u # t => pc'[u] = pc[u]
        /\ Cardinality(At(Counting))' = Cardinality(At(Counting))
        /\ Cardinality(At(Counting)) \in Nat
    BY <1>0, <2>1, CountMove DEF PC, Counting
  <2>3. At(Owning)' = At(Owning) /\ At(Raising)' = At(Raising)
    BY <2>1, <2>2 DEF At, Owning, Raising
  <2>4. WordExact'
    BY <2>1, <2>2, <2>3 DEF MutexInv, WordExact
  <2>5. OneOwner' /\ Alone'
    BY <2>1, <2>2 DEF MutexInv, OneOwner, Alone, At, Owning, Having
  <2>6. FreeLoaded'
    BY <2>1, <2>2 DEF MutexInv, FreeLoaded, At
  <2> QED
    BY <1>0, <2>4, <2>5, <2>6 DEF MutexInv
<1>3. ASSUME NEW t \in Locker, (release(t) /\ pc[t] = "reading") \/ undoReader(t)
      PROVE  MutexInv'
  <2>1. PICK l \in {"out", "reader"} : Goto(t, l)
    BY <1>3 DEF release, undoReader, Again
  <2> QED
    BY <1>0, <1>3, <2>1, LeaveStep DEF release, undoReader
<1>4. CASE UNCHANGED vars
  BY <1>4 DEF vars, MutexInv, TypeOK, WordExact, OneOwner, Alone, FreeLoaded, At
<1>5. ASSUME NEW t \in Locker, Step(t) \/ Call(t) \/ release(t)
      PROVE  MutexInv'
  BY <1>0, <1>1, <1>2, <1>3, <1>5, QuietSteps, WriterStep, ReaderStep, LastStep,
     AloneStep DEF Step, Call, release
<1> QED
  BY <1>4, <1>5 DEF Next, Finished

\* The lock is free at first.
LEMMA MutexStart == Init => MutexInv
<1> SUFFICES ASSUME Init
             PROVE  MutexInv
  OBVIOUS
<1>1. state = 0 /\ \A t \in Locker : pc[t] = "out"
  BY DEF Init
<1>2. \A L \in SUBSET (PC \ {"out"}) : At(L) = {}
  BY <1>1 DEF At
<1>3. TypeOK
  BY DEF Init, TypeOK, PC
<1>4. WordExact
  <2>1. At(Counting) = {} /\ At(Owning) = {} /\ At(Raising) = {}
    BY <1>2 DEF Counting, Owning, Raising, PC
  <2> QED
    BY <1>1, <2>1, FS_EmptySet, WordTurns DEF WordExact
<1>5. OneOwner /\ Alone /\ FreeLoaded
  BY <1>1 DEF OneOwner, Alone, FreeLoaded, At, Owning
<1> QED
  BY <1>3, <1>4, <1>5 DEF MutexInv

\* The word counts its readers and shows its writer, at every step of every
\* thread.
THEOREM MutexInvariant == FairSpec => []MutexInv
<1>1. MutexInv /\ [Next]_vars => MutexInv'
  BY LockerAssumption, MutexStep
<1> QED
  BY <1>1, MutexStart, PTL DEF FairSpec

-----------------------------------------------------------------------------
(* The reader-writer lock. *)

LockReaders == At({"reading", "upgrade", "upgrading", "upgraded"})
LockWriters == At({"writing"})

RWStep == \/ \E t \in Locker :
                \/ Lock!acquireReader(t) \/ Lock!acquireWriter(t) \/ Lock!upgrade(t)
                \/ Lock!downgrade(t) \/ Lock!release(t)
          \/ UNCHANGED <<LockReaders, LockWriters>>

\* A step is one of the lock's or changes nothing it shows.
LEMMA RWMove ==
    ASSUME IsFiniteSet(Locker), MutexInv, [Next]_vars
    PROVE  RWStep
<1> USE DEF LockReaders, LockWriters
<1> DEFINE Rd == {"reading", "upgrade", "upgrading", "upgraded"}
<1>0. TypeOK /\ TypeOK'
  BY TypeStep DEF MutexInv
<1>1. ASSUME NEW t \in Locker, NEW l \in PC, Goto(t, l),
             l \in Rd <=> pc[t] \in Rd, l = "writing" <=> pc[t] = "writing"
      PROVE  RWStep
  <2>1. UNCHANGED <<At(Rd), At({"writing"})>>
    BY <1>0, <1>1 DEF At, Goto, TypeOK
  <2> QED
    BY <2>1 DEF RWStep
<1>2. CASE UNCHANGED vars
  BY <1>2 DEF RWStep, At, vars
<1>3. ASSUME NEW t \in Locker, addReader(t)
      PROVE  RWStep
  <2>1. PICK l \in {"undo", "reading"} : Goto(t, l) /\ pc[t] = "addReader"
    BY <1>3 DEF addReader
  <2>2. CASE l = "undo"
    BY <1>1, <2>1, <2>2 DEF PC
  <2>3. CASE l = "reading"
    <3>1. pc'[t] = "reading"
      BY <1>0, <2>1, <2>3 DEF Goto, TypeOK
    <3>2. At({"upgraded", "writing"}) = {}
      BY <1>0, <1>3, <3>1, ReaderStep
    <3>3. At({"writing"}) = {} /\ t \notin At(Rd)
      BY <2>1, <3>2 DEF At
    <3>4. At(Rd)' = At(Rd) \cup {t} /\ At({"writing"})' = At({"writing"})
      BY <1>0, <2>1, <2>3, <3>3, AtMove DEF PC
    <3> QED
      BY <3>3, <3>4 DEF RWStep, Lock!acquireReader, At
  <2> QED
    BY <2>2, <2>3
<1>4. ASSUME NEW t \in Locker, swapWriter(t)
      PROVE  RWStep
  <2>1. CASE state = s[t]
    <3>1. At(Having) = {} /\ Goto(t, "writing")
      BY <1>0, <1>4, <2>1, WriterStep DEF swapWriter
    <3>2. At(Rd) = {} /\ At({"writing"}) = {}
      BY <3>1 DEF At, Having
    <3>3. At(Rd)' = {} /\ At({"writing"})' = {t}
      BY <1>0, <3>1, <3>2, AtMove DEF PC
    <3> QED
      BY <3>2, <3>3 DEF RWStep, Lock!acquireWriter, At
  <2>2. CASE state # s[t]
    <3>1. PICK l \in {"out", "writer"} : Goto(t, l) /\ pc[t] = "swapWriter"
      BY <1>4, <2>2 DEF swapWriter, Again
    <3> QED
      BY <1>1, <3>1 DEF PC
  <2> QED
    BY <2>1, <2>2
<1>5. ASSUME NEW t \in Locker, NEW l \in {"out", "writer"}, Goto(t, l),
             pc[t] \in {"reading", "upgrade"}
      PROVE  RWStep
  <2>1. t \in At(Rd) /\ t \notin At({"writing"})
    BY <1>5 DEF At
  <2>2. At(Rd)' = At(Rd) \ {t} /\ At({"writing"})' = At({"writing"}) \ {t}
    BY <1>0, <1>5, AtMove DEF PC
  <2> QED
    BY <2>1, <2>2 DEF RWStep, Lock!release, At
<1>6. ASSUME NEW t \in Locker, swapUpgrade(t)
      PROVE  RWStep
  <2>1. CASE MayUpgrade(s[t]) /\ state = s[t]
    BY <1>1, <1>6, <2>1 DEF swapUpgrade, PC
  <2>2. CASE MayUpgrade(s[t]) /\ state # s[t]
    <3>1. pc' = pc
      BY <1>6, <2>2 DEF swapUpgrade
    <3> QED
      BY <3>1 DEF RWStep, At
  <2>3. CASE ~MayUpgrade(s[t])
    BY <1>5, <1>6, <2>3 DEF swapUpgrade
  <2> QED
    BY <2>1, <2>2, <2>3
<1>7. ASSUME NEW t \in Locker, \A u \in Locker : u # t => pc[u] \notin Having
      PROVE  /\ upgraded(t) => RWStep
             /\ downgrade_to_reader(t) => RWStep
             /\ release(t) /\ pc[t] = "writing" => RWStep
  <2>1. ASSUME upgraded(t)
        PROVE  RWStep
    <3>1. pc[t] = "upgraded" /\ Goto(t, "writing")
      BY <2>1 DEF upgraded
    <3>2. At(Rd) = {t} /\ At({"writing"}) = {}
      BY <1>7, <3>1 DEF At, Having
    <3>3. At(Rd)' = {} /\ At({"writing"})' = {t}
      BY <1>0, <3>1, <3>2, AtMove DEF PC
    <3> QED
      BY <3>2, <3>3 DEF RWStep, Lock!upgrade, At
  <2>2. ASSUME downgrade_to_reader(t)
        PROVE  RWStep
    <3>1. pc[t] = "writing" /\ Goto(t, "reading")
      BY <2>2 DEF downgrade_to_reader
    <3>2. At(Rd) = {} /\ At({"writing"}) = {t}
      BY <1>7, <3>1 DEF At, Having
    <3>3. At(Rd)' = At(Rd) \cup {t} /\ At({"writing"})' = {}
      BY <1>0, <3>1, <3>2, AtMove DEF PC
    <3> QED
      BY <3>2, <3>3 DEF RWStep, Lock!downgrade, At
  <2>3. ASSUME release(t), pc[t] = "writing"
        PROVE  RWStep
    <3>1. Goto(t, "out")
      BY <2>3 DEF release
    <3>2. t \in At({"writing"})
      BY <2>3 DEF At
    <3>3. At(Rd)' = At(Rd) \ {t} /\ At({"writing"})' = At({"writing"}) \ {t}
      BY <1>0, <3>1, AtMove DEF PC
    <3> QED
      BY <3>2, <3>3 DEF RWStep, Lock!release, At
  <2> QED
    BY <2>1, <2>2, <2>3
<1>8. ASSUME NEW t \in Locker,
             \/ loadWriter(t) \/ setPending(t) \/ loadReader(t) \/ undoReader(t)
             \/ lastReader(t) \/ upgrade_to_writer(t)
             \/ \E write, once \in BOOLEAN : acquire(t, write, once)
      PROVE  RWStep
  <2>1. PICK l \in PC : /\ Goto(t, l)
                        /\ l \in Rd <=> pc[t] \in Rd
                        /\ l = "writing" <=> pc[t] = "writing"
    BY <1>8 DEF loadWriter, setPending, loadReader, undoReader, lastReader,
                upgrade_to_writer, acquire, Again, PC
  <2> QED
    BY <1>1, <2>1
<1>9. ASSUME NEW t \in Locker, Step(t) \/ Call(t) \/ release(t)
      PROVE  RWStep
  <2>1. \/ upgraded(t) \/ downgrade_to_reader(t) \/ (release(t) /\ pc[t] = "writing")
        => RWStep
    BY <1>0, <1>7, AloneStep
  <2>2. release(t) /\ pc[t] = "reading" => RWStep
    BY <1>5 DEF release
  <2> QED
    BY <1>3, <1>4, <1>6, <1>8, <1>9, <2>1, <2>2 DEF Step, Call, release
<1> QED
  BY <1>2, <1>9 DEF Next, Finished

\* Through late readers, waiting writers and competing upgrades the word acts
\* as a reader-writer lock.
THEOREM MutexRefinement == FairSpec => RefinesRWLock
<1>1. Init => Lock!RWInit
  BY DEF Init, Lock!RWInit
<1>2. MutexInv /\ [Next]_vars => [Lock!RWNext]_(Lock!lock)
  <2> SUFFICES ASSUME MutexInv, [Next]_vars
               PROVE  [Lock!RWNext]_(Lock!lock)
    OBVIOUS
  <2>1. RWStep
    BY LockerAssumption, RWMove
  <2> QED
    BY <2>1 DEF RWStep, Lock!RWNext, Lock!lock, LockReaders, LockWriters, At
<1> QED
  BY <1>1, <1>2, MutexInvariant, PTL DEF FairSpec, RefinesRWLock, Lock!RWSpec
=============================================================================
