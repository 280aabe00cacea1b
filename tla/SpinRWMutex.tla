----------------------------- MODULE SpinRWMutex ----------------------------
(***************************************************************************)
(* tbb::spin_rw_mutex: a reader-writer lock in one word.  Bit 0 is the     *)
(* writer, bit 1 a writer that waits (readers then stay away), the rest    *)
(* counts the readers, those included that came too late and have yet to   *)
(* take their increment back.  The threads use scoped_lock, as             *)
(* concurrent_hash_map does; the processor's atomic operations are steps.  *)
(***************************************************************************)
EXTENDS Integers, FiniteSets

CONSTANTS Locker,
          MaxLocks  \* bound: acquisitions, upgrades and downgrades

ASSUME LockerAssumption == IsFiniteSet(Locker)

WRITER == 1
WRITER_PENDING == 2
ONE_READER == 4

VARIABLES state,
          pc,     \* where each thread is; "reading" and "writing": it has it
          s,      \* the value a thread has loaded
          try,    \* the call is try_acquire
          calls

vars == <<state, pc, s, try, calls>>

Writer(x)  == x % 2 = 1
Pending(x) == (x \div 2) % 2 = 1
Readers(x) == x \div 4
Busy(x)    == Writer(x) \/ Readers(x) # 0
\* x | bits and x & READERS
Or(x, bits) == Readers(x) * ONE_READER
                 + (IF Writer(x) \/ bits % 2 = 1 THEN WRITER ELSE 0)
                 + (IF Pending(x) \/ bits \div 2 = 1 THEN WRITER_PENDING ELSE 0)
AndReaders(x) == Readers(x) * ONE_READER

Init == /\ state = 0
        /\ pc = [t \in Locker |-> "out"]
        /\ s = [t \in Locker |-> 0]
        /\ try = [t \in Locker |-> FALSE]
        /\ calls = 0

Goto(t, l) == pc' = [pc EXCEPT ![t] = l]
\* A failed attempt: another one, or the end of try_acquire.
Again(t, l) == Goto(t, IF try[t] THEN "out" ELSE l)
Called == calls < MaxLocks /\ calls' = calls + 1

acquire(t, write, once) ==
    /\ pc[t] = "out" /\ Called
    /\ try' = [try EXCEPT ![t] = once]
    /\ Goto(t, IF write THEN "writer" ELSE "reader")
    /\ UNCHANGED <<state, s>>

-----------------------------------------------------------------------------
(* internal_acquire_writer, internal_try_acquire_writer *)

loadWriter(t) ==
    /\ pc[t] = "writer"
    /\ \/ /\ ~Busy(state) /\ Goto(t, "swapWriter")
          /\ s' = [s EXCEPT ![t] = state]
       \/ /\ Busy(state) /\ UNCHANGED s
          /\ IF try[t] \/ Pending(state) THEN Again(t, "writer")
             ELSE Goto(t, "setPending")
    /\ UNCHANGED <<state, try, calls>>

swapWriter(t) ==
    /\ pc[t] = "swapWriter"
    /\ \/ state = s[t] /\ state' = WRITER /\ Goto(t, "writing")
       \/ state # s[t] /\ UNCHANGED state /\ Again(t, "writer")
    /\ s' = [s EXCEPT ![t] = 0]
    /\ UNCHANGED <<try, calls>>

setPending(t) ==
    /\ pc[t] = "setPending"
    /\ state' = Or(state, WRITER_PENDING)
    /\ Goto(t, "writer")
    /\ UNCHANGED <<s, try, calls>>

(* internal_acquire_reader, internal_try_acquire_reader *)

loadReader(t) ==
    /\ pc[t] = "reader"
    /\ IF Writer(state) \/ Pending(state) THEN Again(t, "reader")
       ELSE Goto(t, "addReader")
    /\ UNCHANGED <<state, s, try, calls>>

\* Fault: the writer that came first is not noticed.
TooLate_Never(x) == FALSE

TooLate(x) == Writer(x)

addReader(t) ==
    /\ pc[t] = "addReader"
    /\ state' = state + ONE_READER
    /\ Goto(t, IF TooLate(state) THEN "undo" ELSE "reading")
    /\ UNCHANGED <<s, try, calls>>

undoReader(t) ==
    /\ pc[t] = "undo"
    /\ state' = state - ONE_READER
    /\ Again(t, "reader")
    /\ UNCHANGED <<s, try, calls>>

-----------------------------------------------------------------------------
(* internal_upgrade *)

upgrade_to_writer(t) ==
    /\ pc[t] = "reading" /\ Called
    /\ s' = [s EXCEPT ![t] = state]
    /\ Goto(t, "upgrade")
    /\ UNCHANGED <<state, try>>

MayUpgrade(x) == Readers(x) = 1 \/ ~Pending(x)

\* The swap fails with the new state in s, or the lock is acquired anew.
swapUpgrade(t) ==
    /\ pc[t] = "upgrade"
    /\ \/ /\ MayUpgrade(s[t]) /\ state = s[t]
          /\ state' = Or(state, WRITER + WRITER_PENDING)
          /\ s' = [s EXCEPT ![t] = 0]
          /\ Goto(t, "upgrading") /\ UNCHANGED try
       \/ /\ MayUpgrade(s[t]) /\ state # s[t]
          /\ s' = [s EXCEPT ![t] = state]
          /\ UNCHANGED <<state, pc, try>>
       \/ /\ ~MayUpgrade(s[t])
          /\ state' = state - ONE_READER
          /\ try' = [try EXCEPT ![t] = FALSE]
          /\ s' = [s EXCEPT ![t] = 0]
          /\ Goto(t, "writer")
    /\ UNCHANGED calls

\* The other readers have left.
lastReader(t) ==
    /\ pc[t] = "upgrading" /\ Readers(state) = 1
    /\ Goto(t, "upgraded")
    /\ UNCHANGED <<state, s, try, calls>>

\* Fault: the request to wait is left behind.
Upgraded_Pending(x) == x - ONE_READER

Upgraded(x) == x - (ONE_READER + WRITER_PENDING)

upgraded(t) ==
    /\ pc[t] = "upgraded"
    /\ state' = Upgraded(state)
    /\ Goto(t, "writing")
    /\ UNCHANGED <<s, try, calls>>

downgrade_to_reader(t) ==
    /\ pc[t] = "writing" /\ Called
    /\ state' = state + ONE_READER - WRITER
    /\ Goto(t, "reading")
    /\ UNCHANGED <<s, try>>

release(t) ==
    /\ \/ pc[t] = "reading" /\ state' = state - ONE_READER
       \/ pc[t] = "writing" /\ state' = AndReaders(state)
    /\ Goto(t, "out")
    /\ try' = [try EXCEPT ![t] = FALSE]
    /\ UNCHANGED <<s, calls>>

-----------------------------------------------------------------------------
Step(t) == \/ loadWriter(t) \/ swapWriter(t) \/ setPending(t) \/ loadReader(t)
           \/ addReader(t) \/ undoReader(t) \/ swapUpgrade(t) \/ lastReader(t)
           \/ upgraded(t)

Call(t) == \/ \E write, once \in BOOLEAN : acquire(t, write, once)
           \/ upgrade_to_writer(t) \/ downgrade_to_reader(t)

Finished == (\A t \in Locker : pc[t] = "out") /\ UNCHANGED vars

Next == Finished \/ \E t \in Locker : Step(t) \/ Call(t) \/ release(t)

\* Threads run, and give the lock back.
FairSpec == /\ Init /\ [][Next]_vars
            /\ \A t \in Locker : WF_vars(Step(t)) /\ WF_vars(release(t))
-----------------------------------------------------------------------------
Lock == INSTANCE RWLock WITH
          readers <- {t \in Locker : pc[t] \in {"reading", "upgrade", "upgrading",
                                                "upgraded"}},
          writers <- {t \in Locker : pc[t] = "writing"}

(***************************************************************************)
(* Through late readers that take their increment back, waiting writers    *)
(* and competing upgrades the word acts as a reader-writer lock, and an    *)
(* upgrade that returns true let nobody in (internal_upgrade).             *)
(***************************************************************************)
RefinesRWLock == Lock!RWSpec

(***************************************************************************)
(* No request is left hanging: the flag of a waiting writer never stays    *)
(* behind to keep readers out, and two upgrades do not wait for each       *)
(* other.                                                                  *)
(***************************************************************************)
LockCallsReturn ==
    \A t \in Locker : pc[t] \notin {"out", "reading", "writing"}
                         ~> pc[t] \in {"out", "reading", "writing"}
=============================================================================
