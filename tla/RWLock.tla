------------------------------- MODULE RWLock -------------------------------
(***************************************************************************)
(* What a reader-writer lock promises: many readers or one writer.  An     *)
(* upgrade that says it kept the lock went from reader to writer with      *)
(* nobody in between.  ConcurrentHashMap uses its locks this way.          *)
(***************************************************************************)
EXTENDS FiniteSets

CONSTANT Locker
VARIABLES readers, writers  \* who has the lock, and how

lock == <<readers, writers>>

RWInit == readers = {} /\ writers = {}

acquireReader(t) == /\ t \notin readers /\ writers = {}
                    /\ readers' = readers \cup {t} /\ UNCHANGED writers
acquireWriter(t) == /\ readers = {} /\ writers = {}
                    /\ writers' = {t} /\ UNCHANGED readers
upgrade(t)   == readers = {t} /\ readers' = {} /\ writers' = {t}
downgrade(t) == writers = {t} /\ writers' = {} /\ readers' = readers \cup {t}
release(t)   == /\ t \in readers \cup writers
                /\ readers' = readers \ {t} /\ writers' = writers \ {t}

RWNext == \E t \in Locker : \/ acquireReader(t) \/ acquireWriter(t)
                            \/ upgrade(t) \/ downgrade(t) \/ release(t)

RWSpec == RWInit /\ [][RWNext]_lock
=============================================================================
