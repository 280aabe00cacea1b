----------------------------- MODULE LocalClock -----------------------------
(***************************************************************************)
(* LOCAL_CLOCK of one node and the two lock-free loops that move it:       *)
(* increaseClock, after a transaction has read a version, and              *)
(* getNextClock, when it commits.  The threads of the node run them        *)
(* concurrently; a read of the clock and the compare-and-swap that follows *)
(* are separate steps.                                                     *)
(***************************************************************************)
EXTENDS Naturals

CONSTANTS Caller,   \* threads of the node
          Version,  \* the versions transactions read
          MaxCalls  \* bound: calls a thread makes

ASSUME VersionAssumption == Version \subseteq Nat
ASSUME MaxCallsAssumption == MaxCalls \in Nat

VARIABLES LOCAL_CLOCK,
          pc,
          new_clock,  \* the argument of increaseClock
          cur_clock,  \* the value read before the swap
          calls,      \* calls made so far
          seen,       \* history: the newest version the thread passed in
          drawn       \* history: the values getNextClock returned

vars == <<LOCAL_CLOCK, pc, new_clock, cur_clock, calls, seen, drawn>>

Atomic == INSTANCE AtomicClock WITH clock <- LOCAL_CLOCK

Init ==
    /\ LOCAL_CLOCK = 0
    /\ pc = [c \in Caller |-> "idle"]
    /\ new_clock = [c \in Caller |-> 0]
    /\ cur_clock = [c \in Caller |-> 0]
    /\ calls = [c \in Caller |-> 0]
    /\ seen = [c \in Caller |-> 0]
    /\ drawn = {}

Goto(c, l) == pc' = [pc EXCEPT ![c] = l]

getCurrentClock(c) == cur_clock' = [cur_clock EXCEPT ![c] = LOCAL_CLOCK]

compare_and_swap(c, v) == LOCAL_CLOCK = cur_clock[c] /\ LOCAL_CLOCK' = v

increaseClock(c, v) ==
    /\ pc[c] = "idle" /\ calls[c] < MaxCalls
    /\ calls' = [calls EXCEPT ![c] = @ + 1]
    /\ new_clock' = [new_clock EXCEPT ![c] = v]
    /\ Goto(c, "increase")
    /\ UNCHANGED <<LOCAL_CLOCK, cur_clock, seen, drawn>>

increaseReturns(c) ==
    /\ seen' = [seen EXCEPT ![c] = IF new_clock[c] > @ THEN new_clock[c] ELSE @]
    /\ Goto(c, "idle")

\* delta > 0
Ahead(c) == new_clock[c] > LOCAL_CLOCK

increaseRead(c) ==
    /\ pc[c] = "increase"
    /\ getCurrentClock(c)
    /\ IF Ahead(c)
       THEN Goto(c, "increaseSwap") /\ UNCHANGED seen
       ELSE increaseReturns(c)
    /\ UNCHANGED <<LOCAL_CLOCK, new_clock, calls, drawn>>

\* Fault: a swap that fails is not tried again.
increaseSwap_NoRetry(c) ==
    /\ pc[c] = "increaseSwap"
    /\ \/ compare_and_swap(c, new_clock[c])
       \/ LOCAL_CLOCK # cur_clock[c] /\ UNCHANGED LOCAL_CLOCK
    /\ increaseReturns(c)
    /\ UNCHANGED <<new_clock, cur_clock, calls, drawn>>

increaseSwap(c) ==
    /\ pc[c] = "increaseSwap"
    /\ \/ compare_and_swap(c, new_clock[c]) /\ increaseReturns(c)
       \/ /\ LOCAL_CLOCK # cur_clock[c] /\ Goto(c, "increase")
          /\ UNCHANGED <<LOCAL_CLOCK, seen>>
    /\ UNCHANGED <<new_clock, cur_clock, calls, drawn>>

getNextClock(c) ==
    /\ pc[c] = "idle" /\ calls[c] < MaxCalls
    /\ calls' = [calls EXCEPT ![c] = @ + 1]
    /\ Goto(c, "next")
    /\ UNCHANGED <<LOCAL_CLOCK, new_clock, cur_clock, seen, drawn>>

nextRead(c) ==
    /\ pc[c] = "next"
    /\ getCurrentClock(c)
    /\ Goto(c, "nextSwap")
    /\ UNCHANGED <<LOCAL_CLOCK, new_clock, calls, seen, drawn>>

nextFailed(c) == Goto(c, "next")

\* Fault: the value is returned although the swap has failed.
nextSwap_Unchecked(c) ==
    /\ pc[c] = "nextSwap"
    /\ \/ compare_and_swap(c, cur_clock[c] + 1)
       \/ LOCAL_CLOCK # cur_clock[c] /\ UNCHANGED LOCAL_CLOCK
    /\ drawn' = drawn \cup {[by |-> c, call |-> calls[c],
                             value |-> cur_clock[c] + 1, seen |-> seen[c]]}
    /\ Goto(c, "idle")
    /\ UNCHANGED <<new_clock, cur_clock, calls, seen>>

nextSwap(c) ==
    /\ pc[c] = "nextSwap"
    /\ \/ /\ compare_and_swap(c, cur_clock[c] + 1)
          /\ drawn' = drawn \cup {[by |-> c, call |-> calls[c],
                                   value |-> cur_clock[c] + 1,
                                   seen |-> seen[c]]}
          /\ Goto(c, "idle")
       \/ /\ LOCAL_CLOCK # cur_clock[c] /\ nextFailed(c)
          /\ UNCHANGED <<LOCAL_CLOCK, drawn>>
    /\ UNCHANGED <<new_clock, cur_clock, calls, seen>>

Step(c) == increaseRead(c) \/ increaseSwap(c) \/ nextRead(c) \/ nextSwap(c)

\* Every thread has made its calls.
Finished ==
    /\ \A c \in Caller : pc[c] = "idle" /\ calls[c] = MaxCalls
    /\ UNCHANGED vars

Next == \/ Finished
        \/ \E c \in Caller : \/ Step(c) \/ getNextClock(c)
                             \/ \E v \in Version : increaseClock(c, v)

Spec == Init /\ [][Next]_vars

\* The scheduler runs every thread.
FairSpec == Spec /\ \A c \in Caller : WF_vars(Step(c))
-----------------------------------------------------------------------------
TypeOK ==
    /\ LOCAL_CLOCK \in Nat
    /\ pc \in [Caller -> {"idle", "increase", "increaseSwap", "next", "nextSwap"}]
    /\ new_clock \in [Caller -> Nat]
    /\ cur_clock \in [Caller -> Nat]
    /\ calls \in [Caller -> Nat]
    /\ seen \in [Caller -> Nat]
    /\ drawn \subseteq [by : Caller, call : Nat, value : Nat, seen : Nat]

\* No two calls of getNextClock return the same value, whichever threads
\* make them: the versions a node stamps on its commits are distinct.
UniqueClocks == \A d, e \in drawn : d.value = e.value => d = e

\* A value drawn is newer than every version its thread had passed to
\* increaseClock: a commit is stamped later than all that it has read.
NewerThanSeen == \A d \in drawn : d.value > d.seen

(* The inductive invariant behind the two. *)

\* Nothing drawn or seen is ahead of the clock.
ClockIsNewest == /\ \A d \in drawn : d.value <= LOCAL_CLOCK
                 /\ \A c \in Caller : seen[c] <= LOCAL_CLOCK

\* A swap of increaseClock only moves the clock forward, and a running call
\* is one of those counted.
CallsInProgress ==
    \A c \in Caller :
      /\ calls[c] <= MaxCalls
      /\ pc[c] # "idle" => calls[c] > 0
      /\ pc[c] \in {"increase", "increaseSwap"} => new_clock[c] \in Version
      /\ pc[c] = "increaseSwap" => new_clock[c] > cur_clock[c]

\* The values drawn are unique and newer than what was seen because the
\* clock is ahead of both and the swaps only ever move it forward.
ClockInv == /\ TypeOK /\ UniqueClocks /\ NewerThanSeen
            /\ ClockIsNewest /\ CallsInProgress

\* The loops of increaseClock and getNextClock behave as the single steps of
\* AtomicClock, which is how DSTMTransaction takes them.
RefinesAtomicClock == Atomic!Spec

\* A swap fails only because another thread's succeeded: every call of the
\* loops of increaseClock and getNextClock returns.
CallsReturn == \A c \in Caller : pc[c] # "idle" ~> pc[c] = "idle"
=============================================================================
