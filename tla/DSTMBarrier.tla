----------------------------- MODULE DSTMBarrier -----------------------------
(***************************************************************************)
(* barrier_cross, as the programs of tests/ use it: the main thread of     *)
(* node 0 and tnum worker threads meet before the work (everybody waits)   *)
(* and after it (the workers go on at once, the main thread waits).  Each  *)
(* node has a barrier of its own for its threads; its last thread goes on  *)
(* to the GASNet barrier of the nodes, holding the barrier's mutex.        *)
(***************************************************************************)
EXTENDS DummyLoadBalancer, FiniteSets

CONSTANT tnum  \* worker threads

\* A node without a worker never comes to the GASNet barrier.
ASSUME WorkersAssumption == tnum \in Nat /\ tnum >= nodesNum

Worker == 1..tnum
Main   == 0
Member == Worker \cup {Main}

\* Worker i is the i-th thread the load balancer places.
placed[i \in Nat] == getVictim(IF i <= 1 THEN NoNode ELSE placed[i - 1])

nodeOf(p) == IF p = Main THEN 0 ELSE placed[p]

\* Fault: the node at the remainder counts as past it.
barrier_calculate_threads_Short(n) ==
    LET div == tnum \div nodesNum
        mod == tnum % nodesNum
    IN  IF mod > 0 /\ n + 1 < mod THEN div + 1 ELSE div

\* The workers of node n.
barrier_calculate_threads(n) ==
    LET div == tnum \div nodesNum
        mod == tnum % nodesNum
    IN  IF div > 0 THEN IF mod > 0 /\ n + 1 <= mod THEN div + 1 ELSE div
        ELSE IF n + 1 > tnum THEN 0 ELSE 1

\* barrier_init: node 0 counts the main thread too.
Expected(n) == barrier_calculate_threads(n) + (IF n = 0 THEN 1 ELSE 0)

VARIABLES
    b_pc,     \* where each thread is
    crossed,  \* barriers each thread is through with
    b_mutex,  \* the thread in the GASNet barrier, which keeps the mutex
    count,    \* threads the node's barrier expects
    crossing, \* threads that have come to it
    notified, \* gasnet_barrier_notify calls of each node
    stop,     \* the application's stop flag
    overrun   \* history: a thread crossed again before the woken had left

barrierVars == <<b_pc, crossed, b_mutex, count, crossing, notified, stop, overrun>>

Unlocked == -1

BarrierInit ==
    /\ b_pc = [p \in Member |-> "out"]
    /\ crossed = [p \in Member |-> 0]
    /\ b_mutex = [n \in Node |-> Unlocked]
    /\ count = [n \in Node |-> Expected(n)]
    /\ crossing = [n \in Node |-> 0]
    /\ notified = [n \in Node |-> 0]
    /\ stop = FALSE
    /\ overrun = FALSE

-----------------------------------------------------------------------------
\* The second time the workers do not wait.
local_wait(p) == p = Main \/ crossed[p] = 0

Pass(p) == crossed' = [crossed EXCEPT ![p] = @ + 1]

Last(n) == crossing[n] + 1 >= count[n]

\* A thread comes to the barrier: to its work, or when it is told to stop.
barrier_cross(p) ==
    LET n == nodeOf(p)
    IN  /\ b_pc[p] = "out" /\ crossed[p] < 2 /\ b_mutex[n] = Unlocked
        /\ crossed[p] = 1 => stop
        /\ crossing' = [crossing EXCEPT ![n] = @ + 1]
        /\ \/ /\ Last(n)
              /\ b_mutex' = [b_mutex EXCEPT ![n] = p]
              /\ notified' = [notified EXCEPT ![n] = @ + 1]
              /\ b_pc' = [b_pc EXCEPT ![p] = "gasnet_barrier"]
              /\ UNCHANGED crossed
           \/ /\ ~Last(n) /\ local_wait(p)
              /\ b_pc' = [b_pc EXCEPT ![p] = "cond_wait"]
              /\ UNCHANGED <<crossed, b_mutex, notified>>
           \/ /\ ~Last(n) /\ ~local_wait(p)
              /\ Pass(p)
              /\ UNCHANGED <<b_pc, b_mutex, notified>>
        /\ overrun' = (\/ overrun
                       \/ \E q \in Member : nodeOf(q) = n /\ b_pc[q] = "woken")
        /\ UNCHANGED <<count, stop>>

Remaining(p, n) == IF local_wait(p) THEN crossing[n] - 1 ELSE 0

\* The nodes have met: the last thread wakes the others.
barrier_met(p) ==
    LET n == nodeOf(p)
    IN  /\ b_pc[p] = "gasnet_barrier"
        /\ \A m \in Node : notified[m] >= notified[n]
        /\ count' = [count EXCEPT ![n] = crossing[n]]
        /\ crossing' = [crossing EXCEPT ![n] = Remaining(p, n)]
        /\ b_pc' = [q \in Member |->
                    IF q = p THEN "out"
                    ELSE IF nodeOf(q) = n /\ b_pc[q] = "cond_wait" THEN "woken"
                    ELSE b_pc[q]]
        /\ b_mutex' = [b_mutex EXCEPT ![n] = Unlocked]
        /\ Pass(p)
        /\ UNCHANGED <<notified, stop, overrun>>

Leave(c) == IF c # 0 THEN c - 1 ELSE c

\* A thread returns from cond_wait with the mutex and leaves.
wake(p) ==
    LET n == nodeOf(p)
    IN  /\ b_pc[p] = "woken" /\ b_mutex[n] = Unlocked
        /\ crossing' = [crossing EXCEPT ![n] = Leave(@)]
        /\ b_pc' = [b_pc EXCEPT ![p] = "out"]
        /\ Pass(p)
        /\ UNCHANGED <<b_mutex, count, notified, stop, overrun>>

\* The main thread ends the work.
setStop ==
    /\ b_pc[Main] = "out" /\ crossed[Main] = 1 /\ ~stop
    /\ stop' = TRUE
    /\ UNCHANGED <<b_pc, crossed, b_mutex, count, crossing, notified, overrun>>

AllThrough == (\A p \in Member : crossed[p] = 2) /\ UNCHANGED barrierVars

BarrierStep(p) == barrier_cross(p) \/ barrier_met(p) \/ wake(p)

BarrierNext == setStop \/ AllThrough \/ \E p \in Member : BarrierStep(p)

BarrierSpec == BarrierInit /\ [][BarrierNext]_barrierVars

\* The main thread stops the work, the workers see it, mutexes are handed on.
FairBarrierSpec == /\ BarrierSpec /\ WF_barrierVars(setStop)
                   /\ \A p \in Member : WF_barrierVars(BarrierStep(p))
-----------------------------------------------------------------------------
\* Barriers a thread has come to.
arrived(p) == crossed[p] + (IF b_pc[p] = "out" THEN 0 ELSE 1)

(***************************************************************************)
(* "Wait on barrier": no thread, on any node, is through the first barrier *)
(* before every thread has come to it, although each node counts only its  *)
(* own threads, by where barrier_calculate_threads expects the load        *)
(* balancer to have put them.                                              *)
(***************************************************************************)
StartTogether ==
    (\E p \in Member : crossed[p] >= 1) => \A q \in Member : arrived(q) >= 1

(***************************************************************************)
(* The main thread is through the second barrier only when every worker    *)
(* has stopped, provided that the threads woken by the first one are gone  *)
(* when the second is used: they share the counter.                        *)
(***************************************************************************)
StopTogether ==
    crossed[Main] = 2 /\ ~overrun => \A q \in Worker : arrived(q) = 2

(***************************************************************************)
(* Both barriers hold whom they should: barrier_cross before the work and  *)
(* after it.                                                               *)
(***************************************************************************)
BarriersHold == StartTogether /\ StopTogether

(***************************************************************************)
(* Every thread gets through both barriers, even if it is slow to wake and *)
(* the counter of the first barrier runs into the second.                  *)
(***************************************************************************)
EveryonePasses == <>(\A p \in Member : crossed[p] = 2)

=============================================================================
