----------------------------- MODULE SmallTasks -----------------------------
(***************************************************************************)
(* The memory of small tasks in the vendored TBB (allocate_task,           *)
(* free_task, free_nonlocal_small_task and free_scheduler of               *)
(* tbb/scheduler.cpp and scheduler.h).                                     *)
(*                                                                         *)
(* A task returns to the scheduler that allocated it: by its own thread to *)
(* my_free_list, by another one to my_return_list, a lock-free list.  A    *)
(* scheduler that goes away plugs its return list; the tasks that are      *)
(* still out are deallocated by whoever has them, and my_small_task_count  *)
(* decides who frees the scheduler itself.                                 *)
(*                                                                         *)
(* Tasks wander between threads by stealing, here in one step; where they  *)
(* are in between is the matter of TaskScheduler.  A task that was stolen  *)
(* is freed by the thread that ran it.                                     *)
(***************************************************************************)
EXTENDS Naturals, Sequences, FiniteSets

CONSTANTS Scheduler,     \* the threads, each with its generic_scheduler
          Block,         \* blocks of memory for tasks
          NoBlock,
          MaxAllocations \* bound on the calls of allocate_task of a thread

\* Every scheduler has a dummy task of its own; three names stand for what is
\* no scheduler.
ASSUME DummyAssumption ==
    \E f \in [Scheduler -> Block] : \A s, r \in Scheduler : s # r => f[s] # f[r]
ASSUME BlockAssumption == IsFiniteSet(Block) /\ NoBlock \notin Block
ASSUME NameAssumption == {"heap", "none", "dummy"} \cap Scheduler = {}

VARIABLES
    origin,       \* block -> the scheduler that allocated it, or "heap"
    holder,       \* block -> the thread that has it in hand, or "none"
    my_free_list, my_return_list,   \* scheduler -> list of blocks
    plugged,      \* scheduler -> its return list takes no more entries
    my_small_task_count,
    memory,       \* scheduler -> "live", or "freed"
    pc, old, k, calls

memoryVars == <<origin, holder, my_free_list, my_return_list, plugged,
                my_small_task_count, memory, pc, old, k, calls>>

\* The constructor's dummy task is a block of its own; the count starts with
\* one guard reference.
MemoryInit ==
    /\ LET dummy == CHOOSE f \in [Scheduler -> Block] :
                        \A s, r \in Scheduler : s # r => f[s] # f[r]
           Owners(b) == {s \in Scheduler : dummy[s] = b}
       IN /\ origin = [b \in Block |-> IF Owners(b) = {} THEN "heap"
                                       ELSE CHOOSE s \in Owners(b) : TRUE]
          /\ holder = [b \in Block |-> IF Owners(b) = {} THEN "none" ELSE "dummy"]
    /\ my_free_list = [s \in Scheduler |-> <<>>]
    /\ my_return_list = [s \in Scheduler |-> <<>>]
    /\ plugged = [s \in Scheduler |-> FALSE]
    /\ my_small_task_count = [s \in Scheduler |-> 2]
    /\ memory = [s \in Scheduler |-> "live"]
    /\ pc = [s \in Scheduler |-> [at |-> "run", block |-> NoBlock]]
    /\ old = [s \in Scheduler |-> <<>>]
    /\ k = [s \in Scheduler |-> 0]
    /\ calls = [s \in Scheduler |-> 0]

Running(p) == pc[p].at = "run"
Goto(p, l, b) == pc' = [pc EXCEPT ![p] = [at |-> l, block |-> b]]

\* allocate_task with a block of the free list, or a new one.
allocate_task(p) ==
    /\ Running(p) /\ calls[p] < MaxAllocations
    /\ calls' = [calls EXCEPT ![p] = @ + 1]
    /\ \/ /\ my_free_list[p] # <<>>
          /\ holder' = [holder EXCEPT ![Head(my_free_list[p])] = p]
          /\ my_free_list' = [my_free_list EXCEPT ![p] = Tail(@)]
          /\ UNCHANGED <<origin, my_small_task_count, pc>>
       \/ /\ my_free_list[p] = <<>> /\ my_return_list[p] # <<>>
          /\ Goto(p, "take back", NoBlock)
          /\ UNCHANGED <<origin, holder, my_free_list, my_small_task_count>>
       \/ /\ my_free_list[p] = <<>> /\ my_return_list[p] = <<>>
          /\ \E b \in Block :
                /\ origin[b] = "heap"
                /\ origin' = [origin EXCEPT ![b] = p]
                /\ holder' = [holder EXCEPT ![b] = p]
          /\ my_small_task_count' = [my_small_task_count EXCEPT ![p] = @ + 1]
          /\ UNCHANGED <<my_free_list, pc>>
    /\ UNCHANGED <<my_return_list, plugged, memory, old, k>>

\* The swap that takes the whole return list.
takeBack(p) ==
    /\ pc[p].at = "take back"
    /\ LET l == my_return_list[p] IN
       /\ holder' = [holder EXCEPT ![Head(l)] = p]
       /\ my_free_list' = [my_free_list EXCEPT ![p] = Tail(l)]
    /\ my_return_list' = [my_return_list EXCEPT ![p] = <<>>]
    /\ Goto(p, "run", NoBlock)
    /\ UNCHANGED <<origin, plugged, my_small_task_count, memory, old, k, calls>>

\* A task goes to another thread, which is at work.
steal(p, q) ==
    /\ p # q /\ Running(q)
    /\ \E b \in Block : /\ holder[b] = p /\ pc[p].block # b
                        /\ holder' = [holder EXCEPT ![b] = q]
    /\ UNCHANGED <<origin, my_free_list, my_return_list, plugged,
                   my_small_task_count, memory, pc, old, k, calls>>

\* free_task: the own block goes to the free list, another's on its way home.
free_task(p) ==
    /\ Running(p)
    /\ \E b \in Block :
          /\ holder[b] = p
          /\ IF origin[b] = p
             THEN /\ my_free_list' = [my_free_list EXCEPT ![p] = <<b>> \o @]
                  /\ holder' = [holder EXCEPT ![b] = "none"]
                  /\ UNCHANGED pc
             ELSE Goto(p, "read list", b) /\ UNCHANGED <<my_free_list, holder>>
    /\ UNCHANGED <<origin, my_return_list, plugged, my_small_task_count, memory,
                   old, k, calls>>

Home(p) == origin[pc[p].block]

\* free_nonlocal_small_task: read the list's head, then swap it; a plugged
\* list takes no more.
readList(p) ==
    /\ pc[p].at = "read list"
    /\ old' = [old EXCEPT ![p] = IF plugged[Home(p)] THEN <<>> ELSE my_return_list[Home(p)]]
    /\ Goto(p, IF plugged[Home(p)] THEN "deallocate" ELSE "swap list", pc[p].block)
    /\ UNCHANGED <<origin, holder, my_free_list, my_return_list, plugged,
                   my_small_task_count, memory, k, calls>>

\* Faulty: an empty list is taken for one that is plugged.
Unchanged_Plugged(p) == my_return_list[Home(p)] = old[p]

Unchanged(p) == ~plugged[Home(p)] /\ my_return_list[Home(p)] = old[p]

swapList(p) ==
    /\ pc[p].at = "swap list"
    /\ IF Unchanged(p)
       THEN /\ my_return_list' = [my_return_list EXCEPT ![Home(p)] = <<pc[p].block>> \o old[p]]
            /\ holder' = [holder EXCEPT ![pc[p].block] = "none"]
            /\ Goto(p, "run", NoBlock)
       ELSE Goto(p, "read list", pc[p].block) /\ UNCHANGED <<my_return_list, holder>>
    /\ old' = [old EXCEPT ![p] = <<>>]
    /\ UNCHANGED <<origin, my_free_list, plugged, my_small_task_count, memory, k, calls>>

\* Faulty: the scheduler goes away with the last task that is out, although
\* its own thread is not yet done with it.
deallocate_Early(p) ==
    /\ pc[p].at = "deallocate"
    /\ LET s == Home(p) IN
       /\ my_small_task_count' = [my_small_task_count EXCEPT ![s] = @ - 1]
       /\ memory' = [memory EXCEPT ![s] = IF my_small_task_count[s] <= 2 THEN "freed" ELSE @]
    /\ origin' = [origin EXCEPT ![pc[p].block] = "heap"]
    /\ holder' = [holder EXCEPT ![pc[p].block] = "none"]
    /\ Goto(p, "run", NoBlock)
    /\ UNCHANGED <<my_free_list, my_return_list, plugged, old, k, calls>>

\* deallocate_task and the decrement; the one that reaches zero frees the
\* scheduler of the block.
deallocate(p) ==
    /\ pc[p].at = "deallocate"
    /\ LET s == Home(p) IN
       /\ my_small_task_count' = [my_small_task_count EXCEPT ![s] = @ - 1]
       /\ memory' = [memory EXCEPT ![s] = IF my_small_task_count[s] = 1 THEN "freed" ELSE @]
    /\ origin' = [origin EXCEPT ![pc[p].block] = "heap"]
    /\ holder' = [holder EXCEPT ![pc[p].block] = "none"]
    /\ Goto(p, "run", NoBlock)
    /\ UNCHANGED <<my_free_list, my_return_list, plugged, old, k, calls>>

\* free_scheduler: the dummy task joins the free list.
free_scheduler(p) ==
    /\ Running(p) /\ \A b \in Block : holder[b] # p
    /\ \E b \in Block :
          /\ origin[b] = p /\ holder[b] = "dummy"
          /\ my_free_list' = [my_free_list EXCEPT ![p] = <<b>> \o @]
          /\ holder' = [holder EXCEPT ![b] = "none"]
    /\ k' = [k EXCEPT ![p] = 1]
    /\ Goto(p, "empty lists", NoBlock)
    /\ UNCHANGED <<origin, my_return_list, plugged, my_small_task_count, memory,
                   old, calls>>

\* Its loop deallocates the free list, then takes and plugs the return list
\* and deallocates that.
emptyLists(p) ==
    /\ pc[p].at = "empty lists"
    /\ LET out == {my_free_list[p][i] : i \in DOMAIN my_free_list[p]} IN
       /\ origin' = [b \in Block |-> IF b \in out THEN "heap" ELSE origin[b]]
       /\ k' = [k EXCEPT ![p] = @ + Cardinality(out)]
    /\ my_free_list' = [my_free_list EXCEPT ![p] = IF plugged[p] THEN <<>> ELSE my_return_list[p]]
    /\ my_return_list' = [my_return_list EXCEPT ![p] = <<>>]
    /\ plugged' = [plugged EXCEPT ![p] = TRUE]
    /\ Goto(p, IF plugged[p] THEN "give up" ELSE "empty lists", NoBlock)
    /\ UNCHANGED <<holder, my_small_task_count, memory, old, calls>>

\* The count loses the guard and all blocks deallocated here, at once.
giveUp(p) ==
    /\ pc[p].at = "give up"
    /\ my_small_task_count' = [my_small_task_count EXCEPT ![p] = @ - k[p]]
    /\ memory' = [memory EXCEPT ![p] = IF my_small_task_count[p] = k[p] THEN "freed" ELSE @]
    /\ Goto(p, "gone", NoBlock)
    /\ UNCHANGED <<origin, holder, my_free_list, my_return_list, plugged, old, k, calls>>

step(p) ==
    \/ allocate_task(p) \/ takeBack(p) \/ free_task(p) \/ readList(p)
    \/ swapList(p) \/ deallocate(p) \/ free_scheduler(p) \/ emptyLists(p)
    \/ giveUp(p)

MemoryNext == \E p \in Scheduler : step(p) \/ \E q \in Scheduler : steal(p, q)
MemorySpec == MemoryInit /\ [][MemoryNext]_memoryVars
----------------------------------------------------------------------------
AllGone == \A p \in Scheduler : pc[p].at = "gone"

\* A scheduler object is not freed while its thread still uses it, nor while
\* another thread is returning a task to it, and a block is in one place only.
SchedulerOutlivesUse ==
    /\ \A p \in Scheduler : pc[p].at # "gone" => memory[p] = "live"
    /\ \A p \in Scheduler : pc[p].at \in {"read list", "swap list", "deallocate"}
                                => memory[Home(p)] = "live"
    /\ \A b \in Block : Cardinality(
          {s \in Scheduler : \E i \in DOMAIN my_free_list[s] : my_free_list[s][i] = b}
          \cup {s \in Scheduler : \E i \in DOMAIN my_return_list[s] : my_return_list[s][i] = b})
            <= (IF holder[b] = "none" THEN 1 ELSE 0)

\* When every thread is gone every block has been deallocated, whether its
\* owner or another thread came last, and every scheduler has been freed.
NothingLeaks ==
    AllGone => /\ \A s \in Scheduler : memory[s] = "freed"
               /\ \A b \in Block : origin[b] = "heap"
=============================================================================
