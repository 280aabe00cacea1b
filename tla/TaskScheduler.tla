--------------------------- MODULE TaskScheduler ---------------------------
(***************************************************************************)
(* The task scheduler of the vendored TBB (tbb/scheduler.cpp,              *)
(* custom_scheduler.h, mailbox.h): every thread of an arena dispatches     *)
(* tasks from its own deque, from its mailbox, or from the deque of        *)
(* another thread.                                                         *)
(*                                                                         *)
(* A deque is an array with two indices.  Its owner pushes and pops at     *)
(* tail, thieves take at head; the owner pops without the lock unless head *)
(* has reached it, and a thief moves head before it looks at tail.  A task *)
(* with an affinity is put in two places, in its spawner's deque and in    *)
(* the mailbox of another thread, as a proxy: whoever swaps the proxy's    *)
(* tag gets the task, the other frees the proxy.                           *)
(*                                                                         *)
(* What a task does when it runs is a plan, a sequence of calls:           *)
(*   [op |-> "refs", n]       set_ref_count(n)                             *)
(*   [op |-> "add", to]       allocate_additional_child_of(to)             *)
(*   [op |-> "spawn", list]   spawn of a task list                         *)
(*   [op |-> "wait", child]   wait_for_all, or spawn_and_wait_for_all      *)
(*   [op |-> "mark", state]   recycle_as_safe_continuation (recycle),      *)
(*                            recycle_to_reexecute (reexecute),            *)
(*                            recycle_as_continuation (allocated)          *)
(*   [op |-> "throw"]         an exception leaves execute()                *)
(*   [op |-> "return", next]  execute() returns next, or no task           *)
(* One step here is one access to memory that other threads also use,      *)
(* together with the private work up to the next one.  Every load and      *)
(* store that matters is followed by a full fence in the code, hence       *)
(* memory is sequentially consistent.  Priorities, the arena's state and   *)
(* its workers are left to ArenaWork, the memory of tasks to SmallTasks.   *)
(***************************************************************************)
EXTENDS Integers, Sequences, FiniteSets

CONSTANTS
    Worker,              \* slots 1, 2, ...; slot 0 is the master's
    Task,                \* the tasks of the program
    NoTask, Root,        \* NULL; the empty task spawn_root_and_wait waits for
    parent,              \* task -> the task its completion is counted at
    affinity,            \* task -> 0 or the id (slot + 1) of a mailbox
    Roots,               \* the list of root tasks the master spawns
    Plans,               \* the programs: task -> its executions -> calls
    min_task_pool_size,  \* 64 in the code
    LineOfPointers       \* pointers per cache line, 16 in the code

Thread == {0} \cup Worker
NoIndex == -2

VARIABLES
    plan,       \* the program that runs, chosen at the start
    prefix,     \* task -> [state, ref_count, at: next call, round: execution]
    slot,       \* thread -> [task_pool, head, tail] of its arena slot
    deque,      \* thread -> the array of the deque
    tag,        \* proxy -> task_and_tag
    box,        \* thread -> [my_first, my_last, my_is_idle] of its mailbox
    next,       \* proxy -> next_in_mailbox
    pc, me,     \* thread -> where it is, and the locals of its calls
    stack,      \* thread -> the tasks its dispatch loops wait for
    cancelled,  \* my_cancellation_requested of the tasks' group
    exception   \* my_exception of the group

shared == <<prefix, slot, deque, tag, box, next>>
group == <<cancelled, exception>>
vars == <<plan, shared, pc, me, stack, group>>

Locals == [t |-> NoTask, t_next |-> NoTask, T |-> NoIndex, H |-> 0, H0 |-> 0,
           victim |-> 0, result |-> NoTask, list |-> <<>>, items |-> <<>>,
           after |-> "", link |-> NoTask]

\* A proxy is named by the task it stands for and the execution it asks for.
Proxy == [task : {t \in Task : affinity[t] # 0}, round : 0..1]
NoProxy == [task |-> NoTask, round |-> 0]
IsProxy(x) == x \in Proxy
Outbox(x) == affinity[x.task] - 1
Drain == "drain"

Init ==
    /\ plan \in Plans
    /\ prefix = [t \in Task \cup {Root} |->
                    [state |-> "allocated", ref_count |-> 0, at |-> 1, round |-> 0]]
    /\ slot = [p \in Thread |-> [task_pool |-> "empty", head |-> 0, tail |-> 0]]
    /\ deque = [p \in Thread |-> [i \in 0..min_task_pool_size-1 |-> NoTask]]
    /\ tag = [x \in Proxy |-> "none"]
    /\ box = [p \in Thread |-> [my_first |-> NoProxy, my_last |-> NoProxy,
                                my_is_idle |-> FALSE]]
    /\ next = [x \in Proxy |-> NoProxy]
    /\ pc = [p \in Thread |-> IF p = 0 THEN "spawn_root" ELSE "out"]
    /\ me = [p \in Thread |-> Locals]
    /\ stack = [p \in Thread |-> <<>>]
    /\ cancelled = FALSE
    /\ exception = FALSE

in_arena(p) == slot[p].task_pool # "empty"
size(p) == Cardinality(DOMAIN deque[p])
Waited(p) == stack[p][Len(stack[p])]
Outermost(p) == stack[p] = <<>>
\* A worker's own dummy task has a count of 2 and never ends its loop.
workDone(p) == ~Outermost(p) /\ Waited(p) # Drain
               /\ prefix[Waited(p)].ref_count = 1

Goto(p, l) == pc' = [pc EXCEPT ![p] = l]
Locally(p, r) == me' = [me EXCEPT ![p] = r]

\* local_spawn of a list, to go on at "after".  A list of one makes room
\* before it mails a proxy, a longer one afterwards.
Spawning(p, list, after, locals) ==
    /\ Locally(p, [locals EXCEPT !.list = list, !.items = <<>>, !.T = NoIndex,
                                 !.after = after])
    /\ Goto(p, IF Len(list) = 1 THEN "room" ELSE "prepare")

\* Faulty: only the first root is spawned.
spawn_root_First(p) ==
    /\ pc[p] = "spawn_root"
    /\ prefix' = [prefix EXCEPT ![Root].ref_count = Len(Roots) + 1]
    /\ stack' = [stack EXCEPT ![p] = <<Root>>]
    /\ Locally(p, [Locals EXCEPT !.t = Head(Roots)]) /\ Goto(p, "dispatch")
    /\ UNCHANGED <<plan, slot, deque, tag, box, next, group>>

\* local_spawn_root_and_wait: the first root is dispatched at once.
spawn_root(p) ==
    /\ pc[p] = "spawn_root"
    /\ prefix' = [prefix EXCEPT ![Root].ref_count = Len(Roots) + 1]
    /\ stack' = [stack EXCEPT ![p] = <<Root>>]
    /\ LET locals == [Locals EXCEPT !.t = Head(Roots)] IN
       IF Len(Roots) > 1
       THEN Spawning(p, Tail(Roots), "dispatch", locals)
       ELSE Locally(p, locals) /\ Goto(p, "dispatch")
    /\ UNCHANGED <<plan, slot, deque, tag, box, next, group>>

(***************************************************************************)
(* local_spawn.                                                            *)
(***************************************************************************)
\* prepare_for_spawning: a task for another thread becomes a proxy, and
\* push puts the proxy at the end of the mailbox with a swap of my_last.
prepare(p) ==
    /\ pc[p] = "prepare"
    /\ LET t == Head(me[p].list)
           mailed == affinity[t] \notin {0, p + 1}
           x == [task |-> t, round |-> prefix[t].round]
           rest == [me[p] EXCEPT !.list = Tail(@),
                                 !.items = Append(@, IF mailed THEN x ELSE t)]
           after == IF Len(me[p].list) > 1 THEN "prepare"
                    ELSE IF me[p].T = NoIndex THEN "room" ELSE "commit"
       IN /\ prefix' = [prefix EXCEPT ![t].state = "ready"]
          /\ IF mailed
             THEN /\ tag' = [tag EXCEPT ![x] = "both"]
                  /\ next' = [next EXCEPT ![x] = NoProxy]
                  /\ box' = [box EXCEPT ![Outbox(x)].my_last = x]
                  /\ Locally(p, [rest EXCEPT !.link = box[Outbox(x)].my_last,
                                             !.result = x])
                  /\ Goto(p, "link")
             ELSE /\ Locally(p, rest) /\ Goto(p, after)
                  /\ UNCHANGED <<tag, next, box>>
    /\ UNCHANGED <<plan, slot, deque, stack, group>>

\* push, second half: the store through the link that the swap returned.
linkProxy(p) ==
    /\ pc[p] = "link"
    /\ LET x == me[p].result IN
       IF me[p].link = NoProxy
       THEN box' = [box EXCEPT ![Outbox(x)].my_first = x] /\ UNCHANGED next
       ELSE next' = [next EXCEPT ![me[p].link] = x] /\ UNCHANGED box
    /\ Locally(p, [me[p] EXCEPT !.link = NoTask, !.result = NoTask])
    /\ Goto(p, IF me[p].list # <<>> THEN "prepare"
               ELSE IF me[p].T = NoIndex THEN "room" ELSE "commit")
    /\ UNCHANGED <<plan, prefix, slot, deque, tag, stack, group>>

Wanted(p) == Len(me[p].list) + Len(me[p].items)

\* prepare_task_pool: the array has room, or is moved or grown under the lock.
room(p) ==
    /\ pc[p] = "room"
    /\ IF slot[p].tail + Wanted(p) <= size(p)
       THEN /\ Locally(p, [me[p] EXCEPT !.T = slot[p].tail])
            /\ Goto(p, IF me[p].list # <<>> THEN "prepare" ELSE "commit")
       ELSE UNCHANGED me /\ Goto(p, IF in_arena(p) THEN "lock to grow" ELSE "grow")
    /\ UNCHANGED <<plan, shared, stack, group>>

\* acquire_task_pool spins until no thief holds the pool.
acquire(p) ==
    /\ pc[p] \in {"lock to grow", "lock to pop", "lock to clean up"}
    /\ slot[p].task_pool = "open"
    /\ slot' = [slot EXCEPT ![p].task_pool = "locked"]
    /\ Goto(p, CASE pc[p] = "lock to grow" -> "grow"
                 [] pc[p] = "lock to pop" -> "arbitrate"
                 [] OTHER -> "clean up")
    /\ UNCHANGED <<plan, prefix, deque, tag, box, next, me, stack, group>>

RoundUp(n) == ((n + LineOfPointers - 1) \div LineOfPointers) * LineOfPointers

NewSize(p, needed) ==
    IF needed <= size(p) - min_task_pool_size \div 4 THEN size(p)
    ELSE RoundUp(IF needed < 2 * size(p) THEN 2 * size(p) ELSE needed)

\* Relocation to the start of the array, or to a larger one; then
\* commit_relocated_tasks and the release of the lock.
grow(p) ==
    /\ pc[p] = "grow"
    /\ LET H == slot[p].head
           T == slot[p].tail - H
           n == NewSize(p, T + Wanted(p))
       IN /\ deque' = [deque EXCEPT ![p] = [i \in 0..n-1 |->
                          IF i < T THEN @[H + i] ELSE NoTask]]
          /\ slot' = [slot EXCEPT ![p] =
                [task_pool |-> IF in_arena(p) THEN "open" ELSE "empty",
                 head |-> 0, tail |-> T]]
          /\ Locally(p, [me[p] EXCEPT !.T = T])
          /\ Goto(p, IF me[p].list # <<>> THEN "prepare" ELSE "commit")
    /\ UNCHANGED <<plan, prefix, tag, box, next, stack, group>>

\* The items go to the array, the first of the list last; the store of tail
\* shows them.  A thread that is not in the arena enters it: enter_arena.
commit(p) ==
    /\ pc[p] = "commit"
    /\ LET n == Len(me[p].items)
           T == me[p].T
       IN /\ deque' = [deque EXCEPT ![p] = [i \in DOMAIN @ |->
                          IF i \in T..T+n-1 THEN me[p].items[n - (i - T)] ELSE @[i]]]
          /\ slot' = [slot EXCEPT ![p].tail = T + n,
                                  ![p].task_pool = IF @ = "empty" THEN "open" ELSE @]
    /\ Locally(p, [me[p] EXCEPT !.items = <<>>, !.T = NoIndex, !.after = ""])
    /\ Goto(p, me[p].after)
    /\ UNCHANGED <<plan, prefix, tag, box, next, stack, group>>

(***************************************************************************)
(* local_wait_for_all: the inner loop, one task after another.             *)
(***************************************************************************)
dispatch(p) ==
    /\ pc[p] = "dispatch"
    /\ LET t == me[p].t IN
       /\ prefix' = [prefix EXCEPT ![t].state = "executing", ![t].at = 1,
                                   ![t].round = IF cancelled THEN @ ELSE @ + 1]
       /\ Goto(p, IF cancelled THEN "completed" ELSE "run")
    /\ UNCHANGED <<plan, slot, deque, tag, box, next, me, stack, group>>

Call(p) == plan[me[p].t][prefix[me[p].t].round][prefix[me[p].t].at]

\* One call of the running task.
run(p) ==
    /\ pc[p] = "run"
    /\ LET t == me[p].t
           c == Call(p)
           Advance(r) == [r EXCEPT ![t].at = @ + 1]
       IN \/ /\ c.op = "refs"
             /\ prefix' = [Advance(prefix) EXCEPT ![t].ref_count = c.n]
             /\ UNCHANGED <<pc, me, stack>>
          \/ /\ c.op = "add"
             /\ prefix' = [Advance(prefix) EXCEPT ![c.to].ref_count = @ + 1]
             /\ UNCHANGED <<pc, me, stack>>
          \/ /\ c.op = "mark"
             /\ prefix' = [Advance(prefix) EXCEPT ![t].state = c.state]
             /\ UNCHANGED <<pc, me, stack>>
          \/ /\ c.op = "spawn"
             /\ prefix' = Advance(prefix)
             /\ Spawning(p, c.list, "run", me[p])
             /\ UNCHANGED stack
          \/ /\ c.op = "wait"
             /\ prefix' = Advance(prefix)
             /\ stack' = [stack EXCEPT ![p] = Append(@, t)]
             /\ Locally(p, [me[p] EXCEPT !.t = c.child])
             /\ Goto(p, IF c.child = NoTask THEN "quit" ELSE "dispatch")
          \/ /\ c.op = "throw"
             /\ Goto(p, "catch")
             /\ UNCHANGED <<prefix, me, stack>>
          \/ /\ c.op = "return"
             /\ Locally(p, [me[p] EXCEPT !.t_next = c.next])
             /\ Goto(p, "completed")
             /\ UNCHANGED <<prefix, stack>>
    /\ UNCHANGED <<plan, slot, deque, tag, box, next, group>>

\* TbbCatchAll: the first to cancel the group also stores the exception, in
\* a second step.
catch(p) ==
    /\ pc[p] = "catch"
    /\ cancelled' = TRUE
    /\ Goto(p, IF cancelled THEN "caught" ELSE "store exception")
    /\ UNCHANGED <<plan, shared, me, stack, exception>>

storeException(p) ==
    /\ pc[p] = "store exception"
    /\ exception' = TRUE
    /\ Goto(p, "caught")
    /\ UNCHANGED <<plan, shared, me, stack, cancelled>>

\* The loop starts again with the task that threw; the group is cancelled,
\* so that it is not executed.  A recycled task first gives up the count it
\* kept for itself.
caught(p) ==
    /\ pc[p] = "caught"
    /\ LET t == me[p].t
           recycled == prefix[t].state = "recycle"
       IN /\ prefix' = IF recycled
                       THEN [prefix EXCEPT ![t].state = "allocated",
                                           ![t].ref_count = @ - 1]
                       ELSE prefix
          /\ IF recycled /\ prefix[t].ref_count # 1
             THEN Locally(p, [me[p] EXCEPT !.t = NoTask]) /\ Goto(p, "quit")
             ELSE UNCHANGED me /\ Goto(p, "dispatch")
    /\ UNCHANGED <<plan, slot, deque, tag, box, next, stack, group>>

\* tally_completion_of_predecessor takes one off the count of s; the last one
\* keeps s as the next task, or spawns it.
Tally(p, s, after) ==
    /\ IF prefix[s].ref_count > 1
       THEN UNCHANGED me /\ Goto(p, after)
       ELSE IF me[p].t_next = NoTask
       THEN Locally(p, [me[p] EXCEPT !.t_next = s]) /\ Goto(p, after)
       ELSE Spawning(p, <<s>>, after, me[p])

LessOne(f, s) == [f EXCEPT ![s].ref_count = @ - 1]

\* What becomes of a task that has run depends on the state it left.
completed(p) ==
    /\ pc[p] = "completed"
    /\ LET t == me[p].t
           s == parent[t]
       IN CASE prefix[t].state = "executing" ->
                 /\ prefix' = LessOne(prefix, s)
                 /\ Tally(p, s, "free")
            [] prefix[t].state = "recycle" ->
                 /\ prefix' = LessOne([prefix EXCEPT ![t].state = "allocated"], t)
                 /\ Tally(p, t, "next")
            [] prefix[t].state = "reexecute" ->
                 /\ prefix' = [prefix EXCEPT ![t].state = "allocated"]
                 /\ Spawning(p, <<t>>, "next", me[p])
            [] OTHER -> UNCHANGED <<prefix, me>> /\ Goto(p, "next")
    /\ UNCHANGED <<plan, slot, deque, tag, box, next, stack, group>>

\* free_task, then on to the next task.
follow(p) ==
    /\ pc[p] \in {"free", "next"}
    /\ prefix' = IF pc[p] = "free" THEN [prefix EXCEPT ![me[p].t].state = "freed"]
                 ELSE prefix
    /\ Locally(p, [me[p] EXCEPT !.t = me[p].t_next, !.t_next = NoTask])
    /\ Goto(p, IF me[p].t_next # NoTask THEN "dispatch" ELSE "quit")
    /\ UNCHANGED <<plan, slot, deque, tag, box, next, stack, group>>

\* No task in hand: the loop ends when the work it waits for is done, goes
\* on with the own deque, or looks elsewhere.
quit(p) ==
    /\ pc[p] = "quit"
    /\ Goto(p, IF workDone(p) THEN "done"
               ELSE IF in_arena(p) THEN "pop" ELSE "ground")
    /\ UNCHANGED <<plan, shared, me, stack, group>>

(***************************************************************************)
(* get_task: the owner's end of the deque.                                 *)
(***************************************************************************)
pop(p) ==
    /\ pc[p] = "pop"
    /\ slot' = [slot EXCEPT ![p].tail = @ - 1]
    /\ Locally(p, [me[p] EXCEPT !.T = slot[p].tail - 1])
    /\ Goto(p, "compare")
    /\ UNCHANGED <<plan, prefix, deque, tag, box, next, stack, group>>

TakeLast(p) ==
    /\ deque' = [deque EXCEPT ![p][me[p].T] = NoTask]
    /\ Locally(p, [me[p] EXCEPT !.T = NoIndex, !.result = deque[p][me[p].T]])

compare(p) ==
    /\ pc[p] = "compare"
    /\ IF slot[p].head > me[p].T
       THEN Goto(p, "lock to pop") /\ UNCHANGED <<deque, me>>
       ELSE TakeLast(p) /\ Goto(p, "popped")
    /\ UNCHANGED <<plan, prefix, slot, tag, box, next, stack, group>>

\* With the lock: the thief backed off, or the deque is empty; an emptied
\* deque is reset and its owner leaves the arena.
arbitrate(p) ==
    /\ pc[p] = "arbitrate"
    /\ LET H == slot[p].head IN
       /\ IF H <= me[p].T THEN TakeLast(p)
          ELSE UNCHANGED deque /\ Locally(p, [me[p] EXCEPT !.T = NoIndex])
       /\ slot' = [slot EXCEPT ![p] =
             IF H < me[p].T THEN [@ EXCEPT !.task_pool = "open"]
             ELSE [task_pool |-> "empty", head |-> 0, tail |-> 0]]
    /\ Goto(p, "popped")
    /\ UNCHANGED <<plan, prefix, tag, box, next, stack, group>>

\* extract_task from one of a proxy's two places: the swap of the tag hands
\* over the task and leaves the proxy to the other place.
Grabs(x) == tag[x] = "both"
Extracted(x, other) == tag' = [tag EXCEPT ![x] = IF Grabs(x) THEN other ELSE "freed"]

Executes(p, t) == Locally(p, [Locals EXCEPT !.t = t]) /\ Goto(p, "dispatch")

popped(p) ==
    /\ pc[p] = "popped"
    /\ LET x == me[p].result IN
       IF ~IsProxy(x)
       THEN /\ UNCHANGED tag
            /\ IF x = NoTask THEN Locally(p, Locals) /\ Goto(p, "ground")
               ELSE Executes(p, x)
       ELSE /\ Extracted(x, "mailbox")
            /\ IF Grabs(x) THEN Executes(p, x.task)
               ELSE Locally(p, Locals) /\ Goto(p, IF in_arena(p) THEN "pop" ELSE "ground")
    /\ UNCHANGED <<plan, prefix, slot, deque, box, next, stack, group>>

(***************************************************************************)
(* receive_or_steal_task.                                                  *)
(***************************************************************************)
Idle(p, b) == [box EXCEPT ![p].my_is_idle = b]

\* The master's last loop only empties its own deque.
ground(p) ==
    /\ pc[p] = "ground"
    /\ IF ~Outermost(p) /\ Waited(p) = Drain
       THEN Goto(p, "end") /\ stack' = [stack EXCEPT ![p] = <<>>] /\ UNCHANGED box
       ELSE Goto(p, "look") /\ box' = Idle(p, TRUE) /\ UNCHANGED stack
    /\ UNCHANGED <<plan, prefix, slot, deque, tag, next, me, group>>

\* Each round looks at the count it waits for, then at the mailbox.  A
\* worker at its outermost level may be called back by the market.
look(p) ==
    /\ pc[p] = "look"
    /\ \/ workDone(p) /\ Goto(p, "done") /\ box' = Idle(p, FALSE)
       \/ ~workDone(p) /\ Goto(p, "mail") /\ UNCHANGED box
    /\ UNCHANGED <<plan, prefix, slot, deque, tag, next, me, stack, group>>

\* internal_pop of the mailbox: with one proxy left, my_last decides whether
\* another thread is about to append.
mail(p) ==
    /\ pc[p] = "mail"
    /\ LET x == box[p].my_first IN
       IF x = NoProxy
       THEN Goto(p, "choose") /\ UNCHANGED <<me, box>>
       ELSE /\ Locally(p, [me[p] EXCEPT !.result = x])
            /\ box' = [box EXCEPT ![p].my_first = next[x]]
            /\ Goto(p, IF next[x] # NoProxy THEN "mailed" ELSE "last mail")
    /\ UNCHANGED <<plan, prefix, slot, deque, tag, next, stack, group>>

lastMail(p) ==
    /\ pc[p] = "last mail"
    /\ IF box[p].my_last = me[p].result
       THEN box' = [box EXCEPT ![p].my_last = NoProxy] /\ Goto(p, "mailed")
       ELSE UNCHANGED box /\ Goto(p, "await link")
    /\ UNCHANGED <<plan, prefix, slot, deque, tag, next, me, stack, group>>

awaitLink(p) ==
    /\ pc[p] = "await link"
    /\ next[me[p].result] # NoProxy
    /\ box' = [box EXCEPT ![p].my_first = next[me[p].result]]
    /\ Goto(p, "mailed")
    /\ UNCHANGED <<plan, prefix, slot, deque, tag, next, me, stack, group>>

\* get_mailbox_task: an empty proxy is freed and the next one is taken.
mailed(p) ==
    /\ pc[p] = "mailed"
    /\ LET x == me[p].result IN
       /\ Extracted(x, "pool")
       /\ IF Grabs(x) THEN Executes(p, x.task) /\ box' = Idle(p, FALSE)
          ELSE Locally(p, Locals) /\ Goto(p, "mail") /\ UNCHANGED box
    /\ UNCHANGED <<plan, prefix, slot, deque, next, stack, group>>

choose(p) ==
    /\ pc[p] = "choose"
    /\ \E v \in Thread \ {p} : Locally(p, [me[p] EXCEPT !.victim = v])
    /\ Goto(p, "lock victim")
    /\ UNCHANGED <<plan, shared, stack, group>>

\* lock_task_pool: an empty pool ends the attempt, a locked one is waited for.
lockVictim(p) ==
    /\ pc[p] = "lock victim"
    /\ LET v == me[p].victim IN
       \/ /\ slot[v].task_pool = "empty"
          /\ Locally(p, Locals) /\ Goto(p, "look") /\ UNCHANGED slot
       \/ /\ slot[v].task_pool = "open"
          /\ slot' = [slot EXCEPT ![v].task_pool = "locked"]
          /\ Locally(p, [me[p] EXCEPT !.H = slot[v].head, !.H0 = slot[v].head])
          /\ Goto(p, "bump")
    /\ UNCHANGED <<plan, prefix, deque, tag, box, next, stack, group>>

\* Faulty: the thief looks at tail before it has shown its head.
bump_Hidden(p) ==
    /\ pc[p] = "bump"
    /\ Locally(p, [me[p] EXCEPT !.H = @ + 1])
    /\ Goto(p, "inspect")
    /\ UNCHANGED <<plan, shared, stack, group>>

bump(p) ==
    /\ pc[p] = "bump"
    /\ slot' = [slot EXCEPT ![me[p].victim].head = me[p].H + 1]
    /\ Locally(p, [me[p] EXCEPT !.H = @ + 1])
    /\ Goto(p, "inspect")
    /\ UNCHANGED <<plan, prefix, deque, tag, box, next, stack, group>>

\* A proxy whose recipient is idle is left to it.
LeftToRecipient(x) == IsProxy(x) /\ tag[x] = "both" /\ box[Outbox(x)].my_is_idle

\* steal_task: with head moved, the thief looks at tail, and backs off behind
\* it.
inspect(p) ==
    /\ pc[p] = "inspect"
    /\ LET v == me[p].victim IN
       \/ /\ me[p].H > slot[v].tail
          /\ slot' = [slot EXCEPT ![v].head = me[p].H0]
          /\ Goto(p, "unlock")
       \/ /\ me[p].H <= slot[v].tail
          /\ Goto(p, "take") /\ UNCHANGED slot
    /\ UNCHANGED <<plan, prefix, deque, tag, box, next, me, stack, group>>

\* The entry below head is taken, and the hole closed over the proxies that
\* were passed.
take(p) ==
    /\ pc[p] = "take"
    /\ LET v == me[p].victim
           H == me[p].H
           H0 == me[p].H0
           x == deque[v][H - 1]
       IN \/ /\ LeftToRecipient(x)
             /\ Goto(p, "bump") /\ UNCHANGED <<slot, deque, me>>
          \/ /\ ~LeftToRecipient(x)
             /\ deque' = [deque EXCEPT ![v] = [i \in DOMAIN @ |->
                             IF i = H0 THEN NoTask
                             ELSE IF i \in H0+1..H-1 THEN @[i - 1] ELSE @[i]]]
             /\ slot' = [slot EXCEPT ![v].head = H0 + 1]
             /\ Locally(p, [me[p] EXCEPT !.result = x])
             /\ Goto(p, "unlock")
    /\ UNCHANGED <<plan, prefix, tag, box, next, stack, group>>

unlock(p) ==
    /\ pc[p] = "unlock"
    /\ slot' = [slot EXCEPT ![me[p].victim].task_pool = "open"]
    /\ Locally(p, [Locals EXCEPT !.result = me[p].result])
    /\ Goto(p, IF me[p].result = NoTask THEN "look" ELSE "stolen")
    /\ UNCHANGED <<plan, prefix, deque, tag, box, next, stack, group>>

stolen(p) ==
    /\ pc[p] = "stolen"
    /\ LET x == me[p].result IN
       IF ~IsProxy(x)
       THEN Executes(p, x) /\ box' = Idle(p, FALSE) /\ UNCHANGED tag
       ELSE /\ Extracted(x, "mailbox")
            /\ IF Grabs(x) THEN Executes(p, x.task) /\ box' = Idle(p, FALSE)
               ELSE Locally(p, Locals) /\ Goto(p, "look") /\ UNCHANGED box
    /\ UNCHANGED <<plan, prefix, slot, deque, next, stack, group>>

(***************************************************************************)
(* The end of a loop, and of the master.                                   *)
(***************************************************************************)
\* wait_for_all returns to the task that called it, or throws the group's
\* exception into it.
done(p) ==
    /\ pc[p] = "done"
    /\ prefix' = [prefix EXCEPT ![Waited(p)].ref_count = 0]
    /\ stack' = [stack EXCEPT ![p] = SubSeq(@, 1, Len(@) - 1)]
    /\ IF Waited(p) = Root
       THEN /\ Locally(p, Locals)
            /\ Goto(p, IF in_arena(p) THEN "lock to clean up" ELSE "end")
       ELSE /\ Locally(p, [Locals EXCEPT !.t = Waited(p)])
            /\ Goto(p, IF cancelled /\ exception THEN "catch" ELSE "run")
    /\ UNCHANGED <<plan, slot, deque, tag, box, next, group>>

\* cleanup_master: proxies may be left in the deque, and are then dispatched.
cleanup_master(p) ==
    /\ pc[p] = "clean up"
    /\ IF slot[p].head >= slot[p].tail
       THEN /\ slot' = [slot EXCEPT ![p].task_pool = "empty"]
            /\ Goto(p, "end") /\ UNCHANGED stack
       ELSE /\ slot' = [slot EXCEPT ![p].task_pool = "open"]
            /\ stack' = [stack EXCEPT ![p] = <<Drain>>]
            /\ Goto(p, "quit")
    /\ UNCHANGED <<plan, prefix, deque, tag, box, next, me, group>>

\* arena::process: a worker comes to its slot, and leaves it without a task.
enter(p) ==
    /\ pc[p] = "out"
    /\ Goto(p, "look")
    /\ box' = Idle(p, TRUE)
    /\ UNCHANGED <<plan, prefix, slot, deque, tag, next, me, stack, group>>

leave(p) ==
    /\ pc[p] = "look" /\ Outermost(p) /\ p \in Worker
    /\ Goto(p, "out")
    /\ UNCHANGED <<plan, shared, me, stack, group>>

step(p) ==
    \/ spawn_root(p) \/ prepare(p) \/ linkProxy(p) \/ room(p) \/ acquire(p)
    \/ grow(p) \/ commit(p) \/ dispatch(p) \/ run(p) \/ catch(p)
    \/ storeException(p) \/ caught(p) \/ completed(p) \/ follow(p) \/ quit(p)
    \/ pop(p) \/ compare(p) \/ arbitrate(p) \/ popped(p) \/ ground(p) \/ look(p)
    \/ mail(p) \/ lastMail(p) \/ awaitLink(p) \/ mailed(p) \/ choose(p)
    \/ lockVictim(p) \/ bump(p) \/ inspect(p) \/ take(p) \/ unlock(p) \/ stolen(p)
    \/ done(p) \/ cleanup_master(p)

Next == \/ \E p \in Thread : step(p)
        \/ \E p \in Worker : enter(p) \/ leave(p)

Spec == Init /\ [][Next]_vars
\* Every thread runs; nothing says that a worker is ever sent to the arena.
\* A thread that spins for its own pool gets it in the end, although thieves
\* lock it again and again: both sides back off.
FairSpec == Spec /\ \A p \in Thread : WF_vars(step(p)) /\ SF_vars(acquire(p))
----------------------------------------------------------------------------
Finished == pc[0] = "end"

\* Threads that hold a task: to run it, or waiting inside it.
Holders(t) == {p \in Thread : \/ me[p].t = t /\ pc[p] # "next"
                              \/ \E i \in DOMAIN stack[p] : stack[p][i] = t}
Stored(p) == {i \in DOMAIN deque[p] : slot[p].head <= i /\ i < slot[p].tail}

\* A task runs in one thread at a time, an execution is not repeated, a freed
\* task is in nobody's hands, and a count never falls below zero: neither the
\* race of the owner with a thief for the last entry, nor a proxy with two
\* places, gives a task to two threads, or an entry that the other has taken
\* (the code's assertion that the entry is not poisoned).
EachTaskOnce ==
    \A t \in Task :
        /\ Cardinality(Holders(t)) <= 1
        /\ prefix[t].round <= Len(plan[t])
        /\ prefix[t].ref_count >= 0
        /\ prefix[t].state = "freed" =>
              Holders(t) = {} /\ \A p \in Thread : me[p].t_next # t
        /\ \A p \in Thread :
              pc[p] = "take" => deque[me[p].victim][me[p].H - 1] # NoTask

\* When wait_for_all returns, every task counted at the waiting one has
\* completed, or was never started: no count is lost or given twice between
\* children that end in different threads.
Completed(t) == \/ prefix[t].state = "freed"
                \/ \E q \in Thread : me[q].t = t /\ pc[q] = "free"
WaitedForAll ==
    \A p \in Thread : pc[p] = "done" =>
        \A t \in Task : parent[t] = Waited(p) =>
            \/ Completed(t)
            \/ prefix[t].state = "allocated" /\ prefix[t].round = 0

\* The proxies a thread can still come to: in a deque, in a mailbox, in hand.
ReachableProxies ==
    {x \in Proxy : \/ \E p \in Thread : x \in {me[p].result, me[p].link,
                                               box[p].my_first, box[p].my_last}
                   \/ \E y \in Proxy : next[y] = x /\ tag[y] \in {"both", "mailbox"}
                   \/ \E p \in Thread : \E i \in Stored(p) : deque[p][i] = x}

\* A proxy is freed by the last of its two places: none that can still be
\* reached is freed, in whatever order owner, thief and recipient come to it.
ProxiesLive == \A x \in ReachableProxies : tag[x] # "freed"

\* An exception that left a task is thrown again by the wait of the master,
\* although the thread that catches it cancels the group one step before it
\* stores the exception.
ExceptionArrives ==
    pc[0] = "done" /\ Waited(0) = Root /\ cancelled => exception

\* The master's spawn_root_and_wait and the cleanup after it return.
WaitReturns == <>Finished
=============================================================================
