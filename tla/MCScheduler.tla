---------------------------- MODULE MCScheduler -----------------------------
(***************************************************************************)
(* The tasks of the vendored TBB: how they are dispatched, how their       *)
(* memory returns, one arena in detail, the market with the demands and    *)
(* priorities of two arenas, the server that lends the workers, the tree   *)
(* of task groups, and the observers of threads.  The initial state        *)
(* chooses a part, and only that part moves.                               *)
(***************************************************************************)
EXTENDS SmallTasks, Integers, TLC

CONSTANTS Root, null, a, b, c0, d, e,
          NoArena, a1, a2, MaxCalls,
          Races,  \* the windows between two steps that are open, see the modules
          Parts   \* the parts of which one is chosen

VARIABLES part,
          plan, prefix, slot, deque, tag, box, next, t_pc, me, stack, cancelled, exception,
          m, state, mandatory, stream, pool, aside, orphans, done, skipped, alone, fresh,
          undisturbed, program, i_pc, i_me, closed,
          mk, full, delta, leaving, o_calls,
          my_slack, my_net_slack_requests, my_ref_count, my_asleep_list_root, my_next,
          mutex, my_state, mon, left, closing, acknowledged, th,
          kind, my_parent, my_owner, ctx, may_have_children, c_next, prev, local_update,
          nonlocal_update, list_mutex, propagation_mutex, epoch, assigned, c_calls, c_th,
          proxies, created, gc_ref_count, observer, my_proxy, my_busy_count, gone,
          my_local_last, entered, again, p_calls, p_th
----------------------------------------------------------------------------
\* One worker; b and d have an affinity to its mailbox.
parents == (a :> Root) @@ (b :> a) @@ (c0 :> a) @@ (d :> Root) @@ (e :> Root)
affinities == (a :> 0) @@ (b :> 2) @@ (c0 :> 0) @@ (d :> 2) @@ (e :> 0)

Refs(n) == [op |-> "refs", n |-> n]
Spawn(l) == [op |-> "spawn", list |-> l]
Wait(x) == [op |-> "wait", child |-> x]
Mark(s) == [op |-> "mark", state |-> s]
Return(x) == [op |-> "return", next |-> x]
Throw == [op |-> "throw"]
Leaf == <<<<Return(null)>>>>
Leaves == (b :> Leaf) @@ (c0 :> Leaf) @@ (d :> Leaf) @@ (e :> Leaf)

\* The programs: a waits for children that were spawned one by one, or at
\* once and throw; a is its own continuation, runs again, is the continuation
\* of a task it returns, or throws although it was recycled.
programs ==
    {a :> <<<<Refs(3), Spawn(<<b>>), Spawn(<<c0>>), Wait(null), Return(null)>>>> @@ Leaves,
     a :> <<<<Refs(3), Spawn(<<b, c0>>), Wait(null), Return(null)>>>>
       @@ (b :> <<<<Throw>>>>) @@ (c0 :> <<<<Throw>>>>) @@ Leaves,
     a :> <<<<Mark("recycle"), Refs(2), Spawn(<<b>>), Return(null)>>,
            <<Refs(2), Wait(c0), Return(null)>>>> @@ Leaves,
     a :> <<<<[op |-> "add", to |-> Root], Mark("reexecute"), Return(e)>>,
            <<Refs(2), Wait(c0), Return(null)>>>> @@ Leaves,
     a :> <<<<Mark("allocated"), Refs(1), Return(b)>>, <<Return(null)>>>> @@ Leaves,
     a :> <<<<Mark("recycle"), Refs(2), Spawn(<<b>>), Throw>>>> @@ Leaves}

Tasks == INSTANCE TaskScheduler WITH
    Worker <- {1}, Task <- DOMAIN parents, NoTask <- null,
    parent <- parents, affinity <- affinities, Roots <- <<a, d>>, Plans <- programs,
    min_task_pool_size <- 2, LineOfPointers <- 2, pc <- t_pc

Push(t) == [op |-> "spawn", task |-> t]
Enqueue(t) == [op |-> "enqueue", task |-> t]
WaitAll == [op |-> "wait"]
priorities == (a :> 1) @@ (b :> 2) @@ (c0 :> 0) @@ (d :> 1)
bodies == (a :> <<Push(b)>>) @@ (b :> <<>>) @@ (c0 :> <<>>) @@ (d :> <<Enqueue(c0), Push(b)>>)

Start(n, p) == [limit |-> n, program |-> p]
\* Enqueued tasks that the master does not wait for, the second perhaps while
\* the worker gives up after the first; spawned tasks that it waits for; and
\* arenas of a process without workers.
Starts ==
    {Start(1, p) : p \in {<<Enqueue(d)>>, <<Enqueue(b), Enqueue(c0)>>,
                          <<Enqueue(c0), Enqueue(b)>>, <<Push(b), Enqueue(c0)>>,
                          <<Push(a), Push(c0), WaitAll>>, <<Push(c0), Push(a), WaitAll>>}}
    \cup {Start(0, p) : p \in {<<Enqueue(d)>>, <<Enqueue(b)>>, <<Push(c0), Push(a), WaitAll>>}}

Inner == INSTANCE ArenaWork WITH
    Arena <- {a1}, my_max_num_workers <- 2, Worker <- {1}, Task <- DOMAIN priorities,
    NoTask <- null, prio <- priorities, body <- bodies,
    pc <- i_pc, me <- i_me

Outer == INSTANCE MarketDemand WITH
    Arena <- {a1, a2}, my_max_num_workers <- 2, Workers <- {1, 2}, m <- mk,
    calls <- o_calls

\* Two workers, and demand that rises and falls in one thread or in two.
demands == {(11 :> <<2, -2>>) @@ (12 :> <<>>), (11 :> <<1, -1>>) @@ (12 :> <<1, -1>>)}

Workers == INSTANCE WorkerServer WITH
    Worker <- {1, 2}, Client <- {11, 12}, Calls <- demands

\* Groups of the tree 1 - 2 - 3 and others below 1 and 2, bound while a group
\* above them is changed; and groups that other threads destroy.
Bind(c, p) == [op |-> "bind", ctx |-> c, parent |-> p]
Cancel(c) == [op |-> "cancel", ctx |-> c]
Prioritise(c, v) == [op |-> "priority", ctx |-> c, value |-> v]
Destroy(c) == [op |-> "destroy", ctx |-> c]

groups ==
    {<<x, y, z>> : x \in {<<Bind(2, 1), Bind(3, 2)>>, <<Bind(2, 1), Bind(3, 2), Destroy(3)>>},
                   y \in {<<Cancel(1)>>, <<Prioritise(1, 2)>>, <<Bind(4, 2), Cancel(1)>>},
                   z \in {<<Cancel(2)>>, <<Prioritise(2, 0)>>, <<Cancel(1), Cancel(2)>>,
                          <<Prioritise(1, 1), Bind(5, 2)>>}}
    \cup {<<<<Bind(2, 1), Bind(3, 1), Bind(4, 1), Destroy(2)>>, <<Destroy(3), Cancel(1)>>,
            <<Destroy(4)>>>>}

Groups == INSTANCE ContextTree WITH
    Scheduler <- 1..3, Ctx <- 1..5, Root <- 1, NoCtx <- 0, ContextPrograms <- groups,
    state <- ctx, next <- c_next, calls <- c_calls, th <- c_th

\* Observers 1 and 2, enabled and disabled by their threads while these and
\* others enter and leave.
On(x) == [op |-> "on", who |-> x]
Off(x) == [op |-> "off", who |-> x]
Entry == [op |-> "entry"]
Exit == [op |-> "exit"]

observations ==
    {<<<<On(1), Off(1), Exit>>, <<Entry, Exit>>, <<Entry, Exit>>>>,
     <<<<On(1), Off(1), Exit>>, <<On(2), Entry, Off(2), Exit>>, <<>>>>,
     <<<<On(1), Entry, Exit, Off(1)>>, <<Entry, On(2), Entry, Exit>>, <<>>>>,
     <<<<On(1), Off(1), Exit>>, <<Entry, On(2), Entry, Exit>>, <<>>>>}

Observers == INSTANCE ObserverProxies WITH
    Thread <- 1..3, Observer <- {1, 2}, NoObserver <- 0, ObserverPrograms <- observations,
    calls <- p_calls, th <- p_th

taskVars == <<plan, prefix, slot, deque, tag, box, next, t_pc, me, stack, cancelled,
              exception>>
innerVars == <<m, state, mandatory, stream, pool, aside, orphans, done, skipped, alone,
               fresh, undisturbed, program, i_pc, i_me, closed>>
outerVars == <<mk, full, delta, leaving, o_calls>>
serverVars == <<my_slack, my_net_slack_requests, my_ref_count, my_asleep_list_root, my_next,
                mutex, my_state, mon, left, closing, acknowledged, th>>
groupVars == <<kind, my_parent, my_owner, ctx, may_have_children, c_next, prev, local_update,
               nonlocal_update, list_mutex, propagation_mutex, epoch, assigned, c_calls, c_th>>
observerVars == <<proxies, created, gc_ref_count, observer, my_proxy, my_busy_count, gone,
                  my_local_last, entered, again, p_calls, p_th>>
vars == <<part, taskVars, memoryVars, innerVars, outerVars, serverVars, groupVars,
          observerVars>>

\* A part that does not move starts in one way only.
Init == /\ part \in Parts
        /\ Tasks!Init /\ (part # "tasks" => plan = CHOOSE p \in programs : TRUE)
        /\ Inner!Init
        /\ part # "arena" => /\ program = (CHOOSE s \in Starts : s.limit = 1).program
                             /\ m.arena[a1].max = 1
        /\ Workers!Init /\ (part # "workers" => left[12] = <<>>)
        /\ Groups!Init /\ (part # "groups" => c_calls = CHOOSE g \in groups : TRUE)
        /\ Observers!Init
        /\ part # "observers" => p_calls = CHOOSE o \in observations : TRUE
        /\ MemoryInit /\ Outer!Init

Only(p) == /\ part = p /\ UNCHANGED part
           /\ p # "tasks" => UNCHANGED taskVars
           /\ p # "memory" => UNCHANGED memoryVars
           /\ p # "arena" => UNCHANGED innerVars
           /\ p # "market" => UNCHANGED outerVars
           /\ p # "workers" => UNCHANGED serverVars
           /\ p # "groups" => UNCHANGED groupVars
           /\ p # "observers" => UNCHANGED observerVars

TasksMove == Only("tasks") /\ Tasks!Next
MemoryMoves == Only("memory") /\ MemoryNext
ArenaMoves == Only("arena") /\ Inner!Next
\* The arenas are interchangeable: a1 is made first.
MarketMoves == Only("market") /\ Outer!Next /\ (o_calls = 0 => a1 \in Outer!Listed')
WorkersMove == Only("workers") /\ Workers!Next
GroupsMove == Only("groups") /\ Groups!Next
ObserversMove == Only("observers") /\ Observers!Next
Done == /\ \/ part = "tasks" /\ Tasks!Finished
           \/ part = "memory" /\ AllGone
           \/ part = "arena" /\ Inner!Finished
           \/ part = "market" /\ (o_calls = MaxCalls \/ Outer!Deserted)
        /\ UNCHANGED vars

Next == \/ TasksMove \/ MemoryMoves \/ ArenaMoves \/ MarketMoves \/ WorkersMove
        \/ GroupsMove \/ ObserversMove \/ Done

\* The fairness of TaskScheduler.
Spec == /\ Init /\ [][Next]_vars
        /\ \A p \in {0, 1} : /\ WF_vars(Only("tasks") /\ Tasks!step(p))
                             /\ SF_vars(Only("tasks") /\ Tasks!acquire(p))
----------------------------------------------------------------------------
\* A task runs once, in one thread, wait_for_all returns after every child,
\* and a proxy that can still be reached is not freed (TaskScheduler).
EachTaskOnce ==
    part = "tasks" => Tasks!EachTaskOnce /\ Tasks!WaitedForAll /\ Tasks!ProxiesLive
\* A list of groups contains no destroyed group when it is walked (ContextTree).
WalksAlive == part = "groups" => Groups!WalksAlive
\* The master's wait returns (TaskScheduler).
WaitReturns == part = "tasks" => Tasks!WaitReturns
\* No proxy of an observer is freed in use, and none is left over
\* (ObserverProxies).
ProxiesSound == part = "observers" => Observers!ProxiesSound
\* An arena is closed once, with nobody and no task in it, and in an arena at
\* rest every task has been run (ArenaWork).
NoneStranded == part = "arena" => Inner!ClosedEmpty /\ Inner!NoneStranded
\* A closed arena has no task in it ("Not all enqueued tasks were executed",
\* arena::free_arena).
ClosedEmpty == part = "arena" => Inner!ClosedEmpty
\* Jobs have their workers, and the server outlives them (WorkerServer).
ServerSound == part = "workers" => Workers!ServerSound
=============================================================================
