----------------------------- MODULE ArenaWork -----------------------------
(***************************************************************************)
(* How threads find work in one arena of the vendored TBB, and when they   *)
(* leave it (tbb/arena.cpp, arena.h, and the parts of scheduler.cpp and    *)
(* custom_scheduler.h on enqueued tasks and priorities).                   *)
(*                                                                         *)
(* my_pool_state says whether the arena has work: whoever adds a task      *)
(* turns it from EMPTY to FULL and asks the market for workers; a worker   *)
(* that finds nothing takes a snapshot, with the state set to its own busy *)
(* mark, and turns it to EMPTY if nobody disturbed it.  A task whose       *)
(* priority is below the current one is put aside (offloaded), and left to *)
(* the arena (orphaned) by a worker that is called away.                   *)
(*                                                                         *)
(* Deques, mailboxes and the counts of children are in TaskScheduler: here *)
(* a deque is a sequence, and a task is a priority and the tasks that it   *)
(* spawns or enqueues.  The market is that of the module Market, with this *)
(* arena only.  The epochs of the code are compared with earlier values    *)
(* only, so that a flag "nothing has changed since" stands for each.       *)
(***************************************************************************)
EXTENDS Market

CONSTANTS Worker,       \* the worker threads; 0 is the master
          Task, NoTask,
          prio,         \* task -> its priority
          body,         \* task -> the calls it makes
          Starts,       \* what may happen: my_max_num_workers of the new arena,
                        \* and the calls of the master
          Races         \* the windows that are open: "demand", the demand rises while
                        \* a thread that has copied none is leaving

VARIABLES
    m,            \* the market and the arena's fields in it
    state,        \* my_pool_state: EMPTY, FULL, or the thread that is busy
    mandatory,    \* my_mandatory_concurrency
    stream,       \* my_task_stream: priority -> the enqueued tasks
    pool,         \* thread -> its deque
    aside,        \* thread -> my_offloaded_tasks
    orphans,      \* my_orphaned_tasks
    skipped,      \* my_skipped_fifo_priority
    alone,        \* my_limit is 1: no worker has ever come
    fresh,        \* thread -> my_local_reload_epoch is the current one
    undisturbed,  \* thread -> no priority, and no orphans, changed since its look
    program, done, pc, me,
    closed        \* how often the arena was closed

work == <<stream, pool, aside, orphans, done>>
epochs == <<fresh, undisturbed>>
vars == <<m, state, mandatory, work, skipped, alone, epochs, program, pc, me, closed>>

Thread == {0} \cup Worker
EMPTY == -1
FULL == -2
The == CHOOSE a \in Arena : TRUE
arena == m.arena[The]
num_slots == IF arena.max + 1 < 2 THEN 2 ELSE arena.max + 1
Inside == {w \in Worker : pc[w] \notin {"idle", "enter", "leave", "left"}}

Locals == [t |-> NoTask, calls |-> <<>>, k |-> 0, absent |-> TRUE, present |-> FALSE,
           dequeuing |-> FALSE, top |-> 0, demand |-> 0, snapshot |-> EMPTY,
           spawned |-> TRUE, after |-> "", hand |-> <<>>, requested |-> 0,
           waiting |-> FALSE, rest |-> <<>>]

Init ==
    /\ \E start \in Starts : /\ m = create_arena(NewMarket, The, start.limit)
                             /\ program = start.program
    /\ state = EMPTY /\ mandatory = FALSE
    /\ stream = [p \in Priority |-> <<>>]
    /\ pool = [p \in Thread |-> <<>>]
    /\ aside = [p \in Thread |-> <<>>]
    /\ orphans = <<>> /\ skipped = 0 /\ alone = TRUE
    /\ fresh = [p \in Thread |-> TRUE]
    /\ undisturbed = [p \in Thread |-> TRUE]
    /\ done = {}
    /\ pc = [p \in Thread |-> IF p = 0 THEN "call" ELSE "idle"]
    /\ me = [p \in Thread |-> IF p = 0 THEN [Locals EXCEPT !.calls = program] ELSE Locals]
    /\ closed = 0

Goto(p, l) == pc' = [pc EXCEPT ![p] = l]
Locally(p, r) == me' = [me EXCEPT ![p] = r]

\* A call of the market: threads that watch an epoch learn that it moved, and
\* the counters themselves are cut back.
MarketCall(n) ==
    LET moved == n.arena[The].epoch # arena.epoch
    IN /\ m' = [n EXCEPT !.epoch = 0, !.arena[The].epoch = 0]
       /\ fresh' = [p \in Thread |-> fresh[p] /\
                       (IF p = 0 THEN ~moved ELSE n.epoch = m.epoch)]
       /\ undisturbed' = [p \in Thread |-> undisturbed[p] /\ ~moved]

\* The reference of the threads: the arena's priority for the master, the
\* market's for a worker.
ref_top_priority(p) == IF p = 0 THEN arena.top ELSE m.top
effective_reference_priority(p) ==
    IF p = 0 \/ arena.allotted < num_workers_active(m, The)
    THEN ref_top_priority(p) ELSE arena.top

(***************************************************************************)
(* The calls of a task, or of the master's program.                        *)
(***************************************************************************)
Advertise(p, spawned, after, locals) ==
    /\ Locally(p, [locals EXCEPT !.spawned = spawned, !.after = after])
    /\ Goto(p, "advertise")

\* local_spawn, and local_enqueue: the task is there before it is advertised.
call(p) ==
    /\ pc[p] = "call" /\ me[p].calls # <<>>
    /\ LET c == Head(me[p].calls)
           rest == [me[p] EXCEPT !.calls = Tail(@)]
       IN \/ /\ c.op = "spawn"
             /\ pool' = [pool EXCEPT ![p] = Append(@, c.task)]
             /\ Advertise(p, TRUE, "call", rest)
             /\ UNCHANGED stream
          \/ /\ c.op = "enqueue"
             /\ stream' = [stream EXCEPT ![prio[c.task]] = Append(@, c.task)]
             /\ Locally(p, [rest EXCEPT !.top = prio[c.task]])
             /\ Goto(p, "announce")
             /\ UNCHANGED pool
          \/ /\ c.op = "wait"
             /\ Locally(p, [me[p] EXCEPT !.calls = <<>>, !.rest = rest.calls,
                                         !.waiting = TRUE])
             /\ Goto(p, "own") /\ UNCHANGED <<pool, stream>>
    /\ UNCHANGED <<m, state, mandatory, aside, orphans, done, skipped, alone, epochs,
                   program, closed>>

\* The priority of an enqueued task, before and after the call that
\* advertises it.
announce(p) ==
    /\ pc[p] \in {"announce", "announce again"}
    /\ IF me[p].top = arena.top THEN UNCHANGED <<m, epochs>>
       ELSE MarketCall(update_arena_priority(m, The, me[p].top))
    /\ IF pc[p] = "announce" THEN Advertise(p, FALSE, "announce again", me[p])
       ELSE Goto(p, "call") /\ UNCHANGED me
    /\ UNCHANGED <<state, mandatory, work, skipped, alone, program, closed>>

\* After the last call: the own deque.
called(p) ==
    /\ pc[p] = "call" /\ me[p].calls = <<>>
    /\ Goto(p, "own")
    /\ UNCHANGED <<m, state, mandatory, work, skipped, alone, epochs, program, me, closed>>

(***************************************************************************)
(* advertise_new_work.                                                     *)
(***************************************************************************)
advertise(p) ==
    /\ pc[p] = "advertise"
    /\ IF ~me[p].spawned /\ arena.max = 0
       THEN /\ m' = [m EXCEPT !.arena[The].max = 1]
            /\ mandatory' = TRUE
            /\ state' = FULL
            /\ Locally(p, [me[p] EXCEPT !.demand = 1]) /\ Goto(p, "ask")
       ELSE /\ UNCHANGED <<m, mandatory, state>>
            /\ Locally(p, [me[p] EXCEPT !.snapshot = state])
            /\ Goto(p, IF state = FULL THEN me[p].after ELSE "fill")
    /\ UNCHANGED <<work, skipped, alone, epochs, program, closed>>

\* The swap from the state that was read; if it was a busy one and has turned
\* to EMPTY meanwhile, a second swap.
fill(p) ==
    /\ pc[p] = "fill"
    /\ state' = IF state = me[p].snapshot THEN FULL ELSE state
    /\ Goto(p, IF state # EMPTY THEN me[p].after
               ELSE IF me[p].snapshot = EMPTY THEN "respond" ELSE "fill again")
    /\ UNCHANGED <<m, mandatory, work, skipped, alone, epochs, program, me, closed>>

fillAgain(p) ==
    /\ pc[p] = "fill again"
    /\ state' = IF state = EMPTY THEN FULL ELSE state
    /\ Goto(p, IF state = EMPTY THEN "respond" ELSE me[p].after)
    /\ UNCHANGED <<m, mandatory, work, skipped, alone, epochs, program, me, closed>>

\* Who turned the state from EMPTY to FULL asks for workers, unless the only
\* one was there for enqueued tasks.
respond(p) ==
    /\ pc[p] = "respond"
    /\ IF me[p].spawned /\ mandatory
       THEN /\ m' = [m EXCEPT !.arena[The].max = 0]
            /\ mandatory' = FALSE
            /\ Goto(p, me[p].after) /\ UNCHANGED me
       ELSE /\ Locally(p, [me[p] EXCEPT !.demand = arena.max]) /\ Goto(p, "ask")
            /\ UNCHANGED <<m, mandatory>>
    /\ UNCHANGED <<state, work, skipped, alone, epochs, program, closed>>

MayRise == "demand" \in Races \/ \A q \in Thread : pc[q] = "left" => me[q].requested # 0

ask(p) ==
    /\ pc[p] = "ask" /\ MayRise
    /\ MarketCall(adjust_demand(m, The, me[p].demand))
    /\ Goto(p, me[p].after)
    /\ UNCHANGED <<state, mandatory, work, skipped, alone, program, me, closed>>

(***************************************************************************)
(* The dispatch loop: the own deque, then receive_or_steal_task.           *)
(***************************************************************************)
Children == {program[i].task : i \in {j \in DOMAIN program : program[j].op = "spawn"}}
\* The master waits for its own tasks only.
Satisfied(p) == me[p].waiting /\ Children \subseteq done
Outermost(p) == p \in Worker
\* The master's last loop only empties its own deque.
stealing_ground(p) == IF p = 0 /\ ~me[p].waiting THEN "sign off" ELSE "seek"

Returns(p) ==
    /\ Locally(p, [Locals EXCEPT !.calls = me[p].rest])
    /\ Goto(p, "call")

own(p) ==
    /\ pc[p] = "own"
    /\ IF Satisfied(p) THEN Returns(p) /\ UNCHANGED pool
       ELSE IF pool[p] # <<>>
       THEN /\ pool' = [pool EXCEPT ![p] = SubSeq(@, 1, Len(@) - 1)]
            /\ Locally(p, [me[p] EXCEPT !.t = pool[p][Len(pool[p])]])
            /\ Goto(p, "weigh")
       ELSE UNCHANGED <<pool, me>> /\ Goto(p, stealing_ground(p))
    /\ UNCHANGED <<m, state, mandatory, stream, aside, orphans, done, skipped, alone,
                   epochs, program, closed>>

\* A task with another priority than the reference updates the arena's.
weigh(p) ==
    /\ pc[p] = "weigh"
    /\ IF prio[me[p].t] \in {ref_top_priority(p), arena.top} THEN UNCHANGED <<m, epochs>>
       ELSE MarketCall(update_arena_priority(m, The, prio[me[p].t]))
    /\ Goto(p, IF prio[me[p].t] = ref_top_priority(p) THEN "run" ELSE "compare")
    /\ UNCHANGED <<state, mandatory, work, skipped, alone, program, me, closed>>

\* A task below the reference is put aside.  With a deque the rest of it is
\* winnowed; without one the arena is marked full.
compare(p) ==
    /\ pc[p] = "compare"
    /\ IF prio[me[p].t] >= effective_reference_priority(p)
       THEN Goto(p, "run") /\ UNCHANGED <<me, aside, pool>>
       ELSE /\ aside' = [aside EXCEPT ![p] = <<me[p].t>> \o @]
            /\ LET rest == [me[p] EXCEPT !.t = NoTask] IN
               IF pool[p] # <<>>
               THEN /\ pool' = [pool EXCEPT ![p] = <<>>]
                    /\ Locally(p, [rest EXCEPT !.hand = pool[p]])
                    /\ Goto(p, "winnow")
               ELSE Advertise(p, FALSE, stealing_ground(p), rest) /\ UNCHANGED pool
    /\ UNCHANGED <<m, state, mandatory, stream, orphans, done, skipped, alone, epochs,
                   program, closed>>

\* winnow_task_pool: the deque is out of the thieves' reach until its tasks
\* of low priority are aside.
winnow(p) ==
    /\ pc[p] = "winnow"
    /\ LET low == SelectSeq(me[p].hand, LAMBDA t : prio[t] < ref_top_priority(p))
           kept == SelectSeq(me[p].hand, LAMBDA t : prio[t] >= ref_top_priority(p))
       IN /\ aside' = [aside EXCEPT ![p] = Reverse(low) \o @]
          /\ IF kept = <<>>
             THEN /\ Locally(p, [me[p] EXCEPT !.hand = <<>>])
                  /\ Goto(p, stealing_ground(p)) /\ UNCHANGED pool
             ELSE /\ pool' = [pool EXCEPT ![p] = SubSeq(kept, 1, Len(kept) - 1)]
                  /\ Locally(p, [me[p] EXCEPT !.hand = <<>>, !.t = kept[Len(kept)]])
                  /\ Goto(p, "weigh")
    /\ UNCHANGED <<m, state, mandatory, stream, orphans, done, skipped, alone, epochs,
                   program, closed>>

\* execute(): the calls of the task follow.
run(p) ==
    /\ pc[p] = "run"
    /\ done' = done \cup {me[p].t}
    /\ Locally(p, [me[p] EXCEPT !.t = NoTask, !.calls = body[me[p].t]])
    /\ Goto(p, "call")
    /\ UNCHANGED <<m, state, mandatory, stream, pool, aside, orphans, skipped, alone,
                   epochs, program, closed>>

\* A priority that was passed over is restored by a thread that can dequeue.
seek(p) ==
    /\ pc[p] = "seek"
    /\ IF Outermost(p) /\ skipped # 0
       THEN /\ skipped' = 0
            /\ IF skipped > arena.top THEN MarketCall(update_arena_priority(m, The, skipped))
               ELSE UNCHANGED <<m, epochs>>
       ELSE UNCHANGED <<skipped, m, epochs>>
    /\ Goto(p, "look")
    /\ UNCHANGED <<state, mandatory, work, alone, program, me, closed>>

Revoked(p) == Outermost(p) /\ ~alone /\ arena.allotted < num_workers_active(m, The)
Victims(p) == {v \in Thread \ {p} : pool[v] # <<>>}
Takes(p, t) == Locally(p, [me[p] EXCEPT !.t = t]) /\ Goto(p, "weigh")
Stays(p, l) == Goto(p, l) /\ UNCHANGED <<me, stream, pool>>

\* One round: the end of the wait, the market's call, the enqueued tasks of
\* the top priority, the tasks put aside, the deque of another thread.
look(p) ==
    /\ pc[p] = "look"
    /\ IF Satisfied(p) THEN Returns(p) /\ UNCHANGED <<stream, pool>>
       ELSE IF Revoked(p) THEN Stays(p, "revalidate")
       ELSE IF ~alone /\ stream[arena.top] # <<>> THEN
            /\ Takes(p, Head(stream[arena.top]))
            /\ stream' = [stream EXCEPT ![arena.top] = Tail(@)]
            /\ UNCHANGED pool
       ELSE IF aside[p] # <<>> /\ ~fresh[p] THEN Stays(p, "reload")
       ELSE IF ~alone /\ Victims(p) # {} THEN
            \E v \in Victims(p) : /\ Takes(p, Head(pool[v]))
                                  /\ pool' = [pool EXCEPT ![v] = Tail(@)]
                                  /\ UNCHANGED stream
       ELSE Stays(p, IF orphans # <<>> THEN "abandoned" ELSE "give up")
    /\ UNCHANGED <<m, state, mandatory, aside, orphans, done, skipped, alone, epochs,
                   program, closed>>

High(s, p) == SelectSeq(s, LAMBDA t : prio[t] >= p)
Low(s, p) == SelectSeq(s, LAMBDA t : prio[t] < p)

\* reload_tasks of a list: the tasks at or above the priority go to the deque,
\* the last of them is run next.
Reloaded(p, s, top) ==
    LET high == High(s, top) IN
    IF high = <<>> THEN Goto(p, "unreachable") /\ UNCHANGED <<me, pool>>
    ELSE /\ pool' = [pool EXCEPT ![p] = @ \o Reverse(Tail(high))]
         /\ LET next == [me[p] EXCEPT !.t = Head(high)] IN
            IF Len(high) > 1 THEN Advertise(p, TRUE, "unreachable", next)
            ELSE Locally(p, next) /\ Goto(p, "unreachable")

reload_tasks(p) ==
    /\ pc[p] = "reload"
    /\ LET top == effective_reference_priority(p) IN
       /\ Reloaded(p, aside[p], top)
       /\ aside' = [aside EXCEPT ![p] = Low(@, top)]
       /\ fresh' = [fresh EXCEPT ![p] = TRUE]
    /\ UNCHANGED <<m, state, mandatory, stream, orphans, done, skipped, alone,
                   undisturbed, program, closed>>

\* The safeguard at its end: tasks left aside that the arena's priorities no
\* longer reach.
unreachable(p) ==
    /\ pc[p] = "unreachable"
    /\ LET next == IF me[p].t = NoTask THEN "look" ELSE "weigh" IN
       IF aside[p] # <<>> /\ (arena.bottom >= effective_reference_priority(p)
                              \/ arena.requested = 0)
       THEN /\ MarketCall(update_arena_priority(m, The, prio[Head(aside[p])]))
            /\ Advertise(p, FALSE, next, me[p])
       ELSE Goto(p, next) /\ UNCHANGED <<m, epochs, me>>
    /\ UNCHANGED <<state, mandatory, work, skipped, alone, program, closed>>

\* Tasks that other workers left: first the epoch, then the list.
abandoned(p) ==
    /\ pc[p] = "abandoned"
    /\ undisturbed' = [q \in Thread |-> FALSE]
    /\ Goto(p, "seize")
    /\ UNCHANGED <<m, state, mandatory, work, skipped, alone, fresh, program, me, closed>>

seize(p) ==
    /\ pc[p] = "seize"
    /\ orphans' = <<>>
    /\ LET top == effective_reference_priority(p)
           high == High(orphans, top)
       IN /\ aside' = [aside EXCEPT ![p] = Low(orphans, top) \o @]
          /\ IF high = <<>> THEN Goto(p, "give up") /\ UNCHANGED <<me, pool>>
             ELSE /\ pool' = [pool EXCEPT ![p] = @ \o Reverse(Tail(high))]
                  /\ LET next == [me[p] EXCEPT !.t = Head(high)] IN
                     IF Len(high) > 1 THEN Advertise(p, TRUE, "weigh", next)
                     ELSE Locally(p, next) /\ Goto(p, "weigh")
    /\ fresh' = [fresh EXCEPT ![p] = @ /\ orphans = <<>>]
    /\ UNCHANGED <<m, state, mandatory, stream, done, skipped, alone, undisturbed,
                   program, closed>>

(***************************************************************************)
(* is_out_of_work.                                                         *)
(***************************************************************************)
Verdict(p) == IF Outermost(p) THEN "revalidate" ELSE "retry"

\* A thread that is out of luck; the master only when there are tasks of a
\* lower priority.
give_up(p) ==
    /\ pc[p] = "give up"
    /\ IF ~Outermost(p) /\ arena.top <= arena.bottom
       THEN Goto(p, "retry") /\ UNCHANGED <<state, me, undisturbed>>
       ELSE /\ state' = IF state = FULL THEN p ELSE state
            /\ Locally(p, [me[p] EXCEPT !.top = arena.top, !.k = 0, !.absent = TRUE,
                                        !.dequeuing = FALSE])
            /\ undisturbed' = [undisturbed EXCEPT ![p] = TRUE]
            /\ Goto(p, IF state = FULL THEN "scan pools"
                       ELSE IF state = EMPTY THEN Verdict(p) ELSE "retry")
    /\ UNCHANGED <<m, mandatory, work, skipped, alone, fresh, program, closed>>

\* After a snapshot that did not end the loop, tasks aside are looked at again
\* whether an epoch has moved or not.
retry(p) ==
    /\ pc[p] = "retry"
    /\ fresh' = [fresh EXCEPT ![p] = @ /\ aside[p] = <<>>]
    /\ Goto(p, "look")
    /\ UNCHANGED <<m, state, mandatory, work, skipped, alone, undisturbed, program, me,
                   closed>>

LastSlot == Cardinality(Worker)

\* The deques, one after another.
scanPools(p) ==
    /\ pc[p] = "scan pools"
    /\ LET found == pool[me[p].k] # <<>>
           end == found \/ me[p].k = LastSlot
       IN /\ Locally(p, [me[p] EXCEPT !.k = IF end THEN 0 ELSE @ + 1,
                                      !.absent = ~found,
                                      !.present = found \/ orphans # <<>>])
          /\ Goto(p, IF ~end THEN "scan pools" ELSE IF found THEN "judge" ELSE "scan aside")
    /\ UNCHANGED <<m, state, mandatory, work, skipped, alone, epochs, program, closed>>

\* may_have_tasks of each thread.
Reshuffling(k) == pc[k] = "winnow"
scanAside(p) ==
    /\ pc[p] = "scan aside"
    /\ LET k == me[p].k
           here == k \in Inside \/ (k = 0 /\ arena.master)
           may == here /\ (Reshuffling(k) \/ (aside[k] # <<>> /\ ~fresh[k]))
       IN /\ Locally(p, [me[p] EXCEPT
                !.absent = ~may,
                !.present = @ \/ (here /\ (Reshuffling(k) \/ aside[k] # <<>>)),
                !.dequeuing = @ \/ (here /\ k # 0),
                !.k = @ + 1])
          /\ Goto(p, IF may \/ k = LastSlot THEN "judge" ELSE "scan aside")
    /\ UNCHANGED <<m, state, mandatory, work, skipped, alone, epochs, program, closed>>

\* No task at any priority was seen either.
NothingLower(p) == ~me[p].present /\ orphans = <<>> /\ stream[me[p].top] = <<>>

\* work_absent: nothing was seen, and nothing has moved since.
Absent(p) ==
    /\ me[p].absent /\ orphans = <<>> /\ undisturbed[p]
    /\ (~me[p].dequeuing \/ stream[me[p].top] = <<>>) /\ me[p].top = arena.top

Undo(p) == state' = (IF state = p THEN FULL ELSE state) /\ Goto(p, "retry")

\* The verdict: a lower priority, no work, or back to FULL.
judge(p) ==
    /\ pc[p] = "judge"
    /\ LET top == me[p].top
           no_fifo == stream[top] = <<>>
           absent == Absent(p)
       IN IF state # p THEN Goto(p, "retry") /\ UNCHANGED <<m, epochs, state, me, skipped>>
          ELSE IF absent /\ top > arena.bottom
          THEN /\ MarketCall(lower_arena_priority(m, The, top - 1, top))
               /\ skipped' = IF ~no_fifo /\ skipped < top THEN top ELSE skipped
               /\ Undo(p) /\ UNCHANGED me
          ELSE IF absent /\ NothingLower(p)
          THEN /\ Locally(p, [me[p] EXCEPT !.demand = -arena.max])
               /\ Goto(p, "turn empty")
               /\ UNCHANGED <<m, epochs, state, skipped>>
          ELSE Undo(p) /\ UNCHANGED <<m, epochs, me, skipped>>
    /\ UNCHANGED <<mandatory, work, alone, program, closed>>

turnEmpty(p) ==
    /\ pc[p] = "turn empty"
    /\ state' = IF state = p THEN EMPTY ELSE state
    /\ Goto(p, IF state = p THEN "no demand" ELSE "retry")
    /\ UNCHANGED <<m, mandatory, work, skipped, alone, epochs, program, me, closed>>

noDemand(p) ==
    /\ pc[p] = "no demand"
    /\ MarketCall(adjust_demand(m, The, me[p].demand))
    /\ Locally(p, [me[p] EXCEPT !.k = 0, !.present = FALSE])
    /\ Goto(p, "recheck")
    /\ UNCHANGED <<state, mandatory, work, skipped, alone, program, closed>>

\* A fault: the demand is given up without another look.
recheck_Skipped(p) ==
    /\ pc[p] = "recheck"
    /\ Goto(p, Verdict(p))
    /\ UNCHANGED <<m, state, mandatory, work, skipped, alone, epochs, program, me, closed>>

\* Enqueued tasks that came in between are looked for at every priority.
recheck(p) ==
    /\ pc[p] = "recheck"
    /\ LET q == me[p].k
           found == stream[q] # <<>>
           back == found \/ me[p].present
       IN /\ IF found /\ q \notin arena.bottom..arena.top
             THEN MarketCall(update_arena_priority(m, The, q))
             ELSE UNCHANGED <<m, epochs>>
          /\ IF q < 2 THEN /\ Locally(p, [me[p] EXCEPT !.k = @ + 1, !.present = back])
                           /\ Goto(p, "recheck")
             ELSE IF back THEN Advertise(p, TRUE, Verdict(p), me[p])
             ELSE Goto(p, Verdict(p)) /\ UNCHANGED me
    /\ UNCHANGED <<state, mandatory, work, skipped, alone, program, closed>>

(***************************************************************************)
(* arena::process and on_thread_leaving.                                   *)
(***************************************************************************)
\* An idle worker is sent to the arena, and finds a free slot or not.  Its
\* local epoch is set from the arena's, but compared with the market's.
come(p) ==
    /\ pc[p] = "idle"
    /\ arena_in_need(m) = The
    /\ m' = Assign(m, The)
    /\ Goto(p, "enter")
    /\ UNCHANGED <<state, mandatory, work, skipped, alone, epochs, program, me, closed>>

enter(p) ==
    /\ pc[p] = "enter"
    /\ Locally(p, Locals)
    /\ IF Cardinality(Inside) < num_slots - 1
       THEN /\ alone' = FALSE
            /\ \E b \in BOOLEAN : fresh' = [fresh EXCEPT ![p] = b]
            /\ Goto(p, "seek")
       ELSE UNCHANGED <<alone, fresh>> /\ Goto(p, "leave")
    /\ UNCHANGED <<m, state, mandatory, work, skipped, undisturbed, program, closed>>

\* A worker without a task leaves if there are too many workers, or none is
\* asked for; what it put aside becomes the arena's.
revalidate(p) ==
    /\ pc[p] = "revalidate"
    /\ IF num_workers_active(m, The) >= arena.allotted \/ arena.requested = 0
       THEN IF aside[p] = <<>> THEN Goto(p, "leave") /\ UNCHANGED undisturbed
            ELSE Goto(p, "orphan") /\ undisturbed' = [q \in Thread |-> FALSE]
       ELSE Goto(p, "seek") /\ UNCHANGED undisturbed
    /\ UNCHANGED <<m, state, mandatory, work, skipped, alone, fresh, program, me, closed>>

orphan(p) ==
    /\ pc[p] = "orphan"
    /\ orphans' = aside[p] \o orphans
    /\ aside' = [aside EXCEPT ![p] = <<>>]
    /\ Goto(p, "leave")
    /\ UNCHANGED <<m, state, mandatory, stream, pool, done, skipped, alone, epochs,
                   program, me, closed>>

\* cleanup_master gives up slot 0, unless a snapshot has locked it.
signOff(p) ==
    /\ pc[p] = "sign off"
    /\ m' = [m EXCEPT !.arena[The].master = FALSE]
    /\ Goto(p, "leave")
    /\ UNCHANGED <<state, mandatory, work, skipped, alone, epochs, program, me, closed>>

\* The request is read before the count of threads goes down.
leave(p) ==
    /\ pc[p] = "leave"
    /\ Locally(p, [Locals EXCEPT !.requested = arena.requested])
    /\ Goto(p, "left")
    /\ UNCHANGED <<m, state, mandatory, work, skipped, alone, epochs, program, closed>>

Closes(p) == arena.active = 1 /\ me[p].requested = 0

on_thread_leaving(p) ==
    /\ pc[p] = "left"
    /\ LET n == [m EXCEPT !.arena[The].active = @ - 1] IN
       IF Closes(p) THEN m' = detach_arena(n, The) /\ closed' = closed + 1
       ELSE m' = n /\ UNCHANGED closed
    /\ Goto(p, IF p = 0 THEN "gone" ELSE "idle")
    /\ UNCHANGED <<state, mandatory, work, skipped, alone, epochs, program, me>>

step(p) ==
    \/ call(p) \/ announce(p) \/ called(p) \/ advertise(p) \/ fill(p)
    \/ fillAgain(p) \/ respond(p) \/ ask(p) \/ own(p) \/ weigh(p) \/ compare(p)
    \/ winnow(p) \/ run(p) \/ seek(p) \/ look(p) \/ reload_tasks(p)
    \/ unreachable(p) \/ abandoned(p) \/ seize(p) \/ give_up(p) \/ retry(p) \/ scanPools(p)
    \/ scanAside(p) \/ judge(p) \/ turnEmpty(p) \/ noDemand(p) \/ recheck(p)
    \/ come(p) \/ enter(p) \/ revalidate(p) \/ orphan(p) \/ signOff(p) \/ leave(p)
    \/ on_thread_leaving(p)

Next == \E p \in Thread : step(p)
Spec == Init /\ [][Next]_vars
----------------------------------------------------------------------------
Scheduled == {program[i].task : i \in {j \in DOMAIN program : program[j].op # "wait"}}
AllTasks == Scheduled \cup UNION {{body[t][i].task : i \in DOMAIN body[t]} : t \in Scheduled}
Finished == /\ pc[0] = "gone" /\ (AllTasks \subseteq done \/ closed > 0)
            /\ \A w \in Worker : pc[w] = "idle"

Empty == /\ \A p \in Priority : stream[p] = <<>>
         /\ \A p \in Thread : pool[p] = <<>> /\ aside[p] = <<>>
         /\ orphans = <<>>

\* The arena is closed once, with nobody and no task in it (the assertions of
\* free_arena, "Not all enqueued tasks were executed"): the demand is never
\* withdrawn for good while work is there, however the state, the priorities
\* and the demand change in between.
ClosedEmpty == closed > 0 => closed = 1 /\ arena.active = 0 /\ Empty

\* Nobody is left in the arena, and no worker will be sent to it.
AtRest == pc[0] = "gone" /\ \A w \in Worker : pc[w] = "idle" /\ arena_in_need(m) # The

\* When the arena has come to rest, every task that was spawned or enqueued
\* has been run: a task put aside, orphaned, or enqueued with a priority that
\* was not reached when workers gave up is never forgotten, although the
\* master need not wait for it and is gone.
NoneStranded == AtRest => AllTasks \subseteq done
=============================================================================
