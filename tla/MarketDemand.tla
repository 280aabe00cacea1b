---------------------------- MODULE MarketDemand ----------------------------
(***************************************************************************)
(* The arenas' demands at the market (tbb/market.cpp): threads of several  *)
(* arenas call adjust_demand, update_arena_priority and                    *)
(* lower_arena_priority, workers come and go.                              *)
(*                                                                         *)
(* A thread that switches an arena to FULL or to EMPTY tells the market    *)
(* afterwards, so that the two calls of two threads can come in the        *)
(* opposite order; delta holds the calls under way.  Which thread switches *)
(* the arena, and when, is the matter of ArenaWork.                        *)
(***************************************************************************)
EXTENDS Market

CONSTANT Workers,    \* the numbers of workers a master may ask for
         MaxCalls,   \* bound on the calls that change a demand or a priority
         Races       \* the windows that are open: "demand", the demand of an arena
                     \* rises while a thread that has copied none is leaving;
                     \* "priority", the priority of an arena rises while its demand
                     \* is below 0, or falls while it is not above

VARIABLES m,         \* the market
          full,      \* arena -> my_pool_state is FULL, or busy
          delta,     \* arena -> the adjustments under way
          leaving,   \* arena -> the threads in on_thread_leaving that have copied a
                     \* demand of 0 (TRUE), or another one
          calls

vars == <<m, full, delta, leaving, calls>>

Init == /\ m = NewMarket
        /\ full = [a \in Arena |-> FALSE]
        /\ delta = [a \in Arena |-> <<>>]
        /\ leaving = [a \in Arena |-> [none \in BOOLEAN |-> 0]]
        /\ calls = 0

Listed == UNION {ToSet(m.level[p].arenas) : p \in Priority}
Leaving(a) == leaving[a][TRUE] + leaving[a][FALSE]
\* Every call under way is a thread of the arena.
Thread(a) == a \in Listed /\ Len(delta[a]) + Leaving(a) < m.arena[a].active
Counted == calls < MaxCalls /\ calls' = calls + 1
\* The epochs only grow, and nothing here reads them.
Without(n) == [n EXCEPT !.epoch = 0,
                        !.arena = [a \in Arena |-> [@[a] EXCEPT !.epoch = 0]]]

Create(a) ==
    /\ a \notin Listed /\ ~full[a]
    /\ \E w \in Workers : m' = create_arena(m, a, w)
    /\ Counted
    /\ UNCHANGED <<full, delta, leaving>>

\* advertise_new_work up to its call of the market.
TurnFull(a) ==
    /\ Thread(a) /\ ~full[a]
    /\ full' = [full EXCEPT ![a] = TRUE]
    /\ delta' = [delta EXCEPT ![a] = Append(@, m.arena[a].max)]
    /\ Counted
    /\ UNCHANGED <<m, leaving>>

\* is_out_of_work up to its call of the market.
TurnEmpty(a) ==
    /\ Thread(a) /\ full[a]
    /\ full' = [full EXCEPT ![a] = FALSE]
    /\ delta' = [delta EXCEPT ![a] = Append(@, -m.arena[a].max)]
    /\ UNCHANGED <<m, leaving, calls>>

AdjustDemand(a) ==
    \E i \in DOMAIN delta[a] :
        /\ "demand" \in Races \/ delta[a][i] < 0 \/ leaving[a][TRUE] = 0
        /\ m' = Without(adjust_demand(m, a, delta[a][i]))
        /\ delta' = [delta EXCEPT ![a] = RemoveAt(@, i)]
        /\ UNCHANGED <<full, leaving, calls>>

\* local_enqueue and reload_tasks.
UpdatePriority(a) ==
    /\ Thread(a) /\ Counted
    /\ "priority" \in Races \/ m.arena[a].requested >= 0
    /\ \E p \in Priority : m' = Without(update_arena_priority(m, a, p))
    /\ UNCHANGED <<full, delta, leaving>>

\* is_out_of_work: there is nothing at the top priority.
LowerPriority(a) ==
    /\ Thread(a) /\ full[a] /\ Counted
    /\ "priority" \in Races \/ m.arena[a].requested > 0
    /\ \E old \in Priority :
          /\ old > m.arena[a].bottom
          /\ m' = Without(lower_arena_priority(m, a, old - 1, old))
    /\ UNCHANGED <<full, delta, leaving>>

\* market::process: an idle worker asks for an arena.
WorkerComes ==
    /\ arena_in_need(m) # NoArena
    /\ m' = Assign(m, arena_in_need(m))
    /\ UNCHANGED <<full, delta, leaving, calls>>

\* on_thread_leaving of a worker, or of the master who has given up its slot:
\* a copy of the demand ...
CopyDemand(a) ==
    /\ Thread(a)
    /\ \E master \in BOOLEAN :
          /\ IF master THEN m.arena[a].master ELSE num_workers_active(m, a) > Leaving(a)
          /\ m' = [m EXCEPT !.arena[a].master = @ /\ ~master]
    /\ leaving' = [leaving EXCEPT ![a][m.arena[a].requested = 0] = @ + 1]
    /\ UNCHANGED <<full, delta, calls>>

\* ... and then the thread counts itself out; the last one closes the arena if
\* its copy was 0.
Leave(a) ==
    \E none \in BOOLEAN :
        LET n == [m EXCEPT !.arena[a].active = @ - 1]
            closes == n.arena[a].active = 0 /\ none
        IN  /\ leaving[a][none] > 0
            /\ leaving' = [leaving EXCEPT ![a][none] = @ - 1]
            /\ m' = IF closes
                    THEN [detach_arena(n, a) EXCEPT !.arena[a] = NewMarket.arena[a]]
                    ELSE n
            /\ full' = [full EXCEPT ![a] = @ /\ ~closes]
            /\ UNCHANGED <<delta, calls>>

\* Nobody is left to call: the last thread of an arena had copied a demand that
\* another one has cancelled since, and an arena like that is never closed.
Deserted == \A a \in Arena : a \in Listed /\ m.arena[a].active = 0

Next == \/ WorkerComes
        \/ \E a \in Arena : \/ Create(a) \/ TurnFull(a) \/ TurnEmpty(a)
                            \/ AdjustDemand(a) \/ UpdatePriority(a)
                            \/ LowerPriority(a) \/ CopyDemand(a) \/ Leave(a)
Spec == Init /\ [][Next]_vars
----------------------------------------------------------------------------
Positive(n) == IF n > 0 THEN n ELSE 0
Demand(p) == MapThenSumSet(LAMBDA a : Positive(m.arena[a].requested),
                                         {a \in Listed : m.arena[a].top = p})

\* assert_market_valid, checked by the calls that change a demand or a
\* priority: workers are asked for at the top priority, or nowhere.
assert_market_valid ==
    \/ m.level[m.top].requested > 0 /\ m.level[m.top].arenas # <<>>
    \/ m.top = normal /\ m.bottom = normal

\* That assertion and what it stands for: the sum of a level is what its
\* arenas ask for, and the bounds enclose every arena that asks for workers.
MarketValid ==
    /\ assert_market_valid
    /\ \A p \in Priority : /\ m.level[p].requested = Demand(p)
                           /\ Demand(p) > 0 => p \in m.bottom..m.top
                           /\ \A a \in ToSet(m.level[p].arenas) : m.arena[a].top = p

\* The market never promises more workers than it has, and a level gets some
\* only when every higher one got all it may use.
AllotmentSound ==
    /\ MapThenSumSet(LAMBDA a : m.arena[a].allotted, Listed) <= my_max_num_workers
    /\ \A a, b \in Listed :
          m.arena[a].top < m.arena[b].top /\ m.arena[a].allotted > 0 =>
              m.arena[b].allotted >= (IF m.arena[b].requested < m.arena[b].max
                                      THEN m.arena[b].requested ELSE m.arena[b].max)
    /\ \A a \in Listed : m.arena[a].requested <= 0 => m.arena[a].allotted = 0

\* With no call under way an arena's request says whether it has work, in
\* whatever order the calls of its threads came.
DemandSettled ==
    \A a \in Listed : delta[a] = <<>> =>
        m.arena[a].requested = (IF full[a] THEN m.arena[a].max ELSE 0)
=============================================================================
