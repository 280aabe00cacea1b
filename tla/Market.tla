------------------------------- MODULE Market -------------------------------
(***************************************************************************)
(* The market of the vendored TBB (tbb/market.cpp, market.h): which arena  *)
(* gets how many workers.  Every function here runs under                  *)
(* my_arenas_list_mutex, hence it is one operator from the market's state  *)
(* before it to the one after it.                                          *)
(*                                                                         *)
(* A market m is a record of top and bottom (my_global_top_priority and    *)
(* my_global_bottom_priority), epoch (my_global_reload_epoch), level (the  *)
(* lists, the round-robin position and the sums of each priority) and      *)
(* arena (the fields of each arena that the market reads or writes).       *)
(***************************************************************************)
EXTENDS Integers, Sequences, FiniteSets, FiniteSetsExt, SequencesExt

CONSTANTS Arena,
          NoArena,
          my_max_num_workers  \* workers the market may have in all

Priority == 0..2       \* num_priority_levels is 3
normal == 1            \* normalized_normal_priority

EmptyLevel == [arenas |-> <<>>, next |-> NoArena, requested |-> 0, available |-> 0]

\* arena::arena; slot 0 is the master's, who counts as an active thread.
NewArena(workers) ==
    [top |-> normal, bottom |-> normal, requested |-> 0, allotted |-> 0,
     max |-> workers, active |-> 1, master |-> TRUE, epoch |-> 0]

\* market::market
NewMarket == [top |-> normal, bottom |-> normal, epoch |-> 0,
              level |-> [p \in Priority |->
                  [EmptyLevel EXCEPT !.available = IF p = normal THEN my_max_num_workers ELSE 0]],
              arena |-> [a \in Arena |-> [NewArena(0) EXCEPT !.active = 0, !.master = FALSE]]]

Position(s, a) == CHOOSE i \in DOMAIN s : s[i] = a
\* ++it with the wrap of the code's loops.
After(s, a) == s[IF Position(s, a) = Len(s) THEN 1 ELSE Position(s, a) + 1]

insert_arena_into_list(m, a) ==
    LET p == m.arena[a].top
        l == m.level[p]
    IN [m EXCEPT !.level[p].arenas = <<a>> \o @,
                 !.level[p].next = IF l.arenas = <<>> THEN a ELSE @]

remove_arena_from_list(m, a) ==
    LET p == m.arena[a].top
        s == m.level[p].arenas
    IN [m EXCEPT !.level[p].arenas = SelectSeq(@, LAMBDA b : b # a),
                 !.level[p].next = IF @ # a THEN @
                                   ELSE IF Len(s) = 1 THEN NoArena ELSE After(s, a)]

create_arena(m, a, workers) ==
    insert_arena_into_list(
        [m EXCEPT !.arena[a] = NewArena(IF workers < my_max_num_workers THEN workers
                                        ELSE my_max_num_workers)], a)

detach_arena(m, a) == remove_arena_from_list(m, a)

num_workers_active(m, a) == m.arena[a].active - (IF m.arena[a].master THEN 1 ELSE 0)
InNeed(m, a) == num_workers_active(m, a) < m.arena[a].allotted

\* arena_in_need: from the highest priority down, each list from the position
\* where the last search ended.
Rotated(l) == LET k == Position(l.arenas, l.next)
              IN SubSeq(l.arenas, k, Len(l.arenas)) \o SubSeq(l.arenas, 1, k - 1)
NeedsAt(m, p) == {i \in DOMAIN m.level[p].arenas : InNeed(m, Rotated(m.level[p])[i])}
LevelsInNeed(m) == {p \in m.bottom..m.top : NeedsAt(m, p) # {}}

arena_in_need(m) ==
    IF LevelsInNeed(m) = {} THEN NoArena
    ELSE LET p == Max(LevelsInNeed(m)) IN Rotated(m.level[p])[Min(NeedsAt(m, p))]

\* The arena that was found counts its new worker, the search goes on after it.
Assign(m, a) ==
    LET p == m.arena[a].top
    IN [m EXCEPT !.arena[a].active = @ + 1,
                 !.level[p].next = After(m.level[p].arenas, a)]

\* update_allotment of one list: shares in proportion to the requests, the
\* remainder of the division is carried on to the next arena of the list.
Shares(m, s, demand, max_workers) ==
    LET workers == IF demand < max_workers THEN demand ELSE max_workers
        requested(i) == LET r == m.arena[s[i]].requested IN IF r > 0 THEN r ELSE 0
        carry[i \in 0..Len(s)] ==
            IF i = 0 THEN 0 ELSE (requested(i) * workers + carry[i - 1]) % demand
    IN [i \in DOMAIN s |-> (requested(i) * workers + carry[i - 1]) \div demand]

Allot(m, s, demand, max_workers) ==
    LET share == Shares(m, s, demand, max_workers)
    IN [m EXCEPT !.arena = [a \in Arena |->
          IF a \notin ToSet(s) \/ m.arena[a].requested <= 0 THEN @[a]
          ELSE [@[a] EXCEPT !.allotted =
                  LET n == share[Position(s, a)] IN IF n < m.arena[a].max THEN n ELSE m.arena[a].max]]]


\* update_allotment of the levels from p down: what a level does not ask for
\* is left to the next.
update_allotment(m, p) ==
    LET left[i \in 0..p] ==
            IF i = p THEN m.level[p].available
            ELSE LET rest == left[i + 1] - m.level[i + 1].requested
                 IN IF rest < 0 THEN 0 ELSE rest
        step[i \in 0..p+1] ==
            IF i = p + 1 THEN m
            ELSE LET n == [step[i + 1] EXCEPT !.level[i].available = left[i]]
                 IN IF i < m.bottom THEN step[i + 1]
                    ELSE IF m.level[i].requested = 0 THEN n
                    ELSE Allot(n, m.level[i].arenas, m.level[i].requested, left[i])
    IN step[0]

advance_global_reload_epoch(m) == [m EXCEPT !.epoch = @ + 1]

update_global_top_priority(m, p) ==
    advance_global_reload_epoch(
        [m EXCEPT !.top = p, !.level[p].available = my_max_num_workers])

reset_global_priority(m) ==
    update_global_top_priority([m EXCEPT !.bottom = normal], normal)

update_arena_top_priority(m, a, p) ==
    LET old == m.arena[a].top
        r == m.arena[a].requested
        moved == insert_arena_into_list([remove_arena_from_list(m, a)
                     EXCEPT !.arena[a].top = p], a)
    IN [moved EXCEPT !.arena[a].epoch = @ + 1,
                     !.level[old].requested = @ - r, !.level[p].requested = @ + r]

Requesting(m, low, high) == {q \in low..high : m.level[q].requested # 0}

\* adjust_demand, the part after the arena's own request has changed: the sum
\* of its level by delta, then the bounds and the shares.
Settle(m, a, delta) ==
    LET p == m.arena[a].top
        idle == m.arena[a].requested <= 0
        summed == [m EXCEPT !.level[p].requested = @ + delta]
        moved == IF idle /\ p # normal THEN update_arena_top_priority(summed, a, normal) ELSE summed
        n == IF idle THEN [moved EXCEPT !.arena[a].bottom = normal] ELSE moved
        empty == n.level[p].requested = 0
        below == Requesting(n, n.bottom, p - 1)
        above == Requesting(n, p + 1, n.top)
        allotted == LET r == n.arena[a].requested
                    IN IF r < my_max_num_workers THEN r ELSE my_max_num_workers
    IN CASE p = n.top ->
              LET k == IF ~empty THEN n
                       ELSE IF below = {} THEN reset_global_priority(n)
                       ELSE update_global_top_priority(n, Max(below))
              IN update_allotment(k, k.top)
         [] p > n.top ->
              update_allotment(
                  [update_global_top_priority(n, p)
                      EXCEPT !.arena[a].allotted = allotted,
                             !.level[p - 1].available = my_max_num_workers - allotted],
                  p - 1)
         [] p < n.top /\ p = n.bottom ->
              IF ~empty THEN update_allotment(n, p)
              ELSE IF above = {} THEN reset_global_priority(n)
              ELSE [n EXCEPT !.bottom = Min(above)]
         [] p < n.bottom -> update_allotment([n EXCEPT !.bottom = p], n.bottom)
         [] OTHER -> update_allotment(n, p)

\* adjust_demand.
adjust_demand(m, a, delta) ==
    LET prev_req == m.arena[a].requested
        n == [m EXCEPT !.arena[a].requested = @ + delta,
                       !.arena[a].allotted = IF prev_req + delta <= 0 THEN 0 ELSE @]
    IN IF delta = 0 THEN m
       ELSE IF prev_req + delta > 0 THEN Settle(n, a, delta)
       ELSE IF prev_req <= 0 THEN n ELSE Settle(n, a, -prev_req)

\* lower_arena_priority, for a caller that saw the priority old.
lower_arena_priority(m, a, new, old) ==
    LET moved == update_arena_top_priority(m, a, new)
        n == [moved EXCEPT !.bottom = IF @ > new THEN new ELSE @]
        p == Max(Requesting(n, n.bottom, old))
    IN IF m.arena[a].top # old THEN m
       ELSE IF m.arena[a].requested <= 0 THEN moved
       ELSE IF old = n.top /\ n.level[old].requested = 0
       THEN update_allotment(update_global_top_priority(n, p), p)
       ELSE update_allotment(n, old)

\* update_arena_priority: a raise moves the arena, anything else at most
\* lowers its bottom.
update_arena_priority(m, a, new) ==
    LET p == m.arena[a].top
        moved == update_arena_top_priority(m, a, new)
        n == IF moved.top < new THEN update_global_top_priority(moved, new)
             ELSE IF moved.top = new THEN advance_global_reload_epoch(moved) ELSE moved
        k == IF p = n.bottom THEN [n EXCEPT !.bottom = Min(Requesting(n, p, new))] ELSE n
    IN IF p >= new
       THEN [m EXCEPT !.arena[a].bottom = IF p > new /\ @ > new THEN new ELSE @]
       ELSE IF m.arena[a].requested <= 0 THEN moved
       ELSE update_allotment(k, new)
=============================================================================
