----------------------------- MODULE ContextTree ----------------------------
(***************************************************************************)
(* The task groups of the vendored TBB form a tree (task_group_context).   *)
(* A cancellation, or a new priority, of a group must reach the groups     *)
(* below it.  A context that is bound to its parent is put in a list of    *)
(* the thread that binds it, mostly without a lock.  A thread that changes *)
(* the state of a group holds one mutex for all changes, moves on the      *)
(* global epoch, and walks over the lists of all threads, each under its   *)
(* list's mutex; at the end of a list the epoch of the thread is moved on. *)
(* Contexts are destroyed by their owners or by other threads meanwhile.   *)
(* Stores are seen in the order in which the fences of the code put them.  *)
(* All schedulers live on; what a scheduler does with its contexts when it *)
(* ends is left out.                                                       *)
(***************************************************************************)
EXTENDS Integers, Sequences, FiniteSets

CONSTANTS
    Scheduler,   \* 1..n, the threads; 0 - s is the head of the list of s
    Ctx,         \* positive integers, the contexts
    Root,        \* a context that is isolated, with a task running in it
    NoCtx,
    Races,       \* the windows that are open: "publish", a context is removed from the list
                 \* of a thread by another one while the first is between two steps of
                 \* register_with; "copy", a context is walked over while its thread is
                 \* between the load of the parent's state and its store
    ContextPrograms   \* calls of each thread: [op, ctx, parent, field, value]

VARIABLES
    kind,                      \* my_kind, "none" before the binding, "dead" after the destructor
    my_parent, my_owner,
    state,                     \* my_cancellation_requested and my_priority
    may_have_children,
    next, prev,                \* the lists
    local_update, nonlocal_update,
    list_mutex, propagation_mutex,
    epoch,                     \* the_context_state_propagation_epoch, at 0, and those of the schedulers
    assigned,                  \* contexts whose priority was set by a call
    calls, th                  \* calls left, what each thread is at

vars == <<kind, my_parent, my_owner, state, may_have_children, next, prev, local_update,
          nonlocal_update, list_mutex, propagation_mutex, epoch, assigned, calls, th>>
links == <<next, prev>>
tree == <<kind, my_parent, my_owner, state, may_have_children, assigned>>
flags == <<local_update, nonlocal_update>>
locks == <<list_mutex, propagation_mutex>>

head(s) == 0 - s
Heads == {head(s) : s \in Scheduler}
Idle == [pc |-> "idle", c |-> NoCtx, snap |-> 0, node |-> 0, s |-> 0, field |-> "cancel", v |-> 0]

Init ==
    /\ kind = [c \in Ctx |-> IF c = Root THEN "isolated" ELSE "none"]
    /\ my_parent = [c \in Ctx |-> NoCtx] /\ my_owner = [c \in Ctx |-> 0]
    /\ state = [cancel |-> [c \in Ctx |-> 0], prio |-> [c \in Ctx |-> 1]]
    /\ may_have_children = [c \in Ctx |-> FALSE] /\ assigned = {}
    /\ next = [n \in Ctx \cup Heads |-> n] /\ prev = next
    /\ local_update = [s \in Scheduler |-> FALSE] /\ nonlocal_update = [s \in Scheduler |-> 0]
    /\ list_mutex = [s \in Scheduler |-> 0] /\ propagation_mutex = 0
    /\ epoch = [s \in Scheduler \cup {0} |-> 0]
    /\ calls \in ContextPrograms /\ th = [t \in Scheduler |-> Idle]

At(t, p) == th[t].pc = p
Goto(t, p) == th' = [th EXCEPT ![t].pc = p]
Calls(t, op) == At(t, "idle") /\ calls[t] # <<>> /\ Head(calls[t]).op = op
                /\ calls' = [calls EXCEPT ![t] = Tail(@)]
Made(c) == kind[c] \in {"isolated", "completed"}
Return(t) == th' = [th EXCEPT ![t] = Idle]

-----------------------------------------------------------------------------
(* bind_to and register_with.                                              *)

\* A task of the parent's group allocates the first task of a group.
bind_to(t) ==
    /\ Calls(t, "bind")
    /\ LET c == Head(calls[t]).ctx
           p == Head(calls[t]).parent
       IN  /\ Made(p)
           /\ my_parent' = [my_parent EXCEPT ![c] = p]
           /\ may_have_children' = [may_have_children EXCEPT ![p] = TRUE]
           /\ th' = [th EXCEPT ![t] = [Idle EXCEPT !.c = c,
                         !.pc = IF my_parent[p] # NoCtx THEN "snapshot" ELSE "register"]]
    /\ UNCHANGED <<kind, my_owner, state, assigned, links, flags, locks, epoch>>

\* The state of the parent, in both fields.
Copied(c) == [f \in DOMAIN state |-> [state[f] EXCEPT ![c] = state[f][my_parent[c]]]]

snapshot(t) ==
    /\ At(t, "snapshot")
    /\ th' = [th EXCEPT ![t].pc = "speculate", ![t].snap = epoch[my_owner[my_parent[th[t].c]]]]
    /\ UNCHANGED <<tree, links, flags, locks, epoch, calls>>

speculate(t) ==
    /\ At(t, "speculate") /\ state' = Copied(th[t].c) /\ Goto(t, "register")
    /\ UNCHANGED <<kind, my_parent, my_owner, may_have_children, assigned, links, flags, locks,
                   epoch, calls>>

register_with(t) ==
    /\ At(t, "register")
    /\ my_owner' = [my_owner EXCEPT ![th[t].c] = t]
    /\ prev' = [prev EXCEPT ![th[t].c] = head(t)]
    /\ local_update' = [local_update EXCEPT ![t] = TRUE]
    /\ Goto(t, "link")
    /\ UNCHANGED <<kind, my_parent, state, may_have_children, assigned, next, nonlocal_update,
                   locks, epoch, calls>>

\* With the lock of the list when somebody destroys a context of it.
linkLocked(t) ==
    /\ At(t, "link") /\ nonlocal_update[t] > 0 /\ list_mutex[t] = 0
    /\ prev' = [prev EXCEPT ![next[head(t)]] = th[t].c]
    /\ next' = [next EXCEPT ![th[t].c] = next[head(t)], ![head(t)] = th[t].c]
    /\ local_update' = [local_update EXCEPT ![t] = FALSE] /\ Goto(t, "registered")
    /\ UNCHANGED <<tree, nonlocal_update, locks, epoch, calls>>

link(t) ==
    /\ At(t, "link") /\ nonlocal_update[t] = 0
    /\ prev' = [prev EXCEPT ![next[head(t)]] = th[t].c]
    /\ next' = [next EXCEPT ![th[t].c] = next[head(t)]]
    /\ local_update' = [local_update EXCEPT ![t] = FALSE] /\ Goto(t, "publish")
    /\ UNCHANGED <<tree, nonlocal_update, locks, epoch, calls>>

publish(t) ==
    /\ At(t, "publish") /\ next' = [next EXCEPT ![head(t)] = th[t].c] /\ Goto(t, "registered")
    /\ UNCHANGED <<tree, prev, flags, locks, epoch, calls>>


\* Somebody has changed a state since the epoch old was read.
Moved(old) == old # epoch[0]

Completed(t) == kind' = [kind EXCEPT ![th[t].c] = "completed"] /\ Return(t)

\* With a grandparent the state is copied again, under the lock, when a change
\* was under way; without one it is copied now, without a lock.
registered(t) ==
    LET c == th[t].c
        direct == my_parent[my_parent[c]] = NoCtx
        again == ~direct /\ Moved(th[t].snap)
    IN  /\ At(t, "registered") /\ (again => propagation_mutex = 0)
        /\ state' = IF again THEN Copied(c) ELSE state
        /\ IF direct THEN Goto(t, "load") /\ UNCHANGED kind ELSE Completed(t)
        /\ UNCHANGED <<my_parent, my_owner, may_have_children, assigned, links, flags, locks,
                       epoch, calls>>

\* One field after the other; the context is in the list meanwhile.
loadParent(t) ==
    /\ At(t, "load")
    /\ th' = [th EXCEPT ![t].pc = "store", ![t].v = state[th[t].field][my_parent[th[t].c]]]
    /\ UNCHANGED <<tree, links, flags, locks, epoch, calls>>

storeOwn(t) ==
    /\ At(t, "store")
    /\ state' = [state EXCEPT ![th[t].field][th[t].c] = th[t].v]
    /\ IF th[t].field = "cancel"
       THEN th' = [th EXCEPT ![t].pc = "load", ![t].field = "prio"] /\ UNCHANGED kind
       ELSE Completed(t)
    /\ UNCHANGED <<my_parent, my_owner, may_have_children, assigned, links, flags, locks,
                   epoch, calls>>

-----------------------------------------------------------------------------
(* cancel_group_execution, set_priority and the propagation.               *)

Changes(t, c, f, v) ==
    /\ state' = [state EXCEPT ![f][c] = v]
    /\ th' = [th EXCEPT ![t] = [Idle EXCEPT !.c = c, !.pc = "children", !.field = f, !.v = v]]

cancel_group_execution(t) ==
    LET c == Head(calls[t]).ctx
    IN  /\ Calls(t, "cancel") /\ Made(c)
        /\ IF state.cancel[c] = 1 THEN UNCHANGED <<state, th>> ELSE Changes(t, c, "cancel", 1)
        /\ UNCHANGED <<kind, my_parent, my_owner, may_have_children, assigned, links, flags,
                       locks, epoch>>

set_priority(t) ==
    LET c == Head(calls[t]).ctx
        v == Head(calls[t]).value
    IN  /\ Calls(t, "priority") /\ Made(c)
        /\ IF state.prio[c] = v THEN UNCHANGED <<state, th>> ELSE Changes(t, c, "prio", v)
        /\ assigned' = assigned \cup {c}
        /\ UNCHANGED <<kind, my_parent, my_owner, may_have_children, links, flags, locks, epoch>>

\* Backs off when another thread has changed the state since.
propagate_task_group_state(t) ==
    /\ At(t, "children")
    /\ IF may_have_children[th[t].c]
       THEN /\ propagation_mutex = 0
            /\ IF state[th[t].field][th[t].c] # th[t].v
               THEN Return(t) /\ UNCHANGED propagation_mutex
               ELSE Goto(t, "advance") /\ propagation_mutex' = t
       ELSE Return(t) /\ UNCHANGED propagation_mutex
    /\ UNCHANGED <<tree, links, flags, list_mutex, epoch, calls>>

advanceEpoch(t) ==
    /\ At(t, "advance") /\ epoch' = [epoch EXCEPT ![0] = @ + 1]
    /\ th' = [th EXCEPT ![t].pc = "visit", ![t].s = 1]
    /\ UNCHANGED <<tree, links, flags, locks, calls>>

visit(t) ==
    LET s == th[t].s
    IN  /\ At(t, "visit") /\ list_mutex[s] = 0
        /\ list_mutex' = [list_mutex EXCEPT ![s] = t]
        /\ th' = [th EXCEPT ![t].pc = "walk", ![t].node = next[head(s)]]
        /\ UNCHANGED <<tree, links, flags, propagation_mutex, epoch, calls>>

\* The ancestors of c, the nearest first.
Ancestors(c) ==
    LET up[n \in 0..Cardinality(Ctx)] ==
            IF n = 0 THEN <<>>
            ELSE LET u == up[n - 1]
                     over == my_parent[IF u = <<>> THEN c ELSE u[Len(u)]]
                 IN  IF over = NoCtx THEN u ELSE Append(u, over)
    IN  up[Cardinality(Ctx)]

\* c and the contexts between it and the nearest ancestor that has the value.
Below(c, f, v) ==
    LET A == Ancestors(c)
        I == {i \in DOMAIN A : state[f][A[i]] = v}
    IN  IF I = {} THEN {}
        ELSE {c} \cup {A[i] : i \in {j \in DOMAIN A : \A k \in I : j < k}}

\* The walk does not come to a context between its load and its store.
Apart(c, f, v) ==
    \A s \in Scheduler : At(s, "store") => th[s].c \notin {c} \cup Below(c, f, v)

propagate_state_from_ancestors(t) ==
    LET f == th[t].field
        v == th[t].v
        c == th[t].node
    IN  /\ At(t, "walk") /\ c \notin Heads
        /\ "copy" \in Races \/ Apart(c, f, v)
        /\ state' = IF state[f][c] = v THEN state
                    ELSE [state EXCEPT ![f] = [x \in Ctx |-> IF x \in Below(c, f, v) THEN v ELSE @[x]]]
        /\ Goto(t, "follow")
        /\ UNCHANGED <<kind, my_parent, my_owner, may_have_children, assigned, links, flags, locks,
                       epoch, calls>>

follow(t) ==
    /\ At(t, "follow") /\ th' = [th EXCEPT ![t].pc = "walk", ![t].node = next[@]]
    /\ UNCHANGED <<tree, links, flags, locks, epoch, calls>>

\* The end of a list, and of the last one.
synchronise(t) ==
    LET s == th[t].s
    IN  /\ At(t, "walk") /\ th[t].node \in Heads
        /\ epoch' = [epoch EXCEPT ![s] = epoch[0]]
        /\ list_mutex' = [list_mutex EXCEPT ![s] = 0]
        /\ IF s = Cardinality(Scheduler)
           THEN propagation_mutex' = 0 /\ Return(t)
           ELSE /\ th' = [th EXCEPT ![t].pc = "visit", ![t].s = s + 1]
                /\ UNCHANGED propagation_mutex
        /\ UNCHANGED <<tree, links, flags, calls>>

-----------------------------------------------------------------------------
(* ~task_group_context.                                                    *)

\* Nothing is left in the group, and nobody calls it any more.
Unused(c) == /\ kind[c] = "completed"
             /\ \A x \in Ctx : my_parent[x] = c => kind[x] = "dead"
             /\ \A t \in Scheduler : th[t].c # c /\ \A i \in DOMAIN calls[t] :
                   /\ calls[t][i].op = "bind" => calls[t][i].parent # c
                   /\ calls[t][i].op \in {"cancel", "priority"} => calls[t][i].ctx # c

destroy(t) ==
    LET c == Head(calls[t]).ctx
    IN  /\ Calls(t, "destroy") /\ Unused(c)
        /\ IF my_owner[c] = t
           THEN /\ local_update' = [local_update EXCEPT ![t] = TRUE]
                /\ th' = [th EXCEPT ![t] = [Idle EXCEPT !.c = c, !.pc = "unlink", !.snap = epoch[t]]]
                /\ UNCHANGED kind
           ELSE /\ kind' = [kind EXCEPT ![c] = "dying"]
                /\ th' = [th EXCEPT ![t] = [Idle EXCEPT !.c = c, !.pc = "announce"]]
                /\ UNCHANGED local_update
        /\ UNCHANGED <<my_parent, my_owner, state, may_have_children, assigned, links,
                       nonlocal_update, locks, epoch>>

Unlinked(c) == /\ next' = [next EXCEPT ![prev[c]] = next[c]]
               /\ prev' = [prev EXCEPT ![next[c]] = prev[c]]
Dead(t) == kind' = [kind EXCEPT ![th[t].c] = "dead"] /\ Return(t)

unlinkLocked(t) ==
    /\ At(t, "unlink") /\ nonlocal_update[t] > 0 /\ list_mutex[t] = 0
    /\ Unlinked(th[t].c) /\ Dead(t)
    /\ local_update' = [local_update EXCEPT ![t] = FALSE]
    /\ UNCHANGED <<my_parent, my_owner, state, may_have_children, assigned, nonlocal_update, locks,
                   epoch, calls>>

unlink(t) ==
    /\ At(t, "unlink") /\ nonlocal_update[t] = 0
    /\ Unlinked(th[t].c) /\ Goto(t, "unlinked")
    /\ local_update' = [local_update EXCEPT ![t] = FALSE]
    /\ UNCHANGED <<tree, nonlocal_update, locks, epoch, calls>>

\* Waits for a thread that may be walking over the list.
unlinked(t) ==
    /\ At(t, "unlinked") /\ (Moved(th[t].snap) => list_mutex[t] = 0)
    /\ Dead(t)
    /\ UNCHANGED <<my_parent, my_owner, state, may_have_children, assigned, links, flags, locks,
                   epoch, calls>>

announce(t) ==
    /\ At(t, "announce") /\ Goto(t, "nonlocal")
    /\ nonlocal_update' = [nonlocal_update EXCEPT ![my_owner[th[t].c]] = @ + 1]
    /\ UNCHANGED <<tree, links, local_update, locks, epoch, calls>>

spin_wait(t) ==
    /\ At(t, "nonlocal") /\ ~local_update[my_owner[th[t].c]] /\ Goto(t, "remove")
    /\ UNCHANGED <<tree, links, flags, locks, epoch, calls>>

removeNonlocal(t) ==
    /\ At(t, "remove") /\ list_mutex[my_owner[th[t].c]] = 0
    /\ "publish" \in Races \/ ~At(my_owner[th[t].c], "publish")
    /\ Unlinked(th[t].c) /\ Goto(t, "leave")
    /\ UNCHANGED <<tree, flags, locks, epoch, calls>>

leaveList(t) ==
    /\ At(t, "leave") /\ Dead(t)
    /\ nonlocal_update' = [nonlocal_update EXCEPT ![my_owner[th[t].c]] = @ - 1]
    /\ UNCHANGED <<my_parent, my_owner, state, may_have_children, assigned, links, local_update,
                   locks, epoch, calls>>

-----------------------------------------------------------------------------
Bind(t) == \/ bind_to(t) \/ snapshot(t) \/ speculate(t) \/ register_with(t)
           \/ linkLocked(t) \/ link(t) \/ publish(t) \/ registered(t) \/ loadParent(t)
           \/ storeOwn(t)
Propagate(t) == \/ cancel_group_execution(t) \/ set_priority(t) \/ propagate_task_group_state(t)
                \/ advanceEpoch(t) \/ visit(t) \/ propagate_state_from_ancestors(t) \/ follow(t)
                \/ synchronise(t)
Destroy(t) == \/ destroy(t) \/ unlinkLocked(t) \/ unlink(t) \/ unlinked(t) \/ announce(t)
              \/ spin_wait(t) \/ removeNonlocal(t) \/ leaveList(t)

Finished == /\ \A t \in Scheduler : At(t, "idle") /\ calls[t] = <<>>
            /\ UNCHANGED vars

Next == (\E t \in Scheduler : Bind(t) \/ Propagate(t) \/ Destroy(t)) \/ Finished

-----------------------------------------------------------------------------
Quiet == \A t \in Scheduler : th[t].pc \in {"idle", "unlink", "unlinked", "announce", "nonlocal",
                                            "remove", "leave"}

(***************************************************************************)
(* A thread that walks over a list never stands on a context that was      *)
(* destroyed, "Local context list contains destroyed object"               *)
(* (task_group_context.cpp:334).                                           *)
(***************************************************************************)
WalksAlive ==
    \A t \in Scheduler : th[t].pc \in {"walk", "follow"} /\ th[t].node \in Ctx =>
        kind[th[t].node] # "dead"

(***************************************************************************)
(* When nobody is binding or changing a group, every group that is bound   *)
(* has what its parent has: it is cancelled if its parent is, and has the  *)
(* parent's priority unless it was given one of its own, although bindings *)
(* raced with changes at any level above (bind_to,                         *)
(* propagate_task_group_state).  In the end the list of a thread has the   *)
(* contexts that it bound, no more and no fewer.                           *)
(***************************************************************************)
GroupsAgree ==
    /\ Quiet => \A c \in Ctx : kind[c] = "completed" /\ (\A t \in Scheduler : th[t].c # c) =>
          /\ state.cancel[my_parent[c]] = 1 => state.cancel[c] = 1
          /\ c \notin assigned => state.prio[c] = state.prio[my_parent[c]]
    /\ (\A t \in Scheduler : At(t, "idle")) => \A s \in Scheduler :
          LET L == {c \in Ctx : kind[c] = "completed" /\ my_owner[c] = s}
          IN  \A n \in L \cup {head(s)} : next[n] \in L \cup {head(s)} /\ prev[next[n]] = n
=============================================================================
