--------------------------- MODULE ObserverProxies --------------------------
(***************************************************************************)
(* Observers of the threads of the vendored TBB (observer_proxy).  An      *)
(* observer has a proxy in a global list, which threads walk over to call  *)
(* on_scheduler_entry and on_scheduler_exit.  A thread remembers the proxy *)
(* at which it stopped and counts as a reference to it; the observer is    *)
(* another one.  The list is changed under a reader-writer mutex, while    *)
(* references are given up without it as long as they are not the last.    *)
(* A proxy is known by the number of its creation, and 0 stands for NULL.  *)
(***************************************************************************)
EXTENDS Integers, Sequences, FiniteSets, SequencesExt

CONSTANTS
    Thread, Observer, NoObserver,
    ObserverPrograms   \* calls of each thread: [op, who], the last one is "exit"

VARIABLES
    proxies,        \* the global list
    created,        \* number of proxies made
    gc_ref_count, observer,          \* of the proxies
    my_proxy, my_busy_count, gone,   \* of the observers; gone: observe(false) has returned
    my_local_last,  \* of the threads
    entered,        \* <<thread, proxy>> of every call of on_scheduler_entry
    again,          \* such a call was made twice
    calls, th

vars == <<proxies, created, gc_ref_count, observer, my_proxy, my_busy_count, gone,
          my_local_last, entered, again, calls, th>>
counts == <<gc_ref_count, my_busy_count>>
record == <<entered, again>>

MaxProxies == Cardinality(Observer)

\* p, local_last, is_entry of process_list; of remove_ref_slow: the proxy, the
\* count that was read and where it returns to; the observer of observe
Idle == [pc |-> "idle", p |-> 0, last |-> 0, entry |-> FALSE, drop |-> 0, r |-> 0,
         then |-> "idle", who |-> NoObserver]

Init ==
    /\ proxies = <<>> /\ created = 0
    /\ gc_ref_count = [x \in 1..MaxProxies |-> 0]
    /\ observer = [x \in 1..MaxProxies |-> NoObserver]
    /\ my_proxy = [o \in Observer |-> 0] /\ my_busy_count = [o \in Observer |-> 0]
    /\ gone = {} /\ my_local_last = [t \in Thread |-> 0]
    /\ entered = {} /\ again = FALSE
    /\ calls \in ObserverPrograms /\ th = [t \in Thread |-> Idle]

At(t, pc) == th[t].pc = pc
Calls(t, op) == At(t, "idle") /\ calls[t] # <<>> /\ Head(calls[t]).op = op
                /\ calls' = [calls EXCEPT ![t] = Tail(@)]

\* remove_ref_slow of x is called, and then the thread goes on at pc.
Dropping(r, x, pc) == [r EXCEPT !.pc = "drop", !.drop = x, !.then = pc]
Processing(t, entry) ==
    [Idle EXCEPT !.pc = "march", !.entry = entry, !.last = my_local_last[t],
                 !.p = IF entry THEN my_local_last[t] ELSE 0]

-----------------------------------------------------------------------------
(* observe.                                                                *)

\* Proxy x of o is made, with one reference, at the end of the list.
observer_proxy(x, o) ==
    /\ created' = x /\ proxies' = Append(proxies, x)
    /\ gc_ref_count' = [gc_ref_count EXCEPT ![x] = 1]
    /\ observer' = [observer EXCEPT ![x] = o]

observeOn(t) ==
    LET o == Head(calls[t]).who
    IN  /\ Calls(t, "on")
        /\ my_busy_count' = [my_busy_count EXCEPT ![o] = 0]
        /\ my_proxy' = [my_proxy EXCEPT ![o] = created + 1] /\ observer_proxy(created + 1, o)
        /\ th' = [th EXCEPT ![t] = Processing(t, TRUE)]
        /\ UNCHANGED <<gone, my_local_last, record>>

\* By the thread of the observer, which has enabled it.
observeOff(t) ==
    LET o == Head(calls[t]).who
    IN  /\ Calls(t, "off") /\ my_proxy[o] # 0
        /\ observer' = [observer EXCEPT ![my_proxy[o]] = NoObserver]
        /\ my_proxy' = [my_proxy EXCEPT ![o] = 0]
        /\ th' = [th EXCEPT ![t] = Dropping([Idle EXCEPT !.who = o], my_proxy[o], "busy")]
        /\ UNCHANGED <<proxies, created, counts, gone, my_local_last, record>>

\* A thread is calling the observer, or is about to.
Busy(o) == my_busy_count[o] # 0

observed(t) ==
    /\ At(t, "busy") /\ ~Busy(th[t].who)
    /\ gone' = gone \cup {th[t].who} /\ th' = [th EXCEPT ![t] = Idle]
    /\ UNCHANGED <<proxies, created, counts, observer, my_proxy, my_local_last, record, calls>>

\* A thread that steals for the first time, or ends.
notify_entry_observers(t) ==
    /\ Calls(t, "entry") /\ th' = [th EXCEPT ![t] = Processing(t, TRUE)]
    /\ UNCHANGED <<proxies, created, counts, observer, my_proxy, gone, my_local_last, record>>

notify_exit_observers(t) ==
    /\ Calls(t, "exit") /\ th' = [th EXCEPT ![t] = Processing(t, FALSE)]
    /\ UNCHANGED <<proxies, created, counts, observer, my_proxy, gone, my_local_last, record>>

-----------------------------------------------------------------------------
(* remove_ref_slow.                                                        *)

readCount(t) ==
    /\ At(t, "drop")
    /\ th' = [th EXCEPT ![t].r = gc_ref_count[th[t].drop], ![t].pc = "swap"]
    /\ UNCHANGED <<proxies, created, counts, observer, my_proxy, gone, my_local_last, record, calls>>

swapCount(t) ==
    LET x == th[t].drop
    IN  /\ At(t, "swap") /\ th[t].r > 1
        /\ IF gc_ref_count[x] = th[t].r
           THEN /\ gc_ref_count' = [gc_ref_count EXCEPT ![x] = @ - 1]
                /\ th' = [th EXCEPT ![t].pc = th[t].then]
           ELSE th' = [th EXCEPT ![t].r = gc_ref_count[x]] /\ UNCHANGED gc_ref_count
        /\ UNCHANGED <<proxies, created, observer, my_proxy, my_busy_count, gone, my_local_last,
                       record, calls>>

remove_from_list(x) == proxies' = Remove(proxies, x)

\* With the mutex, because the count may come to zero.
remove_ref_slow(t) ==
    LET x == th[t].drop
    IN  /\ At(t, "swap") /\ th[t].r <= 1
        /\ gc_ref_count' = [gc_ref_count EXCEPT ![x] = @ - 1]
        /\ IF gc_ref_count[x] = 1 THEN remove_from_list(x) ELSE UNCHANGED proxies
        /\ th' = [th EXCEPT ![t].pc = th[t].then]
        /\ UNCHANGED <<created, observer, my_proxy, my_busy_count, gone, my_local_last, record,
                       calls>>

-----------------------------------------------------------------------------
(* process_list.                                                           *)

\* The proxies behind p, or all of them.
Behind(p) == SubSeq(proxies, SelectInSeq(proxies, LAMBDA x : x = p) + 1, Len(proxies))
Watched(p) == SelectSeq(Behind(p), LAMBDA x : observer[x] # NoObserver)

\* Fault: the reference is given up at once in any case.
Quickly_Always(r) == r.last # 0

\* The reference to local_last is given up at once when its observer has one, too.
Quickly(r) == r.last # 0 /\ observer[r.last] # NoObserver

\* The next proxy that has an observer.
march(t) ==
    LET r == th[t]
        x == Head(Watched(r.p))
        s == [r EXCEPT !.p = x, !.who = observer[x], !.last = IF Quickly(r) THEN 0 ELSE @]
    IN  /\ At(t, "march") /\ Watched(r.p) # <<>>
        /\ gc_ref_count' = [y \in DOMAIN gc_ref_count |->
              gc_ref_count[y] + (IF y = x THEN 1 ELSE 0)
                              - (IF Quickly(r) /\ y = r.last THEN 1 ELSE 0)]
        /\ my_busy_count' = [my_busy_count EXCEPT ![observer[x]] = @ + 1]
        /\ th' = [th EXCEPT ![t] = IF s.last # 0 THEN Dropping(s, s.last, "call")
                                   ELSE [s EXCEPT !.pc = "call"]]
        /\ UNCHANGED <<proxies, created, observer, my_proxy, gone, my_local_last, record, calls>>

\* The end of the list: a thread that enters keeps a reference to its last proxy.
marchEnd(t) ==
    LET r == th[t]
        end == IF Behind(r.p) = <<>> THEN r.p ELSE Last(proxies)
        stop == IF r.entry THEN end ELSE 0
        s == [r EXCEPT !.p = stop, !.last = IF Quickly(r) THEN 0 ELSE @]
    IN  /\ At(t, "march") /\ Watched(r.p) = <<>>
        /\ gc_ref_count' = [y \in DOMAIN gc_ref_count |->
              gc_ref_count[y] + (IF y = stop THEN 1 ELSE 0)
                              - (IF Quickly(r) /\ y = r.last THEN 1 ELSE 0)]
        /\ th' = [th EXCEPT ![t] = IF s.last # 0 THEN Dropping(s, s.last, "return")
                                   ELSE [s EXCEPT !.pc = "return"]]
        /\ UNCHANGED <<proxies, created, observer, my_proxy, my_busy_count, gone, my_local_last,
                       record, calls>>

callObserver(t) ==
    LET x == <<t, th[t].p>>
    IN  /\ At(t, "call") /\ th' = [th EXCEPT ![t].pc = "called"]
        /\ entered' = IF th[t].entry THEN entered \cup {x} ELSE entered
        /\ again' = (again \/ (th[t].entry /\ x \in entered))
        /\ UNCHANGED <<proxies, created, counts, observer, my_proxy, gone, my_local_last, calls>>

called(t) ==
    /\ At(t, "called")
    /\ my_busy_count' = [my_busy_count EXCEPT ![th[t].who] = @ - 1]
    /\ th' = [th EXCEPT ![t].pc = "march", ![t].last = th[t].p]
    /\ UNCHANGED <<proxies, created, gc_ref_count, observer, my_proxy, gone, my_local_last, record,
                   calls>>

\* A thread that has left has no list position any more: its scheduler is freed.
processed(t) ==
    /\ At(t, "return")
    /\ my_local_last' = [my_local_last EXCEPT ![t] = th[t].p] /\ th' = [th EXCEPT ![t] = Idle]
    /\ UNCHANGED <<proxies, created, counts, observer, my_proxy, gone, record, calls>>

-----------------------------------------------------------------------------
Observe(t) == observeOn(t) \/ observeOff(t) \/ observed(t)
Step(t) == \/ notify_entry_observers(t) \/ notify_exit_observers(t)
           \/ readCount(t) \/ swapCount(t) \/ remove_ref_slow(t)
           \/ march(t) \/ marchEnd(t) \/ callObserver(t) \/ called(t) \/ processed(t)

Ended == \A t \in Thread : At(t, "idle") /\ calls[t] = <<>>
Finished == Ended /\ UNCHANGED vars

Next == (\E t \in Thread : Observe(t) \/ Step(t)) \/ Finished

-----------------------------------------------------------------------------
InList(x) == x = 0 \/ Contains(proxies, x)

(***************************************************************************)
(* A proxy that a thread stands on or comes back to has not been freed,    *)
(* though threads and observers give up their references in any order; an  *)
(* observer is not called after observe(false) has returned, when it may   *)
(* be destroyed; no thread is told twice that it entered, although the     *)
(* proxy at which it stopped lost its observer; and when the threads have  *)
(* ended no proxy of a disabled observer is left, "Leaked observer_proxy   *)
(* objects" (process_list, remove_ref_slow, observe).                      *)
(***************************************************************************)
ProxiesSound ==
    /\ \A t \in Thread :
          /\ InList(my_local_last[t]) \/ th[t].pc # "idle"
          /\ th[t].pc \in {"drop", "swap"} => InList(th[t].drop)
          /\ th[t].pc \in {"march", "call", "called"} => InList(th[t].p)
          /\ At(t, "march") => InList(th[t].last)
          /\ th[t].pc \in {"call", "called"} => th[t].who \notin gone
    /\ ~again
    /\ Ended => \A x \in 1..created : Contains(proxies, x) <=> observer[x] # NoObserver
=============================================================================
