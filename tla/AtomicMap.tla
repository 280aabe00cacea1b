------------------------------ MODULE AtomicMap -----------------------------
(***************************************************************************)
(* What concurrent_hash_map promises: every call looks at the whole map    *)
(* and changes it in one step, somewhere between its start and its end.    *)
(* An item is a key and a number that tells it from earlier items of the   *)
(* same key.                                                               *)
(***************************************************************************)
CONSTANT Thread
VARIABLES items,  \* the items in the map
          call,   \* the call each thread is in: a kind, a key and an item
          ret     \* what it returned

atomicMap == <<items, call, ret>>

Item(k) == {n \in items : n[1] = k}

Return(t, kind, v) ==
    /\ call[t].kind = kind /\ ret[t] = "none"
    /\ ret' = [ret EXCEPT ![t] = v] /\ UNCHANGED call

MapInit == items = {} /\ ret = [t \in Thread |-> "none"]

start(t) == /\ ret' = [ret EXCEPT ![t] = "none"]
            /\ \A u \in Thread \ {t} : call'[u] = call[u]
            /\ UNCHANGED items

find(t) == /\ Return(t, "find", IF Item(call[t].key) # {} THEN "true" ELSE "false")
           /\ UNCHANGED items

insert(t) ==
    \/ /\ Item(call[t].key) = {} /\ Return(t, "insert", "true")
       /\ \E n \in items' : n[1] = call[t].key /\ items' = items \cup {n}
    \/ /\ Item(call[t].key) # {} /\ Return(t, "insert", "false")
       /\ UNCHANGED items

erase(t) ==
    \/ /\ Item(call[t].key) # {} /\ Return(t, "erase", "true")
       /\ items' = items \ Item(call[t].key)
    \/ /\ Item(call[t].key) = {} /\ Return(t, "erase", "false")
       /\ UNCHANGED items

\* Erases the item an accessor is at, if it is still there.
exclude(t) ==
    /\ Return(t, "exclude", IF call[t].item \in items THEN "true" ELSE "false")
    /\ items' = items \ {call[t].item}

\* Operations that need the map for themselves: items are taken out, or a copy
\* is put in its place, which has new items of the same keys.
Quiet == \A t \in Thread : call[t].kind = "none" \/ ret[t] # "none"
remove == Quiet /\ items' \subseteq items /\ UNCHANGED <<call, ret>>
copy == /\ Quiet /\ UNCHANGED <<call, ret>>
        /\ {n[1] : n \in items'} = {n[1] : n \in items}

MapNext == \/ \E t \in Thread :
                start(t) \/ find(t) \/ insert(t) \/ erase(t) \/ exclude(t)
           \/ remove \/ copy

MapSpec == MapInit /\ [][MapNext]_atomicMap
=============================================================================
