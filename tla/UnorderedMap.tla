----------------------------- MODULE UnorderedMap ---------------------------
(***************************************************************************)
(* tbb::concurrent_unordered_base: all items hang in one list, sorted by   *)
(* the reversed bits of their hashes, and a bucket is a shortcut to a      *)
(* dummy node in it.  More buckets are only more shortcuts; a dummy node   *)
(* is put in when its bucket is used first.  Nodes are linked with a       *)
(* compare-and-swap of the node before; nothing is unlinked while threads  *)
(* work on the map.                                                        *)
(***************************************************************************)
EXTENDS Naturals, Sequences, FiniteSets, TLC
LOCAL INSTANCE Functions

CONSTANTS
    Thread, Key,
    hash,         \* the hash of each key
    Width,        \* bits of a hash and an order key
    ShortWidth,   \* bits of the unsigned int that stands for the end of the list
    initial_bucket_number, initial_bucket_load,
    Programs,     \* bound: the calls the threads make
    MaxSerial     \* bound: how many of the operations below need the map for themselves

VARIABLES
    my_next,      \* the node after each node of the list
    my_number_of_buckets, my_element_count,
    segments,     \* the parts of the table of buckets that are allocated
    my_buckets,   \* the dummy nodes buckets lead to
    th,           \* the call of each thread and its local variables
    ret, left,
    serial        \* serial operations so far

list == <<my_next, my_element_count>>
table == <<my_number_of_buckets, segments, my_buckets>>
vars == <<list, table, th, ret, left, serial>>

-----------------------------------------------------------------------------
(* Order keys *)

ReverseBits(x) ==
    LET f[i \in 0..Width] == IF i = 0 THEN 0 ELSE 2 * f[i - 1] + ((x \div 2^(i - 1)) % 2)
    IN  f[Width]

split_order_key_regular(h) == (ReverseBits(h) \div 2) * 2 + 1

split_order_key_dummy(h) == (ReverseBits(h) \div 2) * 2

\* A node is its order key, its key (0 for a dummy) and who made it.
Node(ok, k, t) == <<ok, k, t>>
order(n) == n[1]
is_dummy(n) == n[1] % 2 = 0
Nil == <<2^Width, 0, 0>>
my_head == Node(0, 0, 0)

Log2(x) == CHOOSE i \in 0..x : 2^i <= x /\ x < 2^(i + 1)
RoundUp(n) == 2^Log2(2 * n - 1)
get_parent(b) == b - 2^Log2(b)
segment_index_of(b) == IF b = 0 THEN 0 ELSE Log2(b)

is_initialized(b) == segment_index_of(b) \in segments /\ b \in DOMAIN my_buckets

-----------------------------------------------------------------------------
Idle == [pc |-> "idle", kind |-> "none", key |-> 0, stack |-> <<>>, it |-> Nil,
         where |-> Nil, count |-> 0, size |-> 0]

Init ==
    /\ my_next = (my_head :> Nil) /\ my_element_count = 0
    /\ my_number_of_buckets = RoundUp(initial_bucket_number)
    /\ segments = {0} /\ my_buckets = (0 :> my_head)
    /\ th = [t \in Thread |-> Idle]
    /\ ret = [t \in Thread |-> "none"]
    /\ left \in Programs /\ serial = 0

Set(t, r) == th' = [th EXCEPT ![t] = r]

\* internal_insert and internal_find: the bucket is looked for first.  The
\* stack has the buckets to be initialized, the call's own at the bottom.
begin(t) ==
    LET c == Head(left[t])
    IN  /\ th[t].pc = "idle" /\ left[t] # <<>>
        /\ left' = [left EXCEPT ![t] = Tail(@)]
        /\ Set(t, [Idle EXCEPT !.pc = "bucket", !.kind = c.kind, !.key = c.key,
                               !.stack = <<hash[c.key] % my_number_of_buckets>>])
        /\ ret' = [ret EXCEPT ![t] = "none"]
        /\ UNCHANGED <<list, table, serial>>

Top(t) == th[t].stack[Len(th[t].stack)]
Pop(t) == SubSeq(th[t].stack, 1, Len(th[t].stack) - 1)

\* init_bucket looks at the parents until one is initialized; its dummy node
\* is where the search starts.
findBucket(t) ==
    /\ th[t].pc = "bucket"
    /\ IF is_initialized(Top(t))
       THEN Set(t, [th[t] EXCEPT !.pc = IF Len(th[t].stack) = 1 THEN "walk" ELSE "dummy",
                                 !.it = my_buckets[Top(t)], !.stack =
                                   IF Len(th[t].stack) = 1 THEN <<>> ELSE Pop(t)])
       ELSE Set(t, [th[t] EXCEPT !.stack = Append(@, get_parent(Top(t)))])
    /\ UNCHANGED <<list, table, ret, left, serial>>

\* insert_dummy: looks for the place behind it.
insert_dummy(t) ==
    LET ok == split_order_key_dummy(Top(t))
        where == my_next[th[t].it]
    IN  /\ th[t].pc = "dummy"
        /\ Set(t, IF order(where) > ok
                  THEN [th[t] EXCEPT !.pc = "linkDummy", !.where = where]
                  ELSE IF order(where) = ok
                  THEN [th[t] EXCEPT !.pc = "setBucket", !.it = where]
                  ELSE [th[t] EXCEPT !.it = where])
        /\ UNCHANGED <<list, table, ret, left, serial>>

\* The compare-and-swap of atomic_set_next succeeds.
Unmoved(t) == my_next[th[t].it] = th[t].where

Link(t, n) == my_next' = [x \in DOMAIN my_next \cup {n} |->
                            IF x = n THEN th[t].where
                            ELSE IF x = th[t].it THEN n ELSE my_next[x]]

linkDummy(t) ==
    LET n == Node(split_order_key_dummy(Top(t)), 0, t)
    IN  /\ th[t].pc = "linkDummy"
        /\ IF Unmoved(t)
           THEN Link(t, n) /\ Set(t, [th[t] EXCEPT !.pc = "setBucket", !.it = n])
           ELSE Set(t, [th[t] EXCEPT !.pc = "dummy"]) /\ UNCHANGED my_next
        /\ UNCHANGED <<my_element_count, table, ret, left, serial>>

\* set_bucket: a segment, of which one thread's allocation is kept, ...
allocateSegment(t) ==
    /\ th[t].pc = "setBucket" /\ segment_index_of(Top(t)) \notin segments
    /\ segments' = segments \cup {segment_index_of(Top(t))}
    /\ UNCHANGED <<list, my_number_of_buckets, my_buckets, th, ret, left, serial>>

\* ... and the entry.  The call goes on with the bucket under it.
set_bucket(t) ==
    LET b == Top(t)
    IN  /\ th[t].pc = "setBucket" /\ segment_index_of(b) \in segments
        /\ my_buckets' = [x \in DOMAIN my_buckets \cup {b} |->
                            IF x = b THEN th[t].it ELSE my_buckets[x]]
        /\ Set(t, [th[t] EXCEPT !.pc = "bucket"])
        /\ UNCHANGED <<list, my_number_of_buckets, segments, ret, left, serial>>

Value(t) == split_order_key_regular(hash[th[t].key])

\* The walk over the list from the bucket's dummy node: at w is the key, or the
\* place where it would be.
Found(t, w) == order(w) = Value(t) /\ w[2] = th[t].key
Passed(t, w) == order(w) > Value(t)
Back(t) == [Idle EXCEPT !.kind = th[t].kind, !.key = th[t].key]

internal_insert(t) ==
    LET where == my_next[th[t].it]
    IN  /\ th[t].pc = "walk" /\ th[t].kind # "find"
        /\ Set(t, IF Found(t, where) THEN Back(t)
                  ELSE IF Passed(t, where) THEN [th[t] EXCEPT !.pc = "link", !.where = where]
                  ELSE [th[t] EXCEPT !.it = where])
        /\ ret' = IF Found(t, where) THEN [ret EXCEPT ![t] = "false"] ELSE ret
        /\ UNCHANGED <<list, table, left, serial>>

internal_find(t) ==
    LET where == my_next[th[t].it]
    IN  /\ th[t].pc = "walk" /\ th[t].kind = "find"
        /\ IF Found(t, where) \/ Passed(t, where)
           THEN /\ ret' = [ret EXCEPT ![t] = IF Found(t, where) THEN "true" ELSE "false"]
                /\ Set(t, Back(t))
           ELSE Set(t, [th[t] EXCEPT !.it = where]) /\ UNCHANGED ret
        /\ UNCHANGED <<list, table, left, serial>>

\* try_insert
link(t) ==
    /\ th[t].pc = "link"
    /\ IF Unmoved(t)
       THEN /\ Link(t, Node(Value(t), th[t].key, t))
            /\ ret' = [ret EXCEPT ![t] = "true"]
            /\ Set(t, [th[t] EXCEPT !.pc = "count", !.it = Nil, !.where = Nil])
       ELSE Set(t, [th[t] EXCEPT !.pc = "walk"]) /\ UNCHANGED <<my_next, ret>>
    /\ UNCHANGED <<my_element_count, table, left, serial>>

addCount(t) ==
    /\ th[t].pc = "count"
    /\ my_element_count' = my_element_count + 1
    /\ Set(t, [th[t] EXCEPT !.pc = "size", !.count = my_element_count])
    /\ UNCHANGED <<my_next, table, ret, left, serial>>

\* adjust_table_size is given the number of buckets ...
readSize(t) ==
    /\ th[t].pc = "size"
    /\ Set(t, [th[t] EXCEPT !.pc = "adjust", !.size = my_number_of_buckets])
    /\ UNCHANGED <<list, table, ret, left, serial>>

\* ... and doubles it if nobody else has.
adjust_table_size(t) ==
    /\ th[t].pc = "adjust"
    /\ my_number_of_buckets' =
         IF /\ th[t].count > initial_bucket_load * th[t].size
            /\ my_number_of_buckets = th[t].size
         THEN 2 * th[t].size ELSE my_number_of_buckets
    /\ Set(t, Back(t))
    /\ UNCHANGED <<list, segments, my_buckets, ret, left, serial>>

Step(t) == \/ findBucket(t) \/ insert_dummy(t) \/ linkDummy(t) \/ allocateSegment(t)
           \/ set_bucket(t) \/ internal_insert(t) \/ internal_find(t) \/ link(t)
           \/ addCount(t) \/ readSize(t) \/ adjust_table_size(t)
-----------------------------------------------------------------------------
(* Operations and walks of a thread that has the map for itself            *)

Serial == \A t \in Thread : th[t].pc = "idle"

Linked == DOMAIN my_next
Items == {<<n[2], n>> : n \in {m \in Linked : ~is_dummy(m)}}

serialOp == Serial /\ serial < MaxSerial /\ serial' = serial + 1 /\ UNCHANGED <<th, ret, left>>

\* What init_bucket(b) initializes: b and its parents up to one that is.
RECURSIVE Missing(_)
Missing(b) == IF is_initialized(b) THEN {} ELSE {b} \cup Missing(get_parent(b))

dummy(b) == Node(split_order_key_dummy(b), 0, 0)

\* The list with dummy nodes ds put in.
WithDummies(ds) ==
    LET nodes == Linked \cup ds
        place(x) == CHOOSE p \in Linked :
                      IF x \in Linked THEN p = x
                      ELSE order(p) < order(x) /\ order(x) < order(my_next[p])
        between(x) == {m \in ds : order(x) < order(m) /\ order(m) < order(my_next[place(x)])}
    IN  [x \in nodes |-> IF between(x) = {} THEN my_next[place(x)]
                         ELSE CHOOSE m \in between(x) : \A o \in between(x) : order(m) <= order(o)]

\* The nodes of a key, one at most.
internal_equal_range(k) ==
    {n \in Linked : order(n) = split_order_key_regular(hash[k]) /\ n[2] = k}

\* unsafe_erase(key): the bucket of the key is initialized, as in every call,
\* and the node of the key is taken out of the list.
unsafe_erase(k) ==
    LET missing == Missing(hash[k] % my_number_of_buckets)
        next == WithDummies({dummy(b) : b \in missing})
        found == internal_equal_range(k)
    IN  /\ serialOp /\ (missing # {} \/ found # {})
        /\ segments' = segments \cup {segment_index_of(b) : b \in missing}
        /\ my_buckets' = [b \in missing |-> dummy(b)] @@ my_buckets
        /\ my_next' = [x \in DOMAIN next \ found |->
                         IF next[x] \in found THEN next[next[x]] ELSE next[x]]
        /\ my_element_count' = my_element_count - Cardinality(found)
        /\ UNCHANGED my_number_of_buckets

\* clear: all nodes but the head, all buckets but the first; their number stays.
clear ==
    /\ serialOp /\ my_next[my_head] # Nil
    /\ my_next' = (my_head :> Nil) /\ my_element_count' = 0
    /\ segments' = {0} /\ my_buckets' = (0 :> my_head)
    /\ UNCHANGED my_number_of_buckets

\* rehash only sets the number of buckets.
rehash(n) ==
    /\ serialOp /\ n > my_number_of_buckets
    /\ my_number_of_buckets' = RoundUp(n)
    /\ UNCHANGED <<list, segments, my_buckets>>

SerialNext == (\E k \in Key : unsafe_erase(k)) \/ clear \/ (\E n \in {3} : rehash(n))

\* first_real_iterator
RECURSIVE FirstReal(_)
FirstReal(n) == IF n # Nil /\ is_dummy(n) THEN FirstReal(my_next[n]) ELSE n

RECURSIVE Walk(_, _)
Walk(n, end) == IF n = end THEN <<>>
                ELSE IF n = Nil THEN <<Nil>>   \* past the end
                ELSE <<n>> \o Walk(FirstReal(my_next[n]), end)

RECURSIVE Known(_)
Known(b) == IF is_initialized(b) THEN b ELSE Known(get_parent(b))

\* sokey_t(~0U): as long as an unsigned int
get_safe_order_key(n) == IF n = Nil THEN 2^ShortWidth - 1 ELSE order(n)

\* const_range_type::set_midpoint, in the arithmetic of order keys
set_midpoint(b, e) ==
    LET bk == get_safe_order_key(b)
        ek == get_safe_order_key(e)
        half == ((2^Width + ek - bk) % 2^Width) \div 2
        bucket == ReverseBits((bk + half) % 2^Width) % my_number_of_buckets
        mid == FirstReal(my_buckets[Known(bucket)])
    IN  IF b = e \/ mid = b THEN e ELSE mid

\* The assertions of set_midpoint.
MidpointBetween(b, e) ==
    LET mid == set_midpoint(b, e)
    IN  b # e /\ mid # e => /\ get_safe_order_key(b) < get_safe_order_key(mid)
                           /\ get_safe_order_key(mid) <= get_safe_order_key(e)

RECURSIVE WalkRange(_, _, _)
WalkRange(b, e, depth) ==
    LET mid == set_midpoint(b, e)
    IN  IF mid = e \/ depth = 0 THEN Walk(b, e)
        ELSE WalkRange(b, mid, depth - 1) \o WalkRange(mid, e, depth - 1)

\* The node behind those of a bucket.
RECURSIVE PastBucket(_)
PastBucket(n) == IF n = Nil \/ is_dummy(n) THEN n ELSE PastBucket(my_next[n])

RECURSIVE CountFrom(_)
CountFrom(n) == IF n = Nil \/ is_dummy(n) THEN 0 ELSE 1 + CountFrom(my_next[n])

unsafe_begin(b) == FirstReal(my_buckets[b])
unsafe_end(b) == FirstReal(PastBucket(my_next[my_buckets[b]]))
unsafe_bucket_size(b) == CountFrom(my_next[my_buckets[b]])
BucketWalk(b) == Walk(unsafe_begin(b), unsafe_end(b))

-----------------------------------------------------------------------------
Finished == Serial /\ \A t \in Thread : left[t] = <<>>

Next == (\E t \in Thread : Step(t) \/ begin(t)) \/ SerialNext

FairSpec == Init /\ [][Next]_vars /\ \A t \in Thread : WF_vars(Step(t))

Map == INSTANCE AtomicMap WITH
         items <- Items,
         call <- [t \in Thread |-> [kind |-> th[t].kind, key |-> th[t].key]]

(***************************************************************************)
(* With threads that insert the same keys, put in the dummy nodes of the   *)
(* same buckets and double the table, a call returns what it would on a    *)
(* map of its own at one moment: a key is inserted once, and an item in    *)
(* the list is found from whatever bucket the search starts                *)
(* (internal_insert, internal_find, init_bucket).                          *)
(***************************************************************************)
RefinesAtomicMap == Map!MapSpec

(***************************************************************************)
(* check_range, "!!! List order inconsistency !!!": the list is sorted,    *)
(* goes through every node that was put in, has one dummy node of a bucket *)
(* at most, and a bucket leads to its own.                                 *)
(***************************************************************************)
SplitOrdered ==
    /\ \A n \in Linked : order(n) <= order(my_next[n])
    /\ \A n \in Linked \ {my_head} : \E m \in Linked : my_next[m] = n
    /\ \A m, n \in Linked : is_dummy(m) /\ order(m) = order(n) => m = n
    /\ \A b \in DOMAIN my_buckets : my_buckets[b] \in Linked /\ is_dummy(my_buckets[b])
                                    /\ order(my_buckets[b]) = split_order_key_dummy(b)

(***************************************************************************)
(* A walk over range(), split as often as it can be, comes to every item   *)
(* once, and size() counts them; every item is in one initialized bucket,  *)
(* and unsafe_bucket_size counts what lies between unsafe_begin and        *)
(* unsafe_end, empty buckets and buckets not yet split included.           *)
(***************************************************************************)
RangeWalks ==
    Serial =>
        LET first == FirstReal(my_head)
            q == WalkRange(first, Nil, 4)
        IN  /\ Range(q) = {n \in Linked : ~is_dummy(n)}
            /\ Len(q) = my_element_count
            /\ \A n \in Linked : ~is_dummy(n) =>
                 Cardinality({b \in DOMAIN my_buckets : n \in Range(BucketWalk(b))}) = 1
            /\ \A b \in DOMAIN my_buckets : unsafe_bucket_size(b) = Len(BucketWalk(b))

(***************************************************************************)
(* The midpoint of a range and of its two halves lies behind their first   *)
(* item and not behind their end ("my_begin_node is after                  *)
(* my_midpoint_node", "my_midpoint_node is after my_end_node").            *)
(***************************************************************************)
MidpointsBetween ==
    Serial =>
        LET first == FirstReal(my_head)
            mid == set_midpoint(first, Nil)
        IN  /\ MidpointBetween(first, Nil)
            /\ mid # Nil => MidpointBetween(first, mid) /\ MidpointBetween(mid, Nil)
=============================================================================
