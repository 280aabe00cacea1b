---------------------------- MODULE HashMapSerial ---------------------------
(***************************************************************************)
(* The operations of concurrent_hash_map for one thread that has the map   *)
(* for itself: rehash, clear, copies, and the iterators and ranges that    *)
(* walk over it.  They come at moments when no call is under way, with     *)
(* buckets filled and not filled as the calls before have left them.       *)
(***************************************************************************)
EXTENDS ConcurrentHashMap

CONSTANTS
    Sizes,       \* bound: the arguments of rehash
    RehashEmpty  \* a map without items is rehashed too

Serial == \A t \in Thread : th[t].pc = "idle" /\ th[t].acc = NoItem

Map0 == [mask |-> embedded_buckets - 1, segs |-> {s \in Segment : s < embedded_block},
         list |-> [b \in Bucket |-> <<>>], full |-> 0..(embedded_buckets - 1)]
This == [mask |-> my_mask, segs |-> {s \in Segment : my_table[s] = "valid"},
         list |-> node_list, full |-> rehashed]

ListSet(q) == {q[i] : i \in DOMAIN q}
AllItems(m) == UNION {ListSet(m.list[b]) : b \in Bucket}

-----------------------------------------------------------------------------
(* reserve and rehash *)

\* The buckets of an empty map need not be filled from their parents.
RECURSIVE reserve(_, _)
reserve(m, buckets) ==
    LET k == Log2(m.mask + 1)
        mask == 2^(IF k >= first_block THEN k + 1 ELSE first_block) - 1
    IN  IF buckets = 0 \/ buckets - 1 <= m.mask \/ k \notin Segment THEN m
        ELSE reserve([m EXCEPT !.mask = mask, !.segs = @ \cup Enabled(k),
                       !.full = IF AllItems(m) = {} THEN @ \cup (m.mask + 1)..mask ELSE @],
                     buckets)

\* The bucket that has the items of bucket b as long as it is not filled.
RECURSIVE Root(_, _)
Root(m, b) == IF b \in m.full THEN b ELSE Root(m, Parent(b))

SegBase(s) == 2^s

\* Buckets below h that are to be filled: those of the later segments, and
\* theirs in turn.
RECURSIVE mark_rehashed_levels(_, _, _)
mark_rehashed_levels(m, h, s) ==
    IF s \notin m.segs THEN m.full
    ELSE LET child == SegBase(s) + h
             below == IF child \in m.full THEN m.full
                      ELSE mark_rehashed_levels([m EXCEPT !.full = @ \cup {child}],
                                                child, s + 1)
         IN  mark_rehashed_levels([m EXCEPT !.full = below], h, s + 1)

SegOf(h) == IF h < embedded_buckets THEN 0 ELSE Log2(h)

\* The items of a list that stay, and those that go, each put in front of its
\* new list.
RECURSIVE Spread(_, _, _)
Spread(m, h, i) ==
    IF i > Len(m.list[h]) THEN m
    ELSE LET n == m.list[h][i]
             c == And(hash[n[1]], m.mask)
         IN  IF c = h THEN Spread(m, h, i + 1)
             ELSE Spread([m EXCEPT !.list[h] = Without(@, n), !.list[c] = <<n>> \o @], h, i)

\* Marks all that is below the root of bucket b and spreads the root's items.
fillFrom(m, b) ==
    LET h == Root(m, b)
    IN  Spread([m EXCEPT !.full = mark_rehashed_levels(m, h, SegOf(h) + 1)], h, 1)

\* The last segment is scanned.
RECURSIVE fillAll(_, _)
fillAll(m, b) == IF b > m.mask THEN m
                 ELSE fillAll(IF b \in m.full THEN m ELSE fillFrom(m, b), b + 1)

rehash(m, n) == LET r == reserve(m, n) IN fillAll(r, (r.mask + 1) \div 2)

-----------------------------------------------------------------------------
(* Iterators: a bucket and a place in its list; the end has no place.      *)

AtEnd(m, i) == [index |-> i, at |-> 0]


\* advance_to_next_bucket
Advance(m, k) ==
    LET more == {b \in k + 1..m.mask : m.list[b] # <<>>}
    IN  IF more = {} THEN AtEnd(m, m.mask + 1)
        ELSE [index |-> CHOOSE b \in more : \A c \in more : b <= c, at |-> 1]

\* hash_map_iterator(map, index, bucket, its list)
IteratorAt(m, b) == IF m.list[b] # <<>> THEN [index |-> b, at |-> 1] ELSE Advance(m, b)

PlusPlus(m, i) == IF i.at < Len(m.list[i.index]) THEN [i EXCEPT !.at = @ + 1]
                  ELSE Advance(m, i.index)

Same(i, j) == i.at = j.at /\ (i.at # 0 => i.index = j.index)

RECURSIVE Walk(_, _, _)
Walk(m, i, j) == IF Same(i, j) THEN <<>>
                 ELSE <<m.list[i.index][i.at]>> \o Walk(m, PlusPlus(m, i), j)

begin_(m) == IteratorAt(m, 0)

\* hash_map_range::set_midpoint, with the grain size 1; the end for a range
\* that cannot be split.
Midpoint(m, i, j) ==
    IF j.index - i.index > 1 THEN IteratorAt(m, i.index + (j.index - i.index) \div 2) ELSE j

RECURSIVE WalkRange(_, _, _)
WalkRange(m, i, j) ==
    LET mid == Midpoint(m, i, j)
    IN  IF Same(mid, j) THEN Walk(m, i, j)
        ELSE WalkRange(m, i, mid) \o WalkRange(m, mid, j)

\* internal_equal_range: the place of the key's item, or the end
equal_range(m, k) ==
    LET b == Root(m, And(hash[k], m.mask))
        found == {x \in DOMAIN m.list[b] : m.list[b][x][1] = k}
    IN  IF found = {} THEN AtEnd(m, 0) ELSE [index |-> b, at |-> CHOOSE x \in found : TRUE]

-----------------------------------------------------------------------------
(* Copies: a map of as many buckets is copied bucket by bucket, the marks  *)
(* of those not filled too, and filled then; else item by item.            *)

NewItem(n) == <<n[1], made[n[1]] + 1>>
Reversed(q) == [i \in DOMAIN q |-> q[Len(q) + 1 - i]]

RECURSIVE copyItems(_, _)
copyItems(m, q) ==
    IF q = <<>> THEN m
    ELSE copyItems([m EXCEPT !.list[And(hash[Head(q)[1]], m.mask)] = <<NewItem(Head(q))>> \o @],
                   Tail(q))

internal_copy(source) ==
    LET dst == reserve(Map0, Cardinality(AllItems(source)))
    IN  IF dst.mask # source.mask
        THEN copyItems(dst, Walk(source, begin_(source), AtEnd(source, 0)))
        ELSE rehash([dst EXCEPT !.full = source.full \cap 0..source.mask,
                       !.list = [b \in Bucket |->
                                  Reversed([i \in DOMAIN source.list[b] |->
                                             NewItem(source.list[b][i])])]], 0)

\* operator==
Equal(a, b) ==
    /\ Cardinality(AllItems(a)) = Cardinality(AllItems(b))
    /\ \A n \in ListSet(Walk(a, begin_(a), AtEnd(a, 0))) : ~Same(equal_range(b, n[1]), AtEnd(b, 0))

-----------------------------------------------------------------------------
(* One map takes the contents of another, and the other is cleared.        *)
Become(m) ==
    /\ my_mask' = m.mask /\ node_list' = m.list
    /\ my_table' = [s \in Segment |-> IF s \in m.segs THEN "valid" ELSE "null"]
    /\ rehashed' = m.full
    /\ my_size' = Cardinality(AllItems(m))
    /\ UNCHANGED <<th, ret, left>>

MayRehash == Serial /\ (RehashEmpty \/ Items # {})

rehashThis(n) ==
    /\ MayRehash /\ Become(rehash(This, n))
    /\ UNCHANGED <<locks, memory>>

\* clear: items deleted, all segments but the embedded one given back.  The
\* two embedded buckets are always filled.
clearThis ==
    /\ Serial /\ Items # {} /\ Become(Map0)
    /\ deleted' = deleted \cup Items
    /\ UNCHANGED <<locks, made>>

\* A copy is swapped in, and the old contents cleared.
swapCopy ==
    LET copied == internal_copy(This)
    IN  /\ Serial /\ Items # {} /\ (\A k \in Key : made[k] < 2) /\ Become(copied)
        /\ made' = [k \in Key |-> IF \E n \in Items : n[1] = k THEN made[k] + 1 ELSE made[k]]
        /\ itemMutex' = [n \in DOMAIN itemMutex \cup AllItems(copied) |-> Free]
        /\ deleted' = deleted \cup Items
        /\ UNCHANGED mutex

SerialNext == (\E n \in Sizes : rehashThis(n)) \/ clearThis \/ swapCopy

-----------------------------------------------------------------------------
Once(q, S) == ListSet(q) = S /\ Len(q) = Cardinality(S)

(***************************************************************************)
(* However far the buckets have been filled when the calls stop, a walk    *)
(* from begin() to end(), and a walk over range() split as far as it goes, *)
(* come to every item once; size() counts them; equal_range finds each.    *)
(***************************************************************************)
IterationExact ==
    Serial =>
        /\ Once(Walk(This, begin_(This), AtEnd(This, 0)), Items)
        /\ Once(WalkRange(This, begin_(This), AtEnd(This, my_mask + 1)), Items)
        /\ my_size = Cardinality(Items)
        /\ \A k \in Key : LET i == equal_range(This, k)
                          IN  (i.at # 0) <=> (\E n \in Items : n[1] = k)

(***************************************************************************)
(* The assertions at the end of rehash: every bucket is filled ("Broken    *)
(* internal structure"), and each item is in the bucket its hash says      *)
(* ("hash() function changed for key in table or internal error").         *)
(***************************************************************************)
RehashComplete ==
    MayRehash =>
        \A n \in Sizes :
            LET m == rehash(This, n)
            IN  /\ AllItems(m) = Items
                /\ 0..m.mask \subseteq m.full
                /\ \A b \in Bucket : \A x \in ListSet(m.list[b]) : And(hash[x[1]], m.mask) = b

\* A copy of the map is equal to it, filled or not.
CopyEqual ==
    Serial => Equal(This, internal_copy(This)) /\ Equal(internal_copy(This), This)
=============================================================================
