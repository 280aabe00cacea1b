-------------------------- MODULE ConcurrentHashMap -------------------------
(***************************************************************************)
(* tbb::concurrent_hash_map.  Items hang in buckets; a lookup masks the    *)
(* hash of its key to find the bucket.  When the map grows, the mask gets  *)
(* longer at once and the new buckets are filled later, by the first       *)
(* thread that comes to one: it takes the items that belong there out of   *)
(* the parent bucket, which may have to be filled from its own parent      *)
(* first.  Buckets and items have reader-writer locks (see RWLock).        *)
(***************************************************************************)
EXTENDS Naturals, Sequences, FiniteSets

CONSTANTS
    Thread, Key,
    hash,         \* the hash of each key
    first_block,  \* segments allocated together at first: 8 in the source
    Segment,      \* bound: the segments, 0..n
    Programs      \* bound: the calls the threads make, as functions from threads to
                  \* sequences of calls; a call is its kind, key and accessor

embedded_block == 1
embedded_buckets == 2^embedded_block

Bucket == 0..(2^(Cardinality(Segment)) - 1)
NoKey == 0
NoItem == <<NoKey, 0>>

VARIABLES
    my_mask, my_size,
    my_table,   \* segments: not there, claimed by a thread, or there
    node_list,  \* the items of each bucket
    rehashed,   \* buckets whose list is not the mark rehash_req
    mutex,      \* who has the lock of each bucket
    itemMutex,  \* who has the lock of each item
    made,       \* items made so far of each key
    deleted,    \* items whose memory is given back
    th,         \* the call of each thread and its local variables
    ret,        \* the call's return value, when it is certain
    left        \* calls a thread may still make

shared == <<my_mask, my_size, my_table, node_list, rehashed>>
locks  == <<mutex, itemMutex>>
memory == <<made, deleted>>
vars   == <<shared, locks, memory, th, ret, left>>

Free == [r |-> {}, w |-> {}]

Idle == [pc |-> "idle", kind |-> "none", key |-> NoKey, item |-> NoItem,
         access |-> "none", m |-> 0, goal |-> 0, stack |-> <<>>, n |-> NoItem,
         grow |-> 0, acc |-> NoItem, accw |-> FALSE]

Init ==
    /\ my_mask = embedded_buckets - 1 /\ my_size = 0
    /\ my_table = [s \in Segment |-> IF s < embedded_block THEN "valid" ELSE "null"]
    /\ node_list = [b \in Bucket |-> <<>>]
    /\ rehashed = 0..(embedded_buckets - 1)
    /\ mutex = [b \in Bucket |-> Free]
    /\ itemMutex = [n \in {} |-> Free]
    /\ made = [k \in Key |-> 0] /\ deleted = {}
    /\ th = [t \in Thread |-> Idle]
    /\ ret = [t \in Thread |-> "none"]
    /\ left \in Programs

-----------------------------------------------------------------------------
(* hash_map_base *)

Log2(x) == CHOOSE i \in 0..x : 2^i <= x /\ x < 2^(i + 1)
\* h & mask, for a mask of ones
And(h, mask) == h % (mask + 1)

\* The bucket that had the items of bucket h before there was an h.
Parent(h) == And(h, 2^Log2(h) - 1)
\* The bits a bucket shares with the hashes of its items: those up to its topmost.
OwnMask(h) == 2^(Log2(h) + 1) - 1

\* check_rehashing_collision: the first mask after m_old that changes h.
NextMask(h, m_old) ==
    LET bit == CHOOSE i \in 0..h :
                 /\ 2^i > m_old /\ (h \div 2^i) % 2 = 1
                 /\ \A j \in 0..i - 1 : 2^j > m_old => (h \div 2^j) % 2 = 0
    IN  2^(bit + 1) - 1

\* Fault: a longer mask is taken for no reason to look again.
MaskRace_Never(h, m) == FALSE

\* check_mask_race: the bucket h is in by now has been filled.
MaskRace(h, m) ==
    /\ m # my_mask /\ And(h, m) # And(h, my_mask)
    /\ And(h, NextMask(h, m)) \in rehashed

-----------------------------------------------------------------------------
(* Locks *)

CanTake(l, write) == l.w = {} /\ (write => l.r = {})
Take(l, t, write) == IF write THEN [l EXCEPT !.w = {t}] ELSE [l EXCEPT !.r = @ \cup {t}]
Drop(l, t) == [r |-> l.r \ {t}, w |-> l.w \ {t}]

Top(t) == th[t].stack[Len(th[t].stack)]
Pop(t) == SubSeq(th[t].stack, 1, Len(th[t].stack) - 1)
Push(t, b, write) == Append(th[t].stack, [b |-> b, w |-> write])

Set(t, r) == th' = [th EXCEPT ![t] = r]

\* Looks for the bucket again, with the bucket in hand given back.
Restart(t, m) ==
    /\ Set(t, [th[t] EXCEPT !.pc = "bucket", !.m = m, !.stack = <<>>,
                            !.n = NoItem, !.goal = And(hash[th[t].key], m)])
    /\ mutex' = [mutex EXCEPT ![Top(t).b] = Drop(@, t)]

(* The end of the call; the bucket is given back.                          *)
Leave(t, r) ==
    /\ Set(t, [r EXCEPT !.stack = <<>>, !.n = NoItem, !.m = 0, !.goal = 0])
    /\ mutex' = [mutex EXCEPT ![Top(t).b] = Drop(@, t)]

-----------------------------------------------------------------------------
(* Calls of the application.  A thread that keeps an accessor gives it back *)
(* or uses it before the next call.                                         *)

begin(t) ==
    LET c == Head(left[t])
    IN  /\ th[t].pc = "idle" /\ left[t] # <<>>
        /\ IF c.kind = "exclude"   \* erase(accessor)
           THEN /\ th[t].acc # NoItem
                /\ Set(t, [th[t] EXCEPT !.pc = "bucket", !.kind = "exclude",
                             !.key = th[t].acc[1], !.item = th[t].acc, !.m = my_mask,
                             !.goal = And(hash[th[t].acc[1]], my_mask)])
           ELSE /\ th[t].acc = NoItem
                /\ Set(t, [Idle EXCEPT !.pc = "bucket", !.kind = c.kind, !.key = c.key,
                             !.access = c.access, !.m = my_mask,
                             !.goal = And(hash[c.key], my_mask)])
        /\ left' = [left EXCEPT ![t] = Tail(@)]
        /\ ret' = [ret EXCEPT ![t] = "none"]
        /\ UNCHANGED <<shared, locks, memory>>

\* const_accessor::release
releaseAccessor(t) ==
    /\ th[t].pc = "idle" /\ th[t].acc # NoItem
    /\ itemMutex' = [itemMutex EXCEPT ![th[t].acc] = Drop(@, t)]
    /\ left[t] # <<>> => Head(left[t]).kind # "exclude"
    /\ Set(t, [th[t] EXCEPT !.acc = NoItem, !.accw = FALSE])
    /\ UNCHANGED <<shared, mutex, memory, ret, left>>

-----------------------------------------------------------------------------
(* bucket_accessor::acquire of th.goal, for the call itself or for a       *)
(* bucket on the stack that is filled from it                              *)

loadBucket(t) ==
    /\ th[t].pc = "bucket"
    /\ Set(t, [th[t] EXCEPT !.pc = IF th[t].goal \in rehashed THEN "lock" ELSE "try"])
    /\ UNCHANGED <<shared, locks, memory, ret, left>>

StillUnfilled(b) == b \notin rehashed

\* What a thread does with the bucket it has got: the call goes on, or the
\* bucket under it on the stack is filled.
Got(t, write) ==
    LET st == Push(t, th[t].goal, write)
    IN  [th[t] EXCEPT !.stack = st,
                      !.pc = IF Len(st) = 1 THEN "search" ELSE "rehash"]

\* try_acquire succeeds: the first one to come marks the bucket and goes on to
\* its parent.
tryBucket(t) ==
    LET b == th[t].goal
    IN  /\ th[t].pc = "try"
        /\ \/ /\ CanTake(mutex[b], TRUE)
              /\ mutex' = [mutex EXCEPT ![b] = Take(@, t, TRUE)]
              /\ IF StillUnfilled(b)
                 THEN /\ rehashed' = rehashed \cup {b}
                      /\ node_list' = [node_list EXCEPT ![b] = <<>>]
                      /\ Set(t, [th[t] EXCEPT !.pc = "bucket",
                                              !.stack = Push(t, b, TRUE),
                                              !.goal = Parent(b)])
                 ELSE Set(t, Got(t, TRUE)) /\ UNCHANGED <<rehashed, node_list>>
           \/ /\ ~CanTake(mutex[b], TRUE)
              /\ Set(t, [th[t] EXCEPT !.pc = "lock"])
              /\ UNCHANGED <<mutex, rehashed, node_list>>
        /\ UNCHANGED <<my_mask, my_size, my_table, itemMutex, memory, ret, left>>

\* The waiting acquire: exclude asks for its bucket as a writer.
lockBucket(t) ==
    LET b == th[t].goal
        write == th[t].kind = "exclude" /\ th[t].stack = <<>>
    IN  /\ th[t].pc = "lock" /\ CanTake(mutex[b], write)
        /\ mutex' = [mutex EXCEPT ![b] = Take(@, t, write)]
        /\ Set(t, Got(t, write))
        /\ UNCHANGED <<shared, itemMutex, memory, ret, left>>

\* upgrade_to_writer of the bucket in hand: at once or when the other readers
\* have left, or by giving it up if another reader does the same.
upgradeBucket(t) ==
    LET b == Top(t).b
    IN  /\ th[t].pc = "upgrade"
        /\ \/ /\ mutex[b].r = {t}
              /\ mutex' = [mutex EXCEPT ![b] = [r |-> {}, w |-> {t}]]
              /\ Set(t, [th[t] EXCEPT !.pc = "upgraded",
                                      !.stack = Append(Pop(t), [b |-> b, w |-> TRUE])])
           \/ /\ mutex[b].r # {t}
              /\ mutex' = [mutex EXCEPT ![b] = Drop(@, t)]
              /\ Set(t, [th[t] EXCEPT !.pc = "reacquire", !.n = NoItem])
        /\ UNCHANGED <<shared, itemMutex, memory, ret, left>>

reacquireBucket(t) ==
    LET b == Top(t).b
    IN  /\ th[t].pc = "reacquire" /\ CanTake(mutex[b], TRUE)
        /\ mutex' = [mutex EXCEPT ![b] = Take(@, t, TRUE)]
        /\ Set(t, [th[t] EXCEPT !.pc = "reacquired",
                                !.stack = Append(Pop(t), [b |-> b, w |-> TRUE])])
        /\ UNCHANGED <<shared, itemMutex, memory, ret, left>>

-----------------------------------------------------------------------------
(* rehash_bucket: the items of the bucket under the top of the stack are   *)
(* taken out of the top, one at a time.                                    *)

Belongs(n, b) == And(hash[n[1]], OwnMask(b)) = b

Without(q, n) == SelectSeq(q, LAMBDA x : x # n)

rehash_bucket(t) ==
    LET st == th[t].stack
        b_old == Top(t)
        b_new == st[Len(st) - 1].b
        moving == {i \in DOMAIN node_list[b_old.b] : Belongs(node_list[b_old.b][i], b_new)}
        i == CHOOSE j \in moving : \A l \in moving : j <= l
        n == node_list[b_old.b][i]
    IN  /\ \/ th[t].pc = "rehash"
           \/ th[t].pc \in {"upgraded", "reacquired"} /\ Len(st) > 1
        /\ \/ /\ moving = {}
              /\ mutex' = [mutex EXCEPT ![b_old.b] = Drop(@, t)]
              /\ Set(t, [th[t] EXCEPT !.stack = Pop(t),
                           !.pc = IF Len(st) = 2 THEN "search" ELSE "rehash"])
              /\ UNCHANGED node_list
           \/ /\ moving # {} /\ ~b_old.w
              /\ Set(t, [th[t] EXCEPT !.pc = "upgrade"])
              /\ UNCHANGED <<mutex, node_list>>
           \/ /\ moving # {} /\ b_old.w
              /\ node_list' = [node_list EXCEPT ![b_old.b] = Without(@, n),
                                                ![b_new] = <<n>> \o @]
              /\ Set(t, [th[t] EXCEPT !.pc = "rehash"])
              /\ UNCHANGED mutex
        /\ UNCHANGED <<my_mask, my_size, my_table, rehashed, itemMutex, memory,
                       ret, left>>

-----------------------------------------------------------------------------
(* lookup, erase and exclude, with the bucket in hand                      *)

InBucket(t) == {node_list[Top(t).b][i] : i \in DOMAIN node_list[Top(t).b]}
Found(t) == {n \in InBucket(t) : IF th[t].kind = "exclude" THEN n = th[t].item
                                 ELSE n[1] = th[t].key}

\* In hand for the call, not to fill another bucket.
Own(t) == Len(th[t].stack) = 1

\* The search, also the one after an upgrade that gave the bucket up.
search_bucket(t) ==
    LET k == th[t].kind
        found == Found(t) # {}
        n == CHOOSE x \in Found(t) : TRUE
        again == th[t].pc = "reacquired"
        next == CASE ~found /\ k = "insert" ->
                       IF Top(t).w THEN "checkMask" ELSE "upgrade"
                  [] ~found /\ k # "insert" -> "checkMask"
                  [] found /\ k \in {"find", "insert"} -> "exists"
                  [] found /\ k \in {"erase", "exclude"} ->
                       IF Top(t).w THEN "remove" ELSE "upgrade"
    IN  /\ \/ th[t].pc = "search"
           \/ again /\ Own(t) /\ k = "insert"
        /\ IF again /\ found   \* downgrade_to_reader
           THEN /\ mutex' = [mutex EXCEPT ![Top(t).b] = [r |-> {t}, w |-> {}]]
                /\ Set(t, [th[t] EXCEPT !.pc = next, !.n = n,
                             !.stack = <<[b |-> Top(t).b, w |-> FALSE]>>])
           ELSE /\ Set(t, [th[t] EXCEPT !.pc = next,
                             !.n = IF found THEN n ELSE NoItem])
                /\ UNCHANGED mutex
        /\ UNCHANGED <<shared, itemMutex, memory, ret, left>>

\* The upgrade of an erase was contended: the mask is checked, then the
\* bucket searched again.
contendedErase(t) ==
    /\ th[t].pc = "reacquired" /\ Own(t) /\ th[t].kind = "erase"
    /\ IF MaskRace(hash[th[t].key], th[t].m)
       THEN Restart(t, my_mask)
       ELSE Set(t, [th[t] EXCEPT !.pc = "search", !.m = my_mask]) /\ UNCHANGED mutex
    /\ UNCHANGED <<shared, itemMutex, memory, ret, left>>

upgradedOwn(t) ==
    /\ th[t].pc = "upgraded" /\ Own(t)
    /\ Set(t, [th[t] EXCEPT !.pc = IF th[t].kind = "insert" THEN "checkMask" ELSE "remove"])
    /\ UNCHANGED <<shared, locks, memory, ret, left>>

\* Not found: the item may be in a bucket that was filled meanwhile.
checkMask(t) ==
    /\ th[t].pc = "checkMask"
    /\ \/ /\ MaskRace(hash[th[t].key], th[t].m)
          /\ Restart(t, my_mask)
          /\ UNCHANGED <<itemMutex, ret>>
       \/ /\ ~MaskRace(hash[th[t].key], th[t].m) /\ th[t].kind = "insert"
          /\ Set(t, [th[t] EXCEPT !.pc = "insert", !.m = my_mask])
          /\ UNCHANGED <<locks, ret>>
       \/ /\ ~MaskRace(hash[th[t].key], th[t].m) /\ th[t].kind # "insert"
          /\ ret' = [ret EXCEPT ![t] = "false"]
          /\ Leave(t, [th[t] EXCEPT !.pc = "idle", !.acc = NoItem])
          /\ itemMutex' = IF th[t].kind = "exclude"
                          THEN [itemMutex EXCEPT ![th[t].item] = Drop(@, t)]
                          ELSE itemMutex
    /\ UNCHANGED <<shared, memory, left>>

\* The segment an insertion has to add, if its thread is the first to see it.
Claims(m) == my_size + 1 >= m /\ Log2(m + 1) \in Segment /\ my_table[Log2(m + 1)] = "null"

insert_new_node(t) ==
    LET k == th[t].key
        n == <<k, made[k] + 1>>
        new_seg == Log2(th[t].m + 1)
    IN  /\ th[t].pc = "insert"
        /\ made' = [made EXCEPT ![k] = @ + 1]
        /\ my_size' = my_size + 1
        /\ node_list' = [node_list EXCEPT ![Top(t).b] = <<n>> \o @]
        /\ itemMutex' = [x \in DOMAIN itemMutex \cup {n} |->
                           IF x = n THEN Free ELSE itemMutex[x]]
        /\ my_table' = IF Claims(th[t].m) THEN [my_table EXCEPT ![new_seg] = "claimed"]
                       ELSE my_table
        /\ Set(t, [th[t] EXCEPT !.pc = "exists", !.n = n,
                     !.grow = IF Claims(th[t].m) THEN new_seg ELSE 0])
        /\ ret' = [ret EXCEPT ![t] = "true"]
        /\ UNCHANGED <<my_mask, rehashed, mutex, deleted, left>>

\* What is left to do behind the lock scope.
AfterScope(t) == IF th[t].grow # 0 THEN "grow" ELSE "idle"

\* The value of lookup, unless the item is the call's own.
FoundValue(t) == IF th[t].kind = "find" THEN "true"
                 ELSE IF ret[t] = "true" THEN "true" ELSE "false"

\* The item is locked while the bucket is; a long wait gives the bucket back
\* and starts again.
acquireItem(t) ==
    LET write == th[t].access = "write"
    IN  /\ th[t].pc = "exists" /\ th[t].access # "none"
        /\ \/ /\ CanTake(itemMutex[th[t].n], write)
              /\ itemMutex' = [itemMutex EXCEPT ![th[t].n] = Take(@, t, write)]
              /\ Leave(t, [th[t] EXCEPT !.pc = AfterScope(t), !.acc = th[t].n, !.accw = write])
              /\ ret' = [ret EXCEPT ![t] = FoundValue(t)]
           \/ /\ ~CanTake(itemMutex[th[t].n], write)
              /\ Restart(t, my_mask)
              /\ UNCHANGED <<itemMutex, ret>>
        /\ UNCHANGED <<shared, memory, left>>

\* count, and insert without an accessor
noAccessor(t) ==
    /\ th[t].pc = "exists" /\ th[t].access = "none"
    /\ Leave(t, [th[t] EXCEPT !.pc = AfterScope(t)])
    /\ ret' = [ret EXCEPT ![t] = FoundValue(t)]
    /\ UNCHANGED <<shared, itemMutex, memory, left>>

\* enable_segment: the buckets, all of the first block together, ...
Enabled(k) == IF k >= first_block THEN {k} ELSE embedded_block..first_block - 1

enable_segment(t) ==
    /\ th[t].pc = "grow"
    /\ my_table' = [s \in Segment |-> IF s \in Enabled(th[t].grow) THEN "valid"
                                      ELSE my_table[s]]
    /\ Set(t, [th[t] EXCEPT !.pc = "publish"])
    /\ UNCHANGED <<my_mask, my_size, node_list, rehashed, locks, memory, ret, left>>

\* ... and then the mask that leads to them.
publishMask(t) ==
    /\ th[t].pc = "publish"
    /\ my_mask' = 2^(IF th[t].grow >= first_block THEN th[t].grow + 1 ELSE first_block) - 1
    /\ Set(t, [th[t] EXCEPT !.pc = "idle", !.grow = 0])
    /\ UNCHANGED <<my_size, my_table, node_list, rehashed, locks, memory, ret, left>>

\* No memory: the segment is free to be claimed again, the item stays.
enable_segment_failsafe(t) ==
    /\ th[t].pc = "grow"
    /\ my_table' = [my_table EXCEPT ![th[t].grow] = "null"]
    /\ Set(t, [th[t] EXCEPT !.pc = "idle", !.grow = 0])
    /\ UNCHANGED <<my_mask, my_size, node_list, rehashed, locks, memory, ret, left>>

\* erase and exclude take the item out under the bucket's write lock, ...
removeNode(t) ==
    LET n == CHOOSE x \in Found(t) : TRUE
    IN  /\ th[t].pc = "remove"
        /\ node_list' = [node_list EXCEPT ![Top(t).b] = Without(@, n)]
        /\ my_size' = my_size - 1
        /\ mutex' = [mutex EXCEPT ![Top(t).b] = Drop(@, t)]
        /\ Set(t, [th[t] EXCEPT !.pc = "drain", !.stack = <<>>, !.n = n])
        /\ ret' = [ret EXCEPT ![t] = "true"]
        /\ UNCHANGED <<my_mask, my_table, rehashed, itemMutex, memory, left>>

\* Fault: the item is deleted without waiting for those who use it.
Drained_Always(t) == TRUE

\* ... wait until nobody else uses it (the write lock of the item), ...
Drained(t) == LET l == itemMutex[th[t].n] IN l.r \cup l.w \subseteq {t}

\* ... and delete it.
delete_node(t) ==
    /\ th[t].pc = "drain" /\ Drained(t)
    /\ itemMutex' = [itemMutex EXCEPT ![th[t].n] = Drop(@, t)]
    /\ deleted' = deleted \cup {th[t].n}
    /\ Set(t, [th[t] EXCEPT !.pc = "idle", !.n = NoItem, !.acc = NoItem, !.accw = FALSE])
    /\ UNCHANGED <<shared, mutex, made, ret, left>>

-----------------------------------------------------------------------------
Step(t) ==
    \/ loadBucket(t) \/ tryBucket(t) \/ upgradeBucket(t) \/ rehash_bucket(t)
    \/ search_bucket(t) \/ contendedErase(t) \/ upgradedOwn(t) \/ checkMask(t)
    \/ insert_new_node(t) \/ acquireItem(t) \/ noAccessor(t) \/ enable_segment(t)
    \/ publishMask(t) \/ enable_segment_failsafe(t) \/ removeNode(t)
    \/ delete_node(t)

\* A thread whose find or insert left it no accessor has nothing to exclude.
Finished == \A t \in Thread : /\ th[t].pc = "idle" /\ th[t].acc = NoItem
                              /\ left[t] # <<>> => Head(left[t]).kind = "exclude"

Next == \E t \in Thread : \/ Step(t) \/ lockBucket(t) \/ reacquireBucket(t)
                          \/ begin(t) \/ releaseAccessor(t)

(***************************************************************************)
(* Threads run: they make their calls and give accessors back.  A thread   *)
(* that waits for a bucket gets it if it is free again and again: writers  *)
(* announce themselves and readers then stay away.                         *)
(***************************************************************************)
FairSpec == /\ Init /\ [][Next]_vars
            /\ \A t \in Thread : /\ WF_vars(Step(t)) /\ WF_vars(releaseAccessor(t) \/ begin(t))
                                  /\ SF_vars(lockBucket(t) \/ reacquireBucket(t))
-----------------------------------------------------------------------------
Items == UNION {{node_list[b][i] : i \in DOMAIN node_list[b]} : b \in Bucket}

Map == INSTANCE AtomicMap WITH
         items <- Items,
         call <- [t \in Thread |-> [kind |-> th[t].kind, key |-> th[t].key,
                                    item |-> th[t].item]]

(***************************************************************************)
(* While the map grows, buckets are filled from their parents and other    *)
(* threads insert and erase, every call returns what it would if it had    *)
(* the map for itself at one moment: no item is missed, no key is inserted *)
(* twice, one call only says that it erased an item (lookup, erase,        *)
(* exclude, check_mask_race).                                              *)
(***************************************************************************)
RefinesAtomicMap == Map!MapSpec

(***************************************************************************)
(* "Only one thread can delete it": an item is deleted once nobody holds   *)
(* an accessor to it, waits for one or finds it in a bucket.               *)
(***************************************************************************)
NothingDangles ==
    \A n \in deleted :
        /\ n \notin Items
        /\ \A t \in Thread : n # th[t].acc /\ n # th[t].n

(***************************************************************************)
(* Every call returns: filling a chain of buckets, upgrades of the same    *)
(* bucket and an accessor that is erased while others wait for its item    *)
(* under the bucket's lock do not end in threads waiting for each other.   *)
(***************************************************************************)
MapCallsReturn == \A t \in Thread : th[t].pc # "idle" ~> th[t].pc = "idle"
=============================================================================
