---------------------------- MODULE MCContainers ----------------------------
(***************************************************************************)
(* The concurrent containers of the vendored TBB and their lock, checked   *)
(* side by side: the initial state chooses a part, and only that part      *)
(* moves.                                                                  *)
(***************************************************************************)
EXTENDS SpinRWMutex, Sequences, TLC

CONSTANTS Thread, t1, t2, Key, Segment, Sizes, RehashEmpty, Width, ShortWidth, MaxSerial

VARIABLES part,
          my_mask, my_size, my_table, node_list, rehashed, mutex, itemMutex, made,
          deleted, h_th, h_ret, h_left,
          my_next, my_number_of_buckets, my_element_count, segments, my_buckets,
          u_th, u_ret, u_left, serial

----------------------------------------------------------------------------
\* Hashes that differ in their highest bits only, so that buckets split late.
hash == (1 :> 1) @@ (2 :> 3) @@ (3 :> 7)

C(kind, key, access) == [kind |-> kind, key |-> key, access |-> access]
hashFirst ==
    {<<C("insert", 3, "none"), C("insert", 2, "none"), C("insert", 1, "none")>>,
     <<C("insert", 3, "write"), C("exclude", 3, "none"), C("insert", 3, "none")>>,
     <<C("insert", 3, "none"), C("insert", 2, "none"), C("erase", 3, "none")>>}
hashSecond ==
    {<<C("insert", 2, "none"), C("find", 3, "read"), C("insert", 1, "none")>>,
     <<C("erase", 3, "none"), C("insert", 3, "write")>>,
     <<C("find", 3, "read"), C("exclude", 3, "none")>>}
hashPrograms == {(t1 :> p) @@ (t2 :> q) : p \in hashFirst, q \in hashSecond}

Hash == INSTANCE HashMapSerial WITH
    first_block <- 2, Programs <- hashPrograms, th <- h_th, ret <- h_ret, left <- h_left

splitHash == hash @@ (4 :> 15)
D(kind, key) == [kind |-> kind, key |-> key]
splitFirst == {<<D("insert", 3), D("insert", 2), D("insert", 1)>>,
               <<D("insert", 2), D("insert", 3), D("find", 4)>>}
splitSecond == {<<D("insert", 2), D("find", 3), D("insert", 1)>>,
                <<D("insert", 4), D("insert", 1), D("find", 3)>>,
                <<D("find", 3), D("insert", 3), D("insert", 4)>>}
splitPrograms == {(t1 :> p) @@ (t2 :> q) : p \in splitFirst, q \in splitSecond}

Split == INSTANCE UnorderedMap WITH
    Key <- DOMAIN splitHash, hash <- splitHash,
    initial_bucket_number <- 2, initial_bucket_load <- 1, Programs <- splitPrograms,
    th <- u_th, ret <- u_ret, left <- u_left

hashVars == <<my_mask, my_size, my_table, node_list, rehashed, mutex, itemMutex, made,
              deleted, h_th, h_ret, h_left>>
splitVars == <<my_next, my_number_of_buckets, my_element_count, segments, my_buckets,
               u_th, u_ret, u_left, serial>>
allVars == <<part, vars, hashVars, splitVars>>

AnyInit == /\ part \in {"mutex", "hash", "split"}
           /\ Init /\ Hash!Init /\ Split!Init
           /\ part # "hash" => h_left = CHOOSE p \in hashPrograms : TRUE
           /\ part # "split" => u_left = CHOOSE p \in splitPrograms : TRUE

Only(p) == /\ part = p /\ UNCHANGED part
           /\ p # "mutex" => UNCHANGED vars
           /\ p # "hash" => UNCHANGED hashVars
           /\ p # "split" => UNCHANGED splitVars

MutexMoves == Only("mutex") /\ Next
HashMoves == Only("hash") /\ (Hash!Next \/ Hash!SerialNext)
SplitMoves == Only("split") /\ Split!Next
Done == /\ (part = "hash" /\ Hash!Finished) \/ (part = "split" /\ Split!Finished)
        /\ UNCHANGED allVars

AnyNext == MutexMoves \/ HashMoves \/ SplitMoves \/ Done

\* The fairness of the parts (FairSpec of SpinRWMutex, SerialSpec of
\* HashMapSerial and FairSpec of UnorderedMap).
Fairness ==
    /\ \A t \in Locker : /\ WF_allVars(Only("mutex") /\ Step(t))
                         /\ WF_allVars(Only("mutex") /\ release(t))
    /\ \A t \in Thread :
         /\ WF_allVars(Only("hash") /\ Hash!Step(t))
         /\ WF_allVars(Only("hash") /\ (Hash!releaseAccessor(t) \/ Hash!begin(t)))
         /\ SF_allVars(Only("hash") /\ (Hash!lockBucket(t) \/ Hash!reacquireBucket(t)))
AnySpec == AnyInit /\ [][AnyNext]_allVars /\ Fairness
----------------------------------------------------------------------------
\* Calls of concurrent_hash_map, and of the split-ordered list, act at one
\* moment on one map (RefinesAtomicMap of ConcurrentHashMap and UnorderedMap).
MapsRefineAtomicMap == Hash!RefinesAtomicMap /\ Split!RefinesAtomicMap
\* No item of concurrent_hash_map is deleted that somebody still uses
\* (ConcurrentHashMap), and the split-ordered list is sorted and its buckets
\* lead into it (UnorderedMap), between any two steps of the threads.
StructuresSound == /\ part = "hash" => Hash!NothingDangles
                   /\ part = "split" => Split!SplitOrdered
\* Calls of the lock and of concurrent_hash_map return (SpinRWMutex,
\* ConcurrentHashMap).
ContainerCallsReturn == /\ part = "mutex" => LockCallsReturn
                        /\ part = "hash" => Hash!MapCallsReturn
=============================================================================
