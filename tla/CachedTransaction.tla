-------------------------- MODULE CachedTransaction -------------------------
(***************************************************************************)
(* DSTMTransaction in a build with CACHE and TRANSACTIONS_STATS.           *)
(*                                                                         *)
(* CACHE: every node keeps the newest version it has met of each object    *)
(* (i_map).  A validation looks there first and asks the home node only if *)
(* the cached version does not already refuse the copy.  getCachedVersion  *)
(* reads the map after it has given the mutex back, beside an              *)
(* addVersionToCache that changes it.                                      *)
(*                                                                         *)
(* TRANSACTIONS_STATS: a descriptor counts its aborts by reason; a commit  *)
(* adds its counters to those of the node and deletes the descriptor.      *)
(***************************************************************************)
EXTENDS DSTMTransaction

ASSUME FiniteThreads == IsFiniteSet(Thread)

VARIABLES
    i_map,    \* cached version of each node and object, 0 when absent
    mutex,    \* the thread that has the mutex of a node's cache
    call,     \* the call of the cache a thread is in: at most one
    checked,  \* the object whose cached version did not refuse: at most one
    stats,    \* abort counters of the thread's descriptor
    reason,   \* why commit gives its locks back
    G_TRANSACTIONS_STATS \* the counters of each node

cacheVars == <<i_map, mutex, call, checked>>
statVars  == <<stats, reason, G_TRANSACTIONS_STATS>>
allVars   == <<vars, cacheVars, statVars>>

Reason == {"rsval", "grablocks", "invmem", "unknwn"}
NoAborts == [r \in Reason |-> 0]

CacheInit ==
    /\ Init
    /\ i_map = [n \in Node |-> [o \in Object |-> InitialTS]]
    /\ mutex = [n \in Node |-> {}]
    /\ call = [t \in Thread |-> {}]
    /\ checked = [t \in Thread |-> {}]
    /\ stats = [t \in Thread |-> [total_aborts |-> 0, by |-> NoAborts]]
    /\ reason = [t \in Thread |-> "unknwn"]
    /\ G_TRANSACTIONS_STATS =
         [n \in Node |-> [total_txs |-> 0, total_aborts |-> 0, by |-> NoAborts]]

-----------------------------------------------------------------------------
(* addVersionToCache: a locked word is not added; an older version does    *)
(* not replace a newer one.                                                *)

callAdd(t, o, v) ==
    call' = [call EXCEPT ![t] = IF LOCKBIT_TS(v) THEN {}
                                ELSE {[op |-> "add", obj |-> o, ver |-> v]}]

lockCache(t) ==
    \E k \in call[t] :
        /\ k.op = "add" /\ mutex[nodeOf[t]] = {}
        /\ mutex' = [mutex EXCEPT ![nodeOf[t]] = {t}]
        /\ call' = [call EXCEPT ![t] = {[k EXCEPT !.op = "adding"]}]
        /\ UNCHANGED <<vars, i_map, checked, statVars>>

Newest(old1, v) == IF isTimestampGreater(v, old1) THEN v ELSE old1

addVersionToCache(t) ==
    \E k \in call[t] :
        /\ k.op = "adding"
        /\ i_map' = [i_map EXCEPT ![nodeOf[t]][k.obj] = Newest(@, k.ver)]
        /\ mutex' = [mutex EXCEPT ![nodeOf[t]] = {}]
        /\ call' = [call EXCEPT ![t] = {}]
        /\ UNCHANGED <<vars, checked, statVars>>

(***************************************************************************)
(* getCachedVersion: the entry is looked for under the mutex and read      *)
(* without it.  A read beside a change of the map gives the old or the new *)
(* version, or misses the entry, which then is inserted anew, as 0.        *)
(***************************************************************************)
Validating(t) == CASE pc[t] = "validate" -> NextToValidate(t)
                   [] pc[t] = "validateAll" -> todo[t]
                   [] OTHER -> {}

getCachedVersion(t, o) ==
    LET n == nodeOf[t]
    IN  /\ call[t] = {} /\ checked[t] = {} /\ o \in Validating(t)
        /\ mutex[n] = {}
        /\ IF i_map[n][o] = InitialTS
           THEN checked' = [checked EXCEPT ![t] = {o}] /\ UNCHANGED call
           ELSE /\ call' = [call EXCEPT ![t] =
                              {[op |-> "found", obj |-> o, ver |-> InitialTS]}]
                /\ UNCHANGED checked
        /\ UNCHANGED <<vars, i_map, mutex, statVars>>

Readable(n, o) ==
    {i_map[n][o]} \cup
        UNION {{InitialTS} \cup {Newest(i_map[n][o], k.ver) :
                                   k \in {j \in call[u] : j.obj = o}}
                 : u \in mutex[n]}

\* Fault: a copy of the cached version is refused as well.
CacheRefuses_Same(t, o, v) == v.version >= copy[t][o].ts.version

CacheRefuses(t, o, v) == LOCKBIT_TS(v) \/ isTimestampGreater(v, copy[t][o].ts)

count(t, r) == stats' = [stats EXCEPT ![t].total_aborts = @ + 1, ![t].by[r] = @ + 1]

\* A failed validation: in commit the locks go back first.
failValidation(t) ==
    IF pc[t] = "validateAll" /\ write_set[t] # {}
    THEN /\ StartReleaseLocks(t) /\ UNCHANGED <<grab, stats>>
         /\ reason' = [reason EXCEPT ![t] = "rsval"]
    ELSE /\ abort(t) /\ UNCHANGED <<memory, request, reason>>
         /\ count(t, "rsval")

readCachedVersion(t) ==
    \E k \in call[t] : \E v \in Readable(nodeOf[t], k.obj) :
        LET n == nodeOf[t]
        IN  /\ k.op = "found"
            /\ i_map' = IF v = InitialTS THEN [i_map EXCEPT ![n][k.obj] = v] ELSE i_map
            /\ call' = [call EXCEPT ![t] = {}]
            /\ IF CacheRefuses(t, k.obj, v)
               THEN failValidation(t) /\ UNCHANGED checked
               ELSE /\ checked' = [checked EXCEPT ![t] = {k.obj}]
                    /\ UNCHANGED <<vars, stats, reason>>
            /\ UNCHANGED <<mutex, G_TRANSACTIONS_STATS>>

-----------------------------------------------------------------------------
(* The steps of DSTMTransaction with what these builds add to them.        *)

\* What the application decides; a NULL address ends the attempt.
cachedApplication(t) ==
    /\ call[t] = {}
    /\ \/ /\ \/ begin(t) \/ commitReadOnly(t) \/ commitUpdate(t)
             \/ \E o \in Object : read(t, o) \/ write(t, o) \/ writeRead(t, o)
          /\ UNCHANGED stats
       \/ invalidAccess(t) /\ count(t, "invmem")
    /\ UNCHANGED <<cacheVars, reason, G_TRANSACTIONS_STATS>>

\* Library steps that neither touch the cache nor end an attempt.
plain(t) ==
    /\ \/ increaseClock(t) \/ validated(t) \/ locksGranted(t) \/ validatedAll(t)
       \/ getNextClock(t)
       \/ \E B \in SUBSET Unasked(t) : requestLocks(t, B)
       \/ \E o \in Object :
             \/ loadVersion(t, o) \/ releaseLock(t, o)
             \/ \E w \in Word : loadData(t, o, w) \/ commitWriteSetValues(t, o, w)
    /\ UNCHANGED <<cacheVars, statVars>>

cachedRecheck(t, o) ==
    /\ recheckVersion(t, o)
    /\ IF StillCurrent(t, o) THEN callAdd(t, o, ts[t]) ELSE UNCHANGED call
    /\ UNCHANGED <<i_map, mutex, checked, statVars>>

\* The cached version did not refuse o: the word at its home decides.
homeAgrees(t, o) ==
    /\ checked[t] = {o}
    /\ validate(t, o) \/ validateAll(t, o)
    /\ checked' = [checked EXCEPT ![t] = {}]
    /\ UNCHANGED <<i_map, mutex, call, statVars>>

homeRefuses(t, o) ==
    /\ checked[t] = {o} /\ o \in Validating(t) /\ Changed(t, o)
    /\ failValidation(t)
    /\ callAdd(t, o, lock[o])
    /\ checked' = [checked EXCEPT ![t] = {}]
    /\ UNCHANGED <<i_map, mutex, G_TRANSACTIONS_STATS>>

cachedRelease(t, o) ==
    /\ releaseLockWithNewClock(t, o)
    /\ callAdd(t, o, ts[t])
    /\ UNCHANGED <<i_map, mutex, checked, statVars>>

\* releaseLocks has emptied the list of refused objects before the loop that
\* would add their versions to the cache.
cachedRefused(t) ==
    /\ locksRefused(t)
    /\ reason' = [reason EXCEPT ![t] = "grablocks"]
    /\ UNCHANGED <<cacheVars, stats, G_TRANSACTIONS_STATS>>

ReleaseReason(t) == reason[t]

\* A locked cell aborts with the lock word as the reason, which none of the
\* known reasons equals.
countedAbort(t) ==
    /\ \/ /\ \E o \in Object : cellLocked(t, o)
          /\ count(t, "unknwn") /\ UNCHANGED reason
       \/ /\ locksReleased(t) /\ count(t, ReleaseReason(t))
          /\ reason' = [reason EXCEPT ![t] = "unknwn"]
    /\ UNCHANGED <<cacheVars, G_TRANSACTIONS_STATS>>

\* Fault: the counters of the descriptor are added for every commit again.
Deleted_Kept(t) == stats[t]

Deleted(t) == [total_aborts |-> 0, by |-> NoAborts]

countedCommit(t) ==
    LET n == nodeOf[t]
    IN  /\ committed(t)
        /\ G_TRANSACTIONS_STATS' = [G_TRANSACTIONS_STATS EXCEPT ![n] =
             [total_txs |-> @.total_txs + 1,
              total_aborts |-> @.total_aborts + stats[t].total_aborts,
              by |-> [r \in Reason |-> @.by[r] + stats[t].by[r]]]]
        /\ stats' = [stats EXCEPT ![t] = Deleted(t)]
        /\ UNCHANGED <<cacheVars, reason>>

\* The library code a thread runs on its own.
cachedLibrary(t) ==
    \/ /\ call[t] = {}
       /\ \/ plain(t) \/ cachedRefused(t) \/ countedAbort(t) \/ countedCommit(t)
          \/ \E o \in Object : \/ cachedRecheck(t, o) \/ homeAgrees(t, o)
                               \/ homeRefuses(t, o) \/ cachedRelease(t, o)
                               \/ getCachedVersion(t, o)
    \/ lockCache(t) \/ addVersionToCache(t) \/ readCachedVersion(t)

cachedHandler(t) == Handler(t) /\ UNCHANGED <<cacheVars, statVars>>

CacheNext ==
    \/ Finished /\ UNCHANGED <<cacheVars, statVars>>
    \/ \E t \in Thread :
          cachedApplication(t) \/ cachedLibrary(t) \/ cachedHandler(t)

CacheSpec == CacheInit /\ [][CacheNext]_allVars

-----------------------------------------------------------------------------
(***************************************************************************)
(* The cache refuses a copy only if the object has been locked or changed  *)
(* at its home: the unlocked read in getCachedVersion and versions added   *)
(* late make a transaction abort for nothing at no time (for objects       *)
(* written from one node).                                                 *)
(***************************************************************************)
RefusalsJustified ==
    [][\A t \in Thread : \A k \in call[t] :
          k.op = "found" /\ pc'[t] # pc[t] => Changed(t, k.obj)]_allVars

\* Attempts of t that neither run nor have ended with a commit.
Aborted(t) == {i \in 1..attempt[t] : /\ i = attempt[t] => pc[t] = "idle"
                                     /\ \A h \in hist : h.tx # <<t, i>>}

AllReasons(by) == by["rsval"] + by["grablocks"] + by["invmem"] + by["unknwn"]

\* The aborts counted by the descriptors of the threads T, and their failed
\* attempts, each as a set of pairs.
Unreported(T) == UNION {{t} \X (1..stats[t].total_aborts) : t \in T}
Failed(T) == UNION {{t} \X Aborted(t) : t \in T}

(***************************************************************************)
(* No abort is counted twice or lost, over retries with one descriptor and *)
(* transactions that end at any time: on every node the aborts reported    *)
(* and those of the descriptors in use are the attempts that failed, and   *)
(* the reasons add up to the total (abort, _ITM_commitTransaction).        *)
(***************************************************************************)
AbortsCounted ==
    \A n \in Node :
        LET here == {t \in Thread : nodeOf[t] = n}
            G == G_TRANSACTIONS_STATS[n]
        IN  /\ G.total_aborts + Cardinality(Unreported(here)) = Cardinality(Failed(here))
            /\ G.total_aborts = AllReasons(G.by)
=============================================================================
