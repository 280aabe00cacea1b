----------------------- MODULE CachedTransactionProofs ----------------------
(***************************************************************************)
(* The builds of CachedTransaction do what DSTMTransaction does: a step of *)
(* theirs is a step of the protocol or one it does not see.  What makes it *)
(* so is that a cached version is never newer than the object's, although  *)
(* getCachedVersion reads the map beside its writers, so that the cache    *)
(* refuses only what the home node would refuse.  Then FreedMemory: the    *)
(* version of the block that referred to a freed one stands in for the     *)
(* version dstm_free does not change.  Last the statistics.                *)
(***************************************************************************)
EXTENDS SnapshotProofs, FreedMemory, FiniteSetTheorems

-----------------------------------------------------------------------------
(* The invariant of the cache. *)

CacheCall == [op : {"add", "adding", "found"}, obj : Object, ver : Timestamp(Node)]

CacheTypeOK ==
    /\ i_map \in [Node -> [Object -> Timestamp(Node)]]
    /\ mutex \in [Node -> SUBSET Thread]
    /\ call \in [Thread -> SUBSET CacheCall]
    /\ checked \in [Thread -> SUBSET Object]

\* v has no lock bit and is not newer than what the home node of o has.
Behind(v, o) == v.lock = 0 /\ v.version <= lock[o].version

\* So is every version in a cache, or on its way there.
CacheBehind ==
    /\ \A n \in Node, o \in Object : Behind(i_map[n][o], o)
    /\ \A t \in Thread : \A k \in call[t] : Behind(k.ver, k.obj)

OneCall == \A t \in Thread : \A j, k \in call[t] : j = k

\* Who reads an entry of the cache still validates the object.
LookupsCurrent ==
    \A t \in Thread : \A k \in call[t] : k.op = "found" => k.obj \in Validating(t)

CacheInv == CacheTypeOK /\ CacheBehind /\ OneCall /\ LookupsCurrent

\* A read of the map beside those who change it gives one of its versions,
\* none, or one that is being added.
LEMMA ReadBehind ==
    ASSUME TypeOK, CacheInv, NEW n \in Node, NEW o \in Object, NEW v \in Readable(n, o)
    PROVE  v \in Timestamp(Node) /\ Behind(v, o)
<1>0. /\ InitialTS \in Timestamp(Node) /\ InitialTS.version = 0 /\ InitialTS.lock = 0
      /\ lock[o].version \in Nat
  BY NodeAssumption DEF InitialTS, Timestamp, TypeOK
<1>1. Behind(InitialTS, o)
  BY <1>0 DEF Behind
<1>2. i_map[n][o] \in Timestamp(Node) /\ Behind(i_map[n][o], o)
  BY DEF CacheInv, CacheTypeOK, CacheBehind
<1>3. ASSUME NEW u \in mutex[n], NEW k \in call[u], k.obj = o
      PROVE  k.ver \in Timestamp(Node) /\ Behind(k.ver, o)
  <2>1. u \in Thread
    BY DEF CacheInv, CacheTypeOK
  <2>2. k \in CacheCall
    BY <2>1 DEF CacheInv, CacheTypeOK
  <2> QED
    BY <1>3, <2>1, <2>2 DEF CacheInv, CacheBehind, CacheCall
<1>4. \/ v = i_map[n][o] \/ v = InitialTS
      \/ \E u \in mutex[n] : \E k \in call[u] : k.obj = o /\ v = Newest(i_map[n][o], k.ver)
  BY DEF Readable
<1> QED
  BY <1>0, <1>1, <1>2, <1>3, <1>4 DEF Newest

\* The cache refuses only what the home node would refuse.
LEMMA RefusedChanged ==
    ASSUME TypeOK, NEW t \in Thread, NEW o \in Object, NEW v \in Timestamp(Node),
           Behind(v, o), CacheRefuses(t, o, v)
    PROVE  Changed(t, o)
  BY DEF CacheRefuses, Changed, Behind, LOCKBIT_TS, isTimestampGreater, TypeOK,
         Timestamp, Copy

\* A validation that fails is validate's or that of commit.
LEMMA FailedValidation ==
    ASSUME NEW t \in Thread, NEW o \in Validating(t), Changed(t, o), failValidation(t)
    PROVE  validateFails(t, o) \/ validateAllFails(t, o)
<1>1. CASE pc[t] = "validate"
  BY <1>1 DEF Validating, failValidation, validateFails
<1>2. CASE pc[t] = "validateAll"
  BY <1>2 DEF Validating, failValidation, validateAllFails
<1>3. pc[t] \in {"validate", "validateAll"}
  BY DEF Validating
<1> QED
  BY <1>1, <1>2, <1>3

\* Steps of DSTMTransaction that t can make.
Move(t) == \/ Application(t) \/ ReadCell(t) \/ Validate(t) \/ GetLocks(t)
           \/ WriteBack(t) \/ Handler(t)

\* A step of these builds is one of the protocol's, by the same thread, or
\* leaves the protocol's state alone.
LEMMA CachedMove ==
    ASSUME TypeOK, CacheInv, NEW t \in Thread,
           cachedApplication(t) \/ cachedLibrary(t) \/ cachedHandler(t)
    PROVE  UNCHANGED vars \/ Move(t)
<1>1. ASSUME cachedApplication(t)
      PROVE  Move(t)
  BY <1>1 DEF cachedApplication, Move, Application
<1>2. ASSUME cachedHandler(t)
      PROVE  Move(t)
  BY <1>2 DEF cachedHandler, Move
<1>3. ASSUME plain(t)
      PROVE  Move(t)
  BY <1>3 DEF plain, Move, ReadCell, Validate, GetLocks, WriteBack
<1>4. ASSUME cachedRefused(t) \/ countedAbort(t) \/ countedCommit(t)
      PROVE  Move(t)
  BY <1>4 DEF cachedRefused, countedAbort, countedCommit, Move, ReadCell, GetLocks,
              WriteBack
<1>5. ASSUME NEW o \in Object,
             \/ cachedRecheck(t, o) \/ homeAgrees(t, o) \/ cachedRelease(t, o)
      PROVE  Move(t)
  BY <1>5 DEF cachedRecheck, homeAgrees, cachedRelease, Move, ReadCell, Validate,
              WriteBack
<1>6. ASSUME NEW o \in Object, homeRefuses(t, o)
      PROVE  Move(t)
  <2>1. validateFails(t, o) \/ validateAllFails(t, o)
    BY <1>6, FailedValidation DEF homeRefuses
  <2> QED
    BY <2>1 DEF Move, Validate, WriteBack
<1>7. ASSUME readCachedVersion(t)
      PROVE  UNCHANGED vars \/ Move(t)
  <2>0. PICK k \in call[t] : \E v \in Readable(nodeOf[t], k.obj) :
          /\ k.op = "found"
          /\ IF CacheRefuses(t, k.obj, v) THEN failValidation(t) ELSE UNCHANGED vars
    BY <1>7 DEF readCachedVersion
  <2>1. PICK v \in Readable(nodeOf[t], k.obj) :
          /\ k.op = "found"
          /\ IF CacheRefuses(t, k.obj, v) THEN failValidation(t) ELSE UNCHANGED vars
    BY <2>0
  <2>2. /\ k \in CacheCall /\ k.obj \in Object /\ k.obj \in Validating(t)
        /\ nodeOf[t] \in Node
    BY <2>1, ThreadAssumption DEF CacheInv, CacheTypeOK, LookupsCurrent, CacheCall
  <2>3. CASE CacheRefuses(t, k.obj, v)
    <3>1. Changed(t, k.obj)
      BY <2>2, <2>3, ReadBehind, RefusedChanged
    <3>2. validateFails(t, k.obj) \/ validateAllFails(t, k.obj)
      BY <2>1, <2>2, <2>3, <3>1, FailedValidation
    <3> QED
      BY <2>2, <3>2 DEF Move, Validate, WriteBack
  <2> QED
    BY <2>1, <2>3
<1>8. ASSUME \/ lockCache(t) \/ addVersionToCache(t)
             \/ \E o \in Object : getCachedVersion(t, o)
      PROVE  UNCHANGED vars
  BY <1>8 DEF lockCache, addVersionToCache, getCachedVersion
<1> QED
  BY <1>1, <1>2, <1>3, <1>4, <1>5, <1>6, <1>7, <1>8 DEF cachedLibrary

\* So these builds take the protocol's steps only.
LEMMA CachedNext ==
    ASSUME TypeOK, CacheInv, [CacheNext]_allVars
    PROVE  [Next]_vars
<1>1. ASSUME NEW t \in Thread, Move(t)
      PROVE  Next
  BY <1>1 DEF Move, Next, Library
<1>2. ASSUME NEW t \in Thread,
             cachedApplication(t) \/ cachedLibrary(t) \/ cachedHandler(t)
      PROVE  [Next]_vars
  BY <1>1, <1>2, CachedMove
<1>3. UNCHANGED allVars => UNCHANGED vars
  BY DEF allVars
<1>4. Finished => [Next]_vars
  BY DEF Finished
<1> QED
  BY <1>2, <1>3, <1>4 DEF CacheNext

-----------------------------------------------------------------------------
(* The steps of the cache. *)

Acts(t) == cachedApplication(t) \/ cachedLibrary(t) \/ cachedHandler(t)

\* What a step of t makes of its call.
LEMMA CallFrame ==
    ASSUME TypeOK, CacheInv, NEW t \in Thread, Acts(t)
    PROVE  /\ \A u \in Thread \ {t} : call'[u] = call[u]
           /\ \/ call'[t] = {}
              \/ call'[t] = call[t] /\ (UNCHANGED vars \/ Handler(t))
              \/ /\ \E k \in call[t] : call'[t] = {[k EXCEPT !.op = "adding"]}
                 /\ UNCHANGED vars
              \/ /\ \E o \in Validating(t) :
                       call'[t] = {[op |-> "found", obj |-> o, ver |-> InitialTS]}
                 /\ UNCHANGED vars
              \/ \E o \in Object : \E v \in Timestamp(Node) :
                    /\ call'[t] = {[op |-> "add", obj |-> o, ver |-> v]}
                    /\ v.lock = 0 /\ v.version = lock'[o].version
<1> DEFINE Goal == /\ \A u \in Thread \ {t} : call'[u] = call[u]
                   /\ \/ call'[t] = {}
                      \/ call'[t] = call[t] /\ (UNCHANGED vars \/ Handler(t))
                      \/ /\ \E k \in call[t] : call'[t] = {[k EXCEPT !.op = "adding"]}
                         /\ UNCHANGED vars
                      \/ /\ \E o \in Validating(t) :
                               call'[t] = {[op |-> "found", obj |-> o,
                                            ver |-> InitialTS]}
                         /\ UNCHANGED vars
                      \/ \E o \in Object : \E v \in Timestamp(Node) :
                            /\ call'[t] = {[op |-> "add", obj |-> o, ver |-> v]}
                            /\ v.lock = 0 /\ v.version = lock'[o].version
<1>0. call \in [Thread -> SUBSET CacheCall]
  BY DEF CacheInv, CacheTypeOK
<1>1. ASSUME call[t] = {}, UNCHANGED call
      PROVE  Goal
  BY <1>1
<1>2. ASSUME cachedHandler(t)
      PROVE  Goal
  BY <1>2 DEF cachedHandler, cacheVars
<1>3. ASSUME NEW o \in Object, NEW v \in Timestamp(Node), callAdd(t, o, v),
             v.lock = 0 => v.version = lock'[o].version
      PROVE  Goal
  <2>1. CASE LOCKBIT_TS(v)
    BY <1>0, <1>3, <2>1 DEF callAdd
  <2>2. CASE ~LOCKBIT_TS(v)
    <3>1. /\ call'[t] = {[op |-> "add", obj |-> o, ver |-> v]}
          /\ \A u \in Thread \ {t} : call'[u] = call[u]
      BY <1>0, <1>3, <2>2 DEF callAdd
    <3>2. v.lock = 0
      BY <2>2 DEF LOCKBIT_TS, Timestamp
    <3> QED
      BY <1>3, <3>1, <3>2
  <2> QED
    BY <2>1, <2>2
<1>4. ASSUME NEW o \in Object, cachedRecheck(t, o), call[t] = {}
      PROVE  Goal
  <2>1. CASE StillCurrent(t, o)
    <3>1. callAdd(t, o, ts[t]) /\ lock' = lock
      BY <1>4, <2>1 DEF cachedRecheck, recheckVersion, memory
    <3>2. ts[t] \in Timestamp(Node) /\ ts[t].version = lock'[o].version
      BY <2>1, <3>1 DEF TypeOK, StillCurrent, isTimestampsEquivalent
    <3> HIDE DEF Goal
    <3> QED
      BY <1>3, <3>1, <3>2
  <2>2. CASE ~StillCurrent(t, o)
    BY <1>1, <1>4, <2>2 DEF cachedRecheck
  <2> QED
    BY <2>1, <2>2
<1>5. ASSUME NEW o \in Object, homeRefuses(t, o)
      PROVE  Goal
  <2>1. callAdd(t, o, lock[o]) /\ lock' = lock
    BY <1>5 DEF homeRefuses, failValidation, StartReleaseLocks, abort, memory
  <2>2. lock[o] \in Timestamp(Node)
    BY DEF TypeOK
  <2> HIDE DEF Goal
  <2> QED
    BY <1>3, <2>1, <2>2
<1>6. ASSUME NEW o \in Object, cachedRelease(t, o)
      PROVE  Goal
  <2>1. callAdd(t, o, ts[t]) /\ lock'[o] = ts[t] /\ ts[t] \in Timestamp(Node)
    BY <1>6 DEF cachedRelease, releaseLockWithNewClock, TypeOK
  <2> HIDE DEF Goal
  <2> QED
    BY <1>3, <2>1
<1>7. ASSUME NEW o \in Object, getCachedVersion(t, o)
      PROVE  Goal
  BY <1>0, <1>7 DEF getCachedVersion
<1>8. ASSUME lockCache(t)
      PROVE  Goal
  BY <1>0, <1>8 DEF lockCache
<1>9. ASSUME addVersionToCache(t) \/ readCachedVersion(t)
      PROVE  Goal
  BY <1>0, <1>9 DEF addVersionToCache, readCachedVersion
<1>10. ASSUME call[t] = {},
              \/ cachedApplication(t) \/ plain(t) \/ cachedRefused(t)
              \/ countedAbort(t) \/ countedCommit(t)
              \/ \E o \in Object : homeAgrees(t, o)
       PROVE  UNCHANGED call
  BY <1>10 DEF cachedApplication, plain, cachedRefused, countedAbort, countedCommit,
               homeAgrees, cacheVars
<1>11. cachedApplication(t) => call[t] = {}
  BY DEF cachedApplication
<1> HIDE DEF Goal
<1>12. Goal
  BY <1>1, <1>2, <1>4, <1>5, <1>6, <1>7, <1>8, <1>9, <1>10, <1>11
     DEF Acts, cachedLibrary
<1> QED
  BY <1>12 DEF Goal

\* What a step of t leaves in the maps.
LEMMA MapFrame ==
    ASSUME CacheInv, NEW t \in Thread, Acts(t), NEW n \in Node, NEW o \in Object
    PROVE  \/ i_map'[n][o] = i_map[n][o] \/ i_map'[n][o] = InitialTS
           \/ \E k \in call[t] : k.obj = o /\ i_map'[n][o] = k.ver
<1>0. i_map \in [Node -> [Object -> Timestamp(Node)]]
  BY DEF CacheInv, CacheTypeOK
<1>1. ASSUME addVersionToCache(t)
      PROVE  \/ i_map'[n][o] = i_map[n][o]
             \/ \E k \in call[t] : k.obj = o /\ i_map'[n][o] = k.ver
  <2>1. PICK k \in call[t] :
          i_map' = [i_map EXCEPT ![nodeOf[t]][k.obj] = Newest(@, k.ver)]
    BY <1>1 DEF addVersionToCache
  <2>2. CASE n = nodeOf[t] /\ o = k.obj
    <3>1. i_map'[n][o] = Newest(i_map[n][o], k.ver)
      BY <1>0, <2>1, <2>2
    <3> QED
      BY <2>2, <3>1 DEF Newest
  <2>3. CASE ~(n = nodeOf[t] /\ o = k.obj)
    BY <1>0, <2>1, <2>3
  <2> QED
    BY <2>2, <2>3
<1>2. ASSUME readCachedVersion(t)
      PROVE  i_map'[n][o] = i_map[n][o] \/ i_map'[n][o] = InitialTS
  <2>1. PICK k \in call[t] : \E v \in Readable(nodeOf[t], k.obj) :
          i_map' = IF v = InitialTS THEN [i_map EXCEPT ![nodeOf[t]][k.obj] = v]
                   ELSE i_map
    BY <1>2 DEF readCachedVersion
  <2>2. CASE i_map' = [i_map EXCEPT ![nodeOf[t]][k.obj] = InitialTS]
    BY <1>0, <2>2
  <2> QED
    BY <2>1, <2>2
<1>3. ASSUME ~addVersionToCache(t), ~readCachedVersion(t)
      PROVE  i_map' = i_map
  BY <1>3 DEF Acts, cachedApplication, cachedHandler, cachedLibrary, plain,
              cachedRefused, countedAbort, countedCommit, cachedRecheck, homeAgrees,
              homeRefuses, cachedRelease, getCachedVersion, lockCache, cacheVars
<1> QED
  BY <1>1, <1>2, <1>3

\* The same for one call.
LEMMA CallOf ==
    ASSUME TypeOK, CacheInv, NEW t \in Thread, Acts(t), NEW u \in Thread,
           NEW k \in call'[u]
    PROVE  /\ k \in CacheCall
           /\ \/ k \in call[u] /\ (u # t \/ UNCHANGED vars \/ Handler(t))
              \/ /\ k.op = "adding"
                 /\ \E j \in call[u] : k.obj = j.obj /\ k.ver = j.ver
              \/ /\ k.op = "found" /\ k.ver = InitialTS /\ UNCHANGED vars
                 /\ u = t /\ k.obj \in Validating(t)
              \/ /\ k.op = "add" /\ k.ver.lock = 0
                 /\ k.ver.version = lock'[k.obj].version
<1> DEFINE Goal == /\ k \in CacheCall
                   /\ \/ k \in call[u] /\ (u # t \/ UNCHANGED vars \/ Handler(t))
                      \/ /\ k.op = "adding"
                         /\ \E j \in call[u] : k.obj = j.obj /\ k.ver = j.ver
                      \/ /\ k.op = "found" /\ k.ver = InitialTS /\ UNCHANGED vars
                         /\ u = t /\ k.obj \in Validating(t)
                      \/ /\ k.op = "add" /\ k.ver.lock = 0
                         /\ k.ver.version = lock'[k.obj].version
<1>0. /\ call[u] \subseteq CacheCall /\ call[t] \subseteq CacheCall
      /\ InitialTS \in Timestamp(Node) /\ Validating(t) \subseteq Object
  BY NodeAssumption DEF CacheInv, CacheTypeOK, InitialTS, Timestamp, Validating,
                        NextToValidate, TypeOK
<1>1. CASE k \in call[u] /\ (u # t \/ UNCHANGED vars \/ Handler(t))
  BY <1>0, <1>1
<1>2. ASSUME u = t, NEW j \in call[t], call'[t] = {[j EXCEPT !.op = "adding"]}
      PROVE  Goal
  <2>1. k = [j EXCEPT !.op = "adding"] /\ j \in CacheCall
    BY <1>0, <1>2
  <2>2. k \in CacheCall /\ k.op = "adding" /\ k.obj = j.obj /\ k.ver = j.ver
    BY <2>1 DEF CacheCall
  <2> QED
    BY <1>2, <2>2
<1>3. ASSUME u = t, UNCHANGED vars, NEW o \in Validating(t),
             call'[t] = {[op |-> "found", obj |-> o, ver |-> InitialTS]}
      PROVE  Goal
  <2>1. k = [op |-> "found", obj |-> o, ver |-> InitialTS]
    BY <1>3
  <2>2. /\ k \in CacheCall /\ k.op = "found" /\ k.ver = InitialTS
        /\ k.obj \in Validating(t)
    BY <1>0, <2>1 DEF CacheCall
  <2> QED
    BY <1>3, <2>2
<1>4. ASSUME u = t, NEW o \in Object, NEW v \in Timestamp(Node),
             call'[t] = {[op |-> "add", obj |-> o, ver |-> v]},
             v.lock = 0, v.version = lock'[o].version
      PROVE  Goal
  <2>1. k = [op |-> "add", obj |-> o, ver |-> v]
    BY <1>4
  <2>2. /\ k \in CacheCall /\ k.op = "add" /\ k.ver = v /\ k.obj = o
    BY <2>1 DEF CacheCall
  <2> QED
    BY <1>4, <2>2
<1>5. CASE u # t
  BY <1>1, <1>5, CallFrame
<1> HIDE DEF Goal
<1>6. CASE u = t
  <2>1. call'[t] # {}
    BY <1>6
  <2> QED
    BY <1>1, <1>2, <1>3, <1>4, <1>6, <2>1, CallFrame DEF Goal
<1> QED
  BY <1>5, <1>6 DEF Goal

\* The variables of the cache keep their types.
LEMMA CacheTypes ==
    ASSUME TypeOK, CacheInv, NEW t \in Thread, Acts(t)
    PROVE  CacheTypeOK'
<1>0. /\ CacheTypeOK /\ nodeOf[t] \in Node /\ InitialTS \in Timestamp(Node)
  BY ThreadAssumption, NodeAssumption DEF CacheInv, InitialTS, Timestamp
<1>1. i_map' \in [Node -> [Object -> Timestamp(Node)]]
  <2>1. ASSUME addVersionToCache(t)
        PROVE  i_map' \in [Node -> [Object -> Timestamp(Node)]]
    <3>1. PICK k \in call[t] :
            i_map' = [i_map EXCEPT ![nodeOf[t]][k.obj] = Newest(@, k.ver)]
      BY <2>1 DEF addVersionToCache
    <3>2. k \in CacheCall /\ k.obj \in Object /\ k.ver \in Timestamp(Node)
      BY <1>0 DEF CacheTypeOK, CacheCall
    <3>3. Newest(i_map[nodeOf[t]][k.obj], k.ver) \in Timestamp(Node)
      BY <1>0, <3>2 DEF CacheTypeOK, Newest
    <3> QED
      BY <1>0, <3>1, <3>3 DEF CacheTypeOK
  <2>2. ASSUME readCachedVersion(t)
        PROVE  i_map' \in [Node -> [Object -> Timestamp(Node)]]
    <3>1. PICK k \in call[t] :
            \/ i_map' = i_map
            \/ i_map' = [i_map EXCEPT ![nodeOf[t]][k.obj] = InitialTS]
      BY <2>2 DEF readCachedVersion
    <3>2. CASE i_map' = [i_map EXCEPT ![nodeOf[t]][k.obj] = InitialTS]
      <4>1. i_map \in [Node -> [Object -> Timestamp(Node)]] /\ k.obj \in Object
        BY <1>0 DEF CacheTypeOK, CacheCall
      <4> QED
        BY <1>0, <3>2, <4>1
    <3> QED
      BY <1>0, <3>1, <3>2 DEF CacheTypeOK
  <2>3. ASSUME ~addVersionToCache(t), ~readCachedVersion(t)
        PROVE  i_map' = i_map
    BY <2>3 DEF Acts, cachedApplication, cachedHandler, cachedLibrary, plain,
                cachedRefused, countedAbort, countedCommit, cachedRecheck, homeAgrees,
                homeRefuses, cachedRelease, getCachedVersion, lockCache, cacheVars
  <2> QED
    BY <1>0, <2>1, <2>2, <2>3 DEF CacheTypeOK
<1>2. mutex' \in [Node -> SUBSET Thread]
  <2>1. \/ mutex' = mutex \/ mutex' = [mutex EXCEPT ![nodeOf[t]] = {t}]
        \/ mutex' = [mutex EXCEPT ![nodeOf[t]] = {}]
    BY DEF Acts, cachedApplication, cachedHandler, cachedLibrary, plain,
           cachedRefused, countedAbort, countedCommit, cachedRecheck, homeAgrees,
           homeRefuses, cachedRelease, getCachedVersion, readCachedVersion,
           lockCache, addVersionToCache, cacheVars
  <2> QED
    BY <1>0, <2>1 DEF CacheTypeOK
<1>3. checked' \in [Thread -> SUBSET Object]
  <2>1. ASSUME NEW o \in Object, \/ getCachedVersion(t, o) \/ homeAgrees(t, o)
                                 \/ homeRefuses(t, o)
        PROVE  checked' \in [Thread -> SUBSET Object]
    BY <1>0, <2>1 DEF getCachedVersion, homeAgrees, homeRefuses, CacheTypeOK
  <2>2. ASSUME readCachedVersion(t)
        PROVE  checked' \in [Thread -> SUBSET Object]
    <3>1. PICK k \in call[t] :
            checked' = checked \/ checked' = [checked EXCEPT ![t] = {k.obj}]
      BY <2>2 DEF readCachedVersion
    <3>2. k.obj \in Object
      BY <1>0 DEF CacheTypeOK, CacheCall
    <3> QED
      BY <1>0, <3>1, <3>2 DEF CacheTypeOK
  <2>3. ASSUME ~readCachedVersion(t),
               \A o \in Object : /\ ~getCachedVersion(t, o) /\ ~homeAgrees(t, o)
                                 /\ ~homeRefuses(t, o)
        PROVE  checked' = checked
    BY <2>3 DEF Acts, cachedApplication, cachedHandler, cachedLibrary, plain,
                cachedRefused, countedAbort, countedCommit, cachedRecheck,
                cachedRelease, lockCache, addVersionToCache, cacheVars
  <2> QED
    BY <1>0, <2>1, <2>2, <2>3 DEF CacheTypeOK
<1>4. call' \in [Thread -> SUBSET CacheCall]
  <2>1. DOMAIN call' = Thread /\ call' = [u \in DOMAIN call' |-> call'[u]]
    <3>1. call' = call \/ \E c : call' = [call EXCEPT ![t] = c]
      BY DEF Acts, cachedApplication, cachedHandler, cachedLibrary, plain, callAdd,
             cachedRefused, countedAbort, countedCommit, cachedRecheck, homeAgrees,
             homeRefuses, cachedRelease, getCachedVersion, readCachedVersion,
             lockCache, addVersionToCache, cacheVars
    <3> QED
      BY <1>0, <3>1 DEF CacheTypeOK
  <2>2. ASSUME NEW u \in Thread
        PROVE  call'[u] \subseteq CacheCall
    BY <1>0, CallOf
  <2> QED
    BY <2>1, <2>2
<1> QED
  BY <1>1, <1>2, <1>3, <1>4 DEF CacheTypeOK

\* What is in the caches stays behind the lock words.
LEMMA CacheStep ==
    ASSUME OneWriterNode, LockInv, LockInv', VersionInv, CacheInv, [CacheNext]_allVars
    PROVE  CacheInv'
<1>0. TypeOK /\ TypeOK' /\ [Next]_vars
  BY CachedNext DEF LockInv
<1>1. ASSUME NEW o \in Object
      PROVE  /\ \A v \in Timestamp(Node) : Behind(v, o) => Behind(v, o)'
             /\ Behind(InitialTS, o)'
  <2>1. /\ lock[o].version \in Nat /\ lock'[o].version \in Nat
        /\ lock'[o].version >= lock[o].version
    BY <1>0, VersionsForward DEF TypeOK, Timestamp
  <2>2. \A v \in Timestamp(Node) : v.version \in Nat
    BY DEF Timestamp
  <2> QED
    BY <2>1, <2>2 DEF Behind, InitialTS
<1>2. CASE UNCHANGED allVars
  <2>1. UNCHANGED <<lock, i_map, mutex, call, checked, pc, todo, read_set>>
    BY <1>2 DEF allVars, vars, memory, sets, loops, cacheVars
  <2> QED
    BY <2>1 DEF CacheInv, CacheTypeOK, CacheBehind, Behind, OneCall, LookupsCurrent,
                Validating, NextToValidate
<1>3. CASE Finished /\ UNCHANGED <<cacheVars, statVars>>
  <2>1. UNCHANGED allVars
    BY <1>3 DEF Finished, allVars
  <2> QED
    BY <1>2, <2>1
<1>4. ASSUME NEW t \in Thread, Acts(t)
      PROVE  CacheInv'
  <2>0. CacheTypeOK /\ CacheTypeOK' /\ OneCall /\ LookupsCurrent /\ CacheBehind
    BY <1>0, <1>4, CacheTypes DEF CacheInv
  <2>1. ASSUME NEW u \in Thread
        PROVE  \A j, k \in call'[u] : j = k
    <3>1. \A j, k \in call[u] : j = k
      BY <2>0 DEF OneCall
    <3> QED
      BY <1>0, <1>4, <3>1, CallFrame
  <2>2. ASSUME NEW u \in Thread, NEW k \in call'[u]
        PROVE  Behind(k.ver, k.obj)'
    <3>1. k \in CacheCall
      BY <2>0 DEF CacheTypeOK
    <3>2. \A j \in call[u] : Behind(j.ver, j.obj)
      BY <2>0 DEF CacheBehind
    <3>3. \/ \E j \in call[u] : k.obj = j.obj /\ k.ver = j.ver
          \/ k.ver = InitialTS
          \/ k.ver.lock = 0 /\ k.ver.version = lock'[k.obj].version
      BY <1>0, <1>4, CallOf
    <3>4. k.obj \in Object /\ k.ver \in Timestamp(Node)
      BY <3>1 DEF CacheCall
    <3>5. lock'[k.obj].version \in Nat
      BY <1>0, <3>4 DEF TypeOK, Timestamp
    <3>6. k.ver.lock = 0 /\ k.ver.version = lock'[k.obj].version => Behind(k.ver, k.obj)'
      BY <3>5 DEF Behind
    <3> QED
      BY <1>1, <3>2, <3>3, <3>4, <3>6
  <2>3. ASSUME NEW n \in Node, NEW o \in Object
        PROVE  Behind(i_map[n][o], o)'
    <3>1. i_map[n][o] \in Timestamp(Node) /\ Behind(i_map[n][o], o)
      BY <2>0 DEF CacheTypeOK, CacheBehind
    <3>2. \A k \in call[t] : k.ver \in Timestamp(Node) /\ Behind(k.ver, k.obj)
      BY <2>0 DEF CacheTypeOK, CacheBehind, CacheCall
    <3>3. \/ i_map'[n][o] = i_map[n][o] \/ i_map'[n][o] = InitialTS
          \/ \E k \in call[t] : k.obj = o /\ i_map'[n][o] = k.ver
      BY <1>4, MapFrame
    <3>4. PICK v : v = i_map'[n][o]
      OBVIOUS
    <3>5. v = i_map[n][o] \/ v = InitialTS \/ \E k \in call[t] : k.obj = o /\ v = k.ver
      BY <3>3, <3>4
    <3>6. v = InitialTS \/ (v \in Timestamp(Node) /\ Behind(v, o))
      BY <3>1, <3>2, <3>5
    <3>7. Behind(v, o)'
      BY <1>1, <3>6 DEF Behind
    <3> QED
      BY <3>4, <3>7 DEF Behind
  <2>4. ASSUME NEW u \in Thread, NEW k \in call'[u], k.op = "found"
        PROVE  k.obj \in Validating(u)'
    <3>1. UNCHANGED <<pc, todo, read_set>> => Validating(u)' = Validating(u)
      BY DEF Validating, NextToValidate
    <3>2. CASE u = t
      <4>2. \/ k \in call[t] /\ (UNCHANGED vars \/ Handler(t))
            \/ k.obj \in Validating(t) /\ UNCHANGED vars
        BY <1>0, <1>4, <2>4, <3>2, CallOf
      <4>3. k.obj \in Validating(t)
        BY <2>0, <2>4, <4>2 DEF LookupsCurrent
      <4>4. UNCHANGED <<pc, todo, read_set>>
        BY <1>0, <4>2, HandlerFrame DEF vars, sets, loops
      <4> QED
        BY <3>1, <3>2, <4>3, <4>4
    <3>3. CASE u # t
      <4>1. k \in call[u] /\ k.obj \in Validating(u)
        BY <1>0, <1>4, <2>0, <2>4, <3>3, CallFrame DEF LookupsCurrent
      <4>2. UNCHANGED vars \/ Others(t)
        BY <1>0, <1>4, CachedMove, ApplicationFrame, ReadCellFrame, ValidateFrame,
           GetLocksFrame, WriteBackFrame, HandlerFrame DEF Acts, Move
      <4>3. pc'[u] = pc[u] /\ todo'[u] = todo[u] /\ read_set'[u] = read_set[u]
        BY <3>3, <4>2 DEF vars, sets, loops, Others
      <4> QED
        BY <4>1, <4>3 DEF Validating, NextToValidate
    <3> QED
      BY <3>2, <3>3
  <2> QED
    <3>1. CacheBehind'
      BY <2>2, <2>3 DEF CacheBehind, Behind
    <3>2. OneCall' /\ LookupsCurrent'
      BY <2>1, <2>4 DEF OneCall, LookupsCurrent
    <3> QED
      BY <2>0, <3>1, <3>2 DEF CacheInv
<1> QED
  BY <1>2, <1>3, <1>4 DEF CacheNext, Acts

\* The caches are empty at first.
LEMMA CacheStart == CacheInit => LockInv /\ VersionInv /\ CacheInv
<1> SUFFICES ASSUME CacheInit
             PROVE  LockInv /\ VersionInv /\ CacheInv
  OBVIOUS
<1>1. Init /\ LockInv /\ VersionInv
  BY LockInit, VersionInit DEF CacheInit
<1>2. InitialTS \in Timestamp(Node)
  BY NodeAssumption DEF InitialTS, Timestamp
<1>3. /\ i_map = [n \in Node |-> [o \in Object |-> InitialTS]]
      /\ mutex = [n \in Node |-> {}]
      /\ call = [t \in Thread |-> {}] /\ checked = [t \in Thread |-> {}]
      /\ lock = [o \in Object |-> InitialTS]
  BY <1>1 DEF CacheInit, Init
<1>4. CacheTypeOK
  BY <1>2, <1>3 DEF CacheTypeOK
<1>5. CacheBehind
  BY <1>3 DEF CacheBehind, Behind, InitialTS
<1> QED
  BY <1>1, <1>3, <1>4, <1>5 DEF CacheInv, OneCall, LookupsCurrent

\* While the cache refuses an object, it has changed or is locked at its home.
LEMMA RefusalStep ==
    ASSUME TypeOK, CacheInv, [CacheNext]_allVars, NEW t \in Thread,
           NEW k \in call[t], k.op = "found", pc'[t] # pc[t]
    PROVE  Changed(t, k.obj)
<1>1. UNCHANGED vars => pc' = pc
  BY DEF vars
<1>2. PICK u \in Thread : Acts(u)
  BY <1>1 DEF CacheNext, Acts, allVars, Finished
<1>3. u = t
  <2>1. UNCHANGED vars \/ Others(u)
    BY <1>2, CachedMove, ApplicationFrame, ReadCellFrame, ValidateFrame,
       GetLocksFrame, WriteBackFrame, HandlerFrame DEF Acts, Move
  <2> QED
    BY <1>1, <2>1 DEF Others
<1>4. readCachedVersion(t)
  <2>1. Handler(t) => pc' = pc
    BY HandlerFrame
  <2> QED
    BY <1>1, <1>2, <1>3, <2>1
       DEF Acts, cachedApplication, cachedHandler, cachedLibrary, lockCache,
           addVersionToCache
<1>5. PICK j \in call[t] : \E v \in Readable(nodeOf[t], j.obj) :
        IF CacheRefuses(t, j.obj, v) THEN failValidation(t) ELSE UNCHANGED vars
  BY <1>4 DEF readCachedVersion
<1>6. PICK v \in Readable(nodeOf[t], j.obj) :
        IF CacheRefuses(t, j.obj, v) THEN failValidation(t) ELSE UNCHANGED vars
  BY <1>5
<1>7. CacheRefuses(t, j.obj, v)
  BY <1>1, <1>6
<1>8. j = k /\ k.obj \in Object /\ nodeOf[t] \in Node
  BY ThreadAssumption DEF CacheInv, OneCall, CacheTypeOK, CacheCall
<1> QED
  BY <1>6, <1>7, <1>8, ReadBehind, RefusedChanged

-----------------------------------------------------------------------------
(* The builds with caches. *)

\* Cached versions stay behind the lock words at the home nodes.
THEOREM CacheInvariant ==
    ASSUME OneWriterNode
    PROVE  CacheSpec => [](LockInv /\ VersionInv /\ CacheInv)
<1> DEFINE Inv == LockInv /\ VersionInv /\ CacheInv
<1>1. CacheInit => Inv
  BY CacheStart
<1>2. Inv /\ [CacheNext]_allVars => Inv'
  <2> SUFFICES ASSUME Inv, [CacheNext]_allVars
               PROVE  Inv'
    OBVIOUS
  <2>1. [Next]_vars
    BY CachedNext DEF LockInv
  <2>2. LockInv' /\ VersionInv'
    BY <2>1, LockStep, VersionStep
  <2> QED
    BY <2>2, CacheStep
<1> QED
  BY <1>1, <1>2, PTL DEF CacheSpec

\* The build with a version cache and statistics implements the protocol
\* without them.
THEOREM CachedImplements ==
    ASSUME OneWriterNode
    PROVE  CacheSpec => Spec
<1>1. CacheInit => Init
  BY DEF CacheInit
<1>2. LockInv /\ CacheInv /\ [CacheNext]_allVars => [Next]_vars
  BY CachedNext DEF LockInv
<1> QED
  BY <1>1, <1>2, CacheInvariant, PTL DEF CacheSpec, Spec

\* So its commits are serializable, its copies are not torn, and what a
\* running transaction has read respects cause and effect.
THEOREM CachedSerializable ==
    ASSUME OneWriterNode
    PROVE  CacheSpec => [](Serializable /\ CopyAuthentic /\ CausalSnapshot)
  BY CachedImplements, CommitsSerializable, CopiesAuthentic, SnapshotsCausal, PTL

-----------------------------------------------------------------------------
(* Transactions beside dstm_malloc and dstm_free. *)

\* A step of FreedMemory is one of the builds with caches, or concerns the
\* data structure only.
LEMMA FreeNextCached ==
    ASSUME [FreeNext]_freeVars
    PROVE  [CacheNext]_allVars
<1>1. Finished /\ UNCHANGED <<cacheVars, statVars, heapVars>> => CacheNext
  BY DEF CacheNext
<1>2. ASSUME NEW t \in Thread, Acts(t)
      PROVE  CacheNext
  BY <1>2 DEF CacheNext, Acts
<1>3. ASSUME NEW t \in Thread, NEW o \in Object,
             \/ dstm_malloc(t, o) \/ dstm_free(t, o)
             \/ \E l \in Object : store(t, l, o)
      PROVE  UNCHANGED allVars
  BY <1>3 DEF dstm_malloc, dstm_free, store
<1>4. ASSUME NEW o \in Object, NEW w \in Word, clearUnit(o, w)
      PROVE  UNCHANGED allVars
  BY <1>4 DEF clearUnit
<1>5. UNCHANGED freeVars => UNCHANGED allVars
  BY DEF freeVars
<1> QED
  BY <1>1, <1>2, <1>3, <1>4, <1>5 DEF FreeNext, Acts

\* Whatever the program does with its blocks, transactions run as they do
\* without dstm_malloc and dstm_free.
THEOREM FreeImplements == FreeSpec => CacheSpec
<1>1. FreeInit => CacheInit
  BY DEF FreeInit
<1>2. [FreeNext]_freeVars => [CacheNext]_allVars
  BY FreeNextCached
<1> QED
  BY <1>1, <1>2, PTL DEF FreeSpec, CacheSpec

\* Beside dstm_free too a lock has one owner, and the cache refuses only what
\* has been locked or changed.
THEOREM RefusalsExact ==
    ASSUME OneWriterNode
    PROVE  FreeSpec => RefusalsJustified /\ []LockOwnership
<1> DEFINE A == \A t \in Thread : \A k \in call[t] :
                  k.op = "found" /\ pc'[t] # pc[t] => Changed(t, k.obj)
           Inv == LockInv /\ VersionInv /\ CacheInv
<1>1. Inv /\ [CacheNext]_allVars => A
  BY RefusalStep DEF LockInv
<1>2. RefusalsJustified <=> [][A]_allVars
  BY DEF RefusalsJustified
<1>3. Inv => LockOwnership
  BY DEF LockInv
<1> QED
  BY <1>1, <1>2, <1>3, FreeImplements, CacheInvariant, PTL DEF CacheSpec

\* Where an attempt still decides what it accesses, or is validated.
Running(t) == pc[t] \notin Updating \cup {"idle"}

\* The attempt x has stored a reference to o.
LinksTo(x, o) == \E k \in leads : k[1] = x /\ k[3] = o

HeapTypes ==
    /\ leads \subseteq (Attempt \cup {NoAttempt}) \X Object \X Object
    /\ private \subseteq Thread \X Object
    /\ freed \in [called : SUBSET (Object \X Nat), done : SUBSET Object]
    /\ zeroed \subseteq Object \X Word
    /\ blank \subseteq Attempt \X Object \X Word

\* References are stored by attempts that have begun.
StoresBegun ==
    \A k \in leads, t \in Thread, i \in Nat : k[1] = <<t, i>> => i <= attempt[t]

\* What is freed is no root, allocated, nobody's own, and not to come; only
\* what is freed is cleared.
FreesOf(o) == \A c \in freed.called : c[1] # o

CallsProper ==
    /\ \A c \in freed.called : c[1] \notin Roots \cup fresh /\ c[2] <= ticket
    /\ \A b \in private : b[2] \notin fresh /\ FreesOf(b[2])
    /\ \A z \in zeroed : ~FreesOf(z[1])

\* In the serial order, no block refers to a freed one at the call: a commit
\* still to be recorded at an earlier position cannot change that.
StillUnlinked ==
    \A c \in freed.called : \A k \in leads : k[3] = c[1] =>
        /\ ~Current(k[2], k[1], c[2])
        /\ \A u \in Thread :
              (/\ pc[u] = "validateAll" /\ k[2] \in write_set[u]
               /\ k[1] = Me(u) /\ pos[u] < c[2]) => Doomed(u)

\* What a running transaction accesses or refers to it knows by name, has
\* allocated, or has found in a copy it still has, and will be validated with.
Known(t, o) == \/ o \in Roots \/ <<t, o>> \in private
               \/ \E l \in Complete(t), w \in Word : <<copy[t][l].val[w], l, o>> \in leads

InUse(t, o) == o \in Accessed(t) \/ LinksTo(Me(t), o)

HandsKnown == \A t \in Thread, o \in Object : Running(t) /\ InUse(t, o) => Known(t, o)

\* After the call, in the serial order, nobody accesses the block or refers
\* to it.
LeftAlone ==
    \A h \in hist, c \in freed.called : h.pos >= c[2] =>
        c[1] \notin h.acc /\ ~LinksTo(h.tx, c[1])

\* Who has loaded a cleared piece comes after the call in the serial order.
BlankLate ==
    \A b \in blank : \E c \in freed.called :
        /\ c[1] = b[2]
        /\ \A h \in hist : h.tx = b[1] => c[2] <= h.pos
        /\ \A t \in Thread : Me(t) = b[1] /\ pc[t] = "validateAll" => c[2] <= pos[t]

FreeInv == /\ HeapTypes /\ StoresBegun /\ CallsProper /\ StillUnlinked /\ HandsKnown
           /\ LeftAlone /\ BlankLate

-----------------------------------------------------------------------------
(* Steps of the protocol keep the invariant. *)

\* Who accesses what, and when readCell starts.
LEMMA AccessFrame ==
    ASSUME TypeOK, [Next]_vars, NEW t \in Thread
    PROVE  /\ \/ Accessed(t)' = {} /\ pc'[t] = "idle"
              \/ Accessed(t)' = Accessed(t)
              \/ \E o \in Object : /\ read(t, o) \/ write(t, o)
                                   /\ Accessed(t)' = Accessed(t) \cup {o}
           /\ pc'[t] \in Reading =>
                \/ pc[t] \in Reading /\ todo'[t] = todo[t]
                \/ \E o \in Object : read(t, o) \/ write(t, o)
<1> DEFINE Same == Accessed(t)' = Accessed(t)
           Remain == (Accessed(t)' = {} /\ pc'[t] = "idle") \/ Same
           Goes == pc'[t] \in Reading => pc[t] \in Reading /\ todo'[t] = todo[t]
<1> USE DEF TypeOK, Accessed, Reading, sets, loops, Clear, abort
<1>1. ASSUME NEW o \in Object, read(t, o) \/ write(t, o)
      PROVE  Accessed(t)' = Accessed(t) \cup {o}
  BY <1>1 DEF read, write
<1>2. ASSUME NEW o \in Object, writeRead(t, o)
      PROVE  Remain /\ Goes
  <2>1. pc'[t] = "active"
    BY <1>2 DEF writeRead
  <2>2. /\ write_set'[t] = write_set[t] \cup {o} /\ read_set'[t] = read_set[t] \ {o}
        /\ o \in read_set[t]
    BY <1>2 DEF writeRead
  <2> QED
    BY <2>1, <2>2
<1>3. ASSUME begin(t) \/ invalidAccess(t) \/ commitReadOnly(t) \/ commitUpdate(t)
      PROVE  Remain /\ Goes
  BY <1>3 DEF begin, invalidAccess, commitReadOnly, commitUpdate, StartValidateAll
<1>4. ASSUME ReadCell(t)
      PROVE  Remain /\ Goes
  BY <1>4 DEF ReadCell, loadVersion, cellLocked, recheckVersion, loadData
<1>5. ASSUME Validate(t)
      PROVE  Remain /\ Goes
  BY <1>5 DEF Validate, increaseClock, validated, validate, validateFails
<1>6. ASSUME GetLocks(t)
      PROVE  Remain /\ Goes
  BY <1>6 DEF GetLocks, requestLocks, locksGranted, StartValidateAll, locksRefused,
              StartReleaseLocks, locksReleased, releaseLock
<1>7. ASSUME WriteBack(t)
      PROVE  Remain /\ Goes
  BY <1>7 DEF WriteBack, validatedAll, getNextClock, committed, validateAll,
              validateAllFails, StartReleaseLocks, releaseLockWithNewClock,
              commitWriteSetValues
<1>8. ASSUME Handler(t) \/ UNCHANGED vars \/ \E u \in Thread \ {t} : Others(u)
      PROVE  Remain /\ Goes
  BY <1>8, HandlerFrame DEF Others, vars
<1>9. Application(t) \/ ReadCell(t) \/ Validate(t) \/ GetLocks(t) \/ WriteBack(t)
        => \/ Remain /\ Goes
           \/ \E o \in Object : /\ read(t, o) \/ write(t, o)
                                /\ Accessed(t)' = Accessed(t) \cup {o}
  <2> HIDE DEF Remain, Goes
  <2> QED
    BY <1>1, <1>2, <1>3, <1>4, <1>5, <1>6, <1>7 DEF Application
<1>10. \/ Application(t) \/ ReadCell(t) \/ Validate(t) \/ GetLocks(t) \/ WriteBack(t)
       \/ Handler(t) \/ UNCHANGED vars \/ \E u \in Thread \ {t} : Others(u)
  BY StepOf
<1> HIDE DEF Remain, Goes
<1>11. \/ Remain /\ Goes
       \/ \E o \in Object : /\ read(t, o) \/ write(t, o)
                            /\ Accessed(t)' = Accessed(t) \cup {o}
  BY <1>8, <1>9, <1>10
<1> QED
  BY <1>11 DEF Remain, Goes
\* A transaction that runs keeps the copies it has completed.
LEMMA RunningFrame ==
    ASSUME TypeOK, LoopsInBounds, [Next]_vars, NEW t \in Thread, Running(t)'
    PROVE  \/ begin(t)
           \/ /\ Running(t) /\ attempt'[t] = attempt[t]
              /\ Complete(t) \subseteq Complete(t)'
              /\ \A l \in Complete(t) : copy'[t][l].val = copy[t][l].val
<1> SUFFICES ASSUME ~begin(t)
             PROVE  /\ Running(t) /\ attempt'[t] = attempt[t]
                    /\ Complete(t) \subseteq Complete(t)'
                    /\ \A l \in Complete(t) : copy'[t][l].val = copy[t][l].val
  OBVIOUS
<1>1. pc'[t] # "idle" /\ pc'[t] \notin Updating
  BY DEF Running
<1>2. attempt'[t] = attempt[t] /\ pc[t] # "idle"
  BY <1>1, AttemptFrame
<1>3. pc[t] \notin Updating
  BY <1>1, UpdatingFrame DEF committed, Clear, TypeOK
<1>4. Complete(t) \subseteq Complete(t)'
  <2>1. CASE \E o \in Object : read(t, o) \/ write(t, o)
    <3>1. PICK o \in Object : read(t, o) \/ write(t, o)
      BY <2>1
    <3>2. /\ pc[t] = "active" /\ pc'[t] = "loadVersion" /\ todo'[t] = {o}
          /\ o \notin Accessed(t) /\ Accessed(t) \subseteq Accessed(t)'
      BY <3>1 DEF read, write, StartReadCell, Accessed, TypeOK
    <3> QED
      BY <3>2 DEF Complete
  <2>2. CASE ~\E o \in Object : read(t, o) \/ write(t, o)
    <3>1. /\ Accessed(t)' = Accessed(t)
          /\ pc'[t] \in Reading => pc[t] \in Reading /\ todo'[t] = todo[t]
      BY <1>1, <2>2, AccessFrame
    <3> QED
      BY <3>1 DEF Complete, Reading
  <2> QED
    BY <2>1, <2>2
<1>5. \A l \in Complete(t) : copy'[t][l].val = copy[t][l].val
  BY <1>4, CompleteSame
<1> QED
  BY <1>1, <1>2, <1>3, <1>4, <1>5 DEF Running

\* A validation that meets a newer version cannot be completed any more.
LEMMA DoomedStays ==
    ASSUME OneWriterNode, LockInv, VersionInv, [Next]_vars, NEW u \in Thread,
           pc[u] = "validateAll", pc'[u] = "validateAll", Doomed(u),
           todo'[u] = todo[u] \/ \E o \in Object : validateAll(u, o)
    PROVE  Doomed(u)'
<1>1. PICK x \in todo[u] : lock[x].version > copy[u][x].ts.version
  BY DEF Doomed, isTimestampGreater
<1>2. x \in Object /\ TypeOK
  BY DEF LockInv, TypeOK
<1>3. lock'[x].version >= lock[x].version
  BY <1>2, VersionsForward
<1>4. copy'[u][x].ts = copy[u][x].ts
  BY <1>2, StampFrame DEF recheckVersion, Clear, TypeOK
<1>5. x \in todo'[u]
  BY <1>1, <1>2 DEF validateAll, Changed, isTimestampGreater, TypeOK
<1>6. lock'[x].version \in Nat /\ lock[x].version \in Nat /\ copy[u][x].ts.version \in Nat
  <2>1. TypeOK'
    BY LockStep DEF LockInv
  <2> QED
    BY <1>2, <2>1 DEF TypeOK, Copy, Timestamp
<1> QED
  BY <1>1, <1>3, <1>4, <1>5, <1>6 DEF Doomed, isTimestampGreater

\* No reference to a freed block becomes current before the call.
LEMMA StillUnlinkedStep ==
    ASSUME OneWriterNode, LockInv, VersionInv, CallsProper, StillUnlinked,
           HeapTypes, UNCHANGED <<leads, freed>>, [Next]_vars
    PROVE  StillUnlinked'
<1>1. TypeOK /\ TypeOK'
  BY LockStep DEF LockInv
<1> SUFFICES ASSUME NEW c \in freed.called, NEW k \in leads, k[3] = c[1]
             PROVE  /\ ~Current(k[2], k[1], c[2])'
                    /\ \A u \in Thread :
                          (/\ pc'[u] = "validateAll" /\ k[2] \in write_set'[u]
                           /\ k[1] = Me(u)' /\ pos'[u] < c[2]) => Doomed(u)'
  BY DEF StillUnlinked
<1>2. ~Current(k[2], k[1], c[2])
  BY DEF StillUnlinked
<1>3. ~Current(k[2], k[1], c[2])'
  <2>1. CASE hist' = hist
    BY <1>2, <2>1 DEF Current
  <2>2. CASE hist' # hist
    <3>1. PICK t \in Thread : validatedAll(t) /\ hist' = hist \cup {Record(t)}
      BY <1>1, <2>2, RecordFrame
    <3>2. pc[t] = "validateAll" /\ ~Doomed(t)
      BY <3>1 DEF validatedAll, Doomed
    <3>3. /\ Record(t).tx = Me(t) /\ Record(t).pos = pos[t]
          /\ Record(t).writes = write_set[t]
      BY RecordFields
    <3>4. ~(k[2] \in write_set[t] /\ pos[t] < c[2] /\ k[1] = Me(t))
      BY <3>2 DEF StillUnlinked
    <3>5. Me(t) # NoAttempt
      BY <1>1, NoAttemptAssumption DEF Me, TypeOK
    <3> DEFINE B == {h \in hist : k[2] \in h.writes /\ h.pos < c[2]}
               C == {h \in hist' : k[2] \in h.writes /\ h.pos < c[2]}
    <3>6. C = B \/ (C = B \cup {Record(t)} /\ k[1] # Me(t))
      BY <3>1, <3>3, <3>4
    <3> QED
      BY <1>2, <3>3, <3>6 DEF Current
  <2> QED
    BY <2>1, <2>2
<1>4. ASSUME NEW u \in Thread, pc'[u] = "validateAll", k[2] \in write_set'[u],
             k[1] = Me(u)', pos'[u] < c[2]
      PROVE  Doomed(u)'
  <2>1. c[2] \in Nat /\ c[2] <= ticket /\ ticket \in Nat
    BY <1>1 DEF CallsProper, HeapTypes, TypeOK
  <2>2. ~StartValidateAll(u)
    BY <1>1, <1>4, <2>1 DEF StartValidateAll, TypeOK
  <2>3. /\ pc[u] = "validateAll" /\ write_set'[u] = write_set[u] /\ pos'[u] = pos[u]
        /\ todo'[u] = todo[u] \/ \E o \in Object : validateAll(u, o)
    BY <1>1, <1>4, <2>2, ValidateAllFrame
  <2>4. Me(u)' = Me(u)
    BY <1>1, <2>3, AttemptFrame DEF begin, Me
  <2>5. Doomed(u)
    BY <1>4, <2>3, <2>4 DEF StillUnlinked
  <2> QED
    BY <1>4, <2>3, <2>5, DoomedStays
<1> QED
  BY <1>3, <1>4

\* What a step of t does to the data structure.
LEMMA FollowedFrame ==
    ASSUME TypeOK, CacheInv, NEW t \in Thread, Acts(t), followed(t)
    PROVE  /\ UNCHANGED <<leads, fresh, freed>>
           /\ zeroed' \subseteq zeroed /\ private' \subseteq private
           /\ \A b \in private \ private' : b[1] = t /\ validatedAll(t)
           /\ \A b \in blank' \ blank :
                 /\ pc[t] = "loadData" /\ b[1] = Me(t) /\ <<b[2], b[3]>> \in zeroed
                 /\ b \in {Me(t)} \X Object \X Word
<1>1. UNCHANGED <<leads, fresh, freed>> /\ zeroed' \subseteq zeroed
      /\ private' = private \ ({t} \X Published(t))
  BY DEF followed
<1>2. hist' # hist => validatedAll(t)
  BY CachedMove, ApplicationFrame, ReadCellFrame, ValidateFrame, GetLocksFrame,
     WriteBackFrame, HandlerFrame DEF Acts, Move, vars, history
<1>3. \A b \in private \ private' : b[1] = t /\ validatedAll(t)
  BY <1>1, <1>2 DEF Published
<1>4. ASSUME NEW b \in blank' \ blank
      PROVE  /\ pc[t] = "loadData" /\ b[1] = Me(t) /\ <<b[2], b[3]>> \in zeroed
             /\ b \in {Me(t)} \X Object \X Word
  <2>1. PICK k \in Moved(t, "loadData") \cap zeroed : b = <<Me(t), k[1], k[2]>>
    BY <1>4 DEF followed
  <2>2. pc[t] = "loadData" /\ k \in Object \X Word
    BY <2>1 DEF Moved, TypeOK
  <2> QED
    BY <2>1, <2>2
<1> QED
  BY <1>1, <1>3, <1>4

\* References that a running transaction has come by stay known to it.
LEMMA HandsKnownStep ==
    ASSUME LockInv, VersionInv, CacheInv, RunInv, HeapTypes, StoresBegun, HandsKnown,
           NEW t \in Thread, Acts(t), reachFirst, followed(t), [Next]_vars
    PROVE  HandsKnown'
<1>1. TypeOK /\ TypeOK' /\ LoopsInBounds
  BY LockStep DEF LockInv, VersionInv
<1>2. /\ leads' = leads
      /\ \A b \in private \ private' : b[1] = t /\ validatedAll(t)
  BY <1>1, FollowedFrame
<1> SUFFICES ASSUME NEW u \in Thread, NEW o \in Object, Running(u)', InUse(u, o)'
             PROVE  Known(u, o)'
  BY DEF HandsKnown
<1>3. ~begin(u)
  <2> SUFFICES ASSUME begin(u)
               PROVE  FALSE
    OBVIOUS
  <2>1. Accessed(u) = {} /\ Accessed(u)' = Accessed(u) /\ attempt'[u] = attempt[u] + 1
    BY <1>1 DEF begin, RunInv, ValidatingAhead, Accessed, sets, TypeOK
  <2>2. attempt[u] \in Nat /\ Me(u)' = <<u, attempt[u] + 1>>
    BY <1>1, <2>1 DEF TypeOK, Me
  <2>3. \A k \in leads : k[1] # Me(u)'
    BY <2>2 DEF StoresBegun
  <2> QED
    BY <1>2, <2>1, <2>3 DEF InUse, LinksTo
<1>4. /\ Running(u) /\ Me(u)' = Me(u) /\ Complete(u) \subseteq Complete(u)'
      /\ \A l \in Complete(u) : copy'[u][l].val = copy[u][l].val
  BY <1>1, <1>3, RunningFrame DEF Me
<1>5. Known(u, o)
  <2>1. CASE InUse(u, o)
    BY <1>4, <2>1 DEF HandsKnown
  <2>2. CASE ~InUse(u, o)
    <3>1. o \in Accessed(u)' /\ o \notin Accessed(u)
      BY <1>2, <1>4, <2>2 DEF InUse, LinksTo
    <3>2. PICK p \in Object : read(u, p) \/ write(u, p)
      BY <1>1, <3>1, AccessFrame
    <3>3. Complete(u) = Accessed(u)
      BY <3>2 DEF read, write, Complete
    <3>4. InHand(u, o)
      BY <3>1 DEF reachFirst, Accessed
    <3> QED
      BY <3>3, <3>4 DEF InHand, Found, Known
  <2> QED
    BY <2>1, <2>2
<1>6. <<u, o>> \in private => <<u, o>> \in private'
  <2> SUFFICES ASSUME <<u, o>> \in private \ private'
               PROVE  FALSE
    OBVIOUS
  <2>1. validatedAll(u)
    BY <1>2
  <2>2. pc'[u] \in Updating
    BY <1>1, <2>1 DEF validatedAll, Updating, TypeOK
  <2> QED
    BY <2>2 DEF Running
<1> QED
  BY <1>2, <1>4, <1>5, <1>6 DEF Known

\* A transaction that is recorded after the call has nothing to do with the
\* freed block: what it found a reference in would not have been validated.
LEMMA LeftAloneStep ==
    ASSUME OneWriterNode, LockInv, VersionInv, HeapTypes, CallsProper, HandsKnown,
           LeftAlone, Serializable', StillUnlinked', UNCHANGED <<leads, freed>>,
           [Next]_vars
    PROVE  LeftAlone'
<1>1. TypeOK /\ TypeOK'
  BY LockStep DEF LockInv
<1> SUFFICES ASSUME NEW h \in hist', NEW c \in freed.called, h.pos >= c[2],
                    c[1] \in h.acc \/ LinksTo(h.tx, c[1])
             PROVE  FALSE
  BY DEF LeftAlone, LinksTo
<1>2. h \notin hist
  BY DEF LeftAlone
<1>3. PICK t \in Thread : validatedAll(t) /\ hist' = hist \cup {Record(t)}
  BY <1>1, <1>2, RecordFrame
<1>4. /\ h = Record(t) /\ h.tx = Me(t) /\ h.pos = pos[t] /\ h.acc = Accessed(t)
      /\ \A o \in Object : h.seen[o] = copy[t][o].val
  BY <1>2, <1>3, RecordFields
<1>5. Known(t, c[1]) /\ c[1] \in Object /\ c[2] \in Nat
  <2>1. Running(t)
    BY <1>3 DEF validatedAll, Running, Updating
  <2>2. c[1] \in Object /\ c[2] \in Nat
    BY DEF HeapTypes
  <2> QED
    BY <1>4, <2>1, <2>2 DEF HandsKnown, InUse
<1>6. c[1] \notin Roots /\ <<t, c[1]>> \notin private
  BY DEF CallsProper, FreesOf
<1>7. PICK l \in Complete(t), w \in Word : <<copy[t][l].val[w], l, c[1]>> \in leads
  BY <1>5, <1>6 DEF Known
<1> DEFINE v == copy[t][l].val[w]
           B(p) == {g \in hist' : l \in g.writes /\ g.pos < p}
<1>8. l \in h.acc /\ l \in Object
  BY <1>1, <1>4 DEF Complete, Accessed, TypeOK
<1>9. LeftLast(B(h.pos), v)
  <2>1. Current(l, h.seen[l][w], h.pos)'
    BY <1>8 DEF Serializable
  <2>2. LeftLast(B(h.pos), h.seen[l][w])
    BY <2>1 DEF Current, LeftLast
  <2> QED
    BY <1>4, <1>8, <2>2
<1>10. ~LeftLast(B(c[2]), v)
  <2>1. \A k \in leads : k[3] = c[1] => ~Current(k[2], k[1], c[2])'
    BY DEF StillUnlinked
  <2>2. \A k \in leads : k[3] = c[1] =>
          ~LeftLast({g \in hist' : k[2] \in g.writes /\ g.pos < c[2]}, k[1])
    BY <2>1 DEF Current, LeftLast
  <2> QED
    BY <1>7, <2>2
<1>11. \A g \in hist' : g.pos \in Nat
  BY <1>1 DEF TypeOK, Commits
<1>12. B(c[2]) \subseteq B(h.pos)
  BY <1>5, <1>11
<1>13. v # NoAttempt
  BY <1>9, <1>10, <1>12 DEF LeftLast
<1>14. PICK g \in B(h.pos) : g.tx = v /\ \A f \in B(h.pos) : f.pos <= g.pos
  BY <1>9, <1>13 DEF LeftLast
<1>15. ~(g.pos < c[2])
  BY <1>10, <1>12, <1>13, <1>14 DEF LeftLast
<1>16. g \in hist /\ g.pos >= c[2]
  BY <1>3, <1>4, <1>5, <1>11, <1>14, <1>15
<1> QED
  BY <1>7, <1>14, <1>16 DEF LeftAlone, LinksTo

\* A cleared piece is loaded before the transaction draws its position.
LEMMA BlankLateStep ==
    ASSUME LockInv, CacheInv, RecordsOnce, HeapTypes, CallsProper, BlankLate,
           NEW t \in Thread, Acts(t), followed(t), [Next]_vars
    PROVE  BlankLate'
<1>1. TypeOK /\ TypeOK' /\ freed' = freed
  BY LockStep, FollowedFrame DEF LockInv
<1> DEFINE Late(c, x) == /\ \A h \in hist : h.tx = x => c[2] <= h.pos
                         /\ \A u \in Thread : Me(u) = x /\ pc[u] = "validateAll" =>
                               c[2] <= pos[u]
<1>2. ASSUME NEW c \in freed.called, NEW x, Late(c, x)
      PROVE  Late(c, x)'
  <2>1. ASSUME NEW h \in hist', h.tx = x
        PROVE  c[2] <= h.pos
    <3>1. CASE h \in hist
      BY <1>2, <2>1, <3>1
    <3>2. CASE h \notin hist
      <4>1. PICK u \in Thread : validatedAll(u) /\ hist' = hist \cup {Record(u)}
        BY <1>1, <3>2, RecordFrame
      <4>2. h.tx = Me(u) /\ h.pos = pos[u] /\ pc[u] = "validateAll"
        BY <3>2, <4>1, RecordFields DEF validatedAll
      <4> QED
        BY <1>2, <2>1, <4>2
    <3> QED
      BY <3>1, <3>2
  <2>2. ASSUME NEW u \in Thread, Me(u)' = x, pc'[u] = "validateAll"
        PROVE  c[2] <= pos'[u]
    <3>1. CASE StartValidateAll(u)
      BY <1>1, <3>1 DEF StartValidateAll, TypeOK, CallsProper
    <3>2. CASE ~StartValidateAll(u)
      <4>1. pc[u] = "validateAll" /\ pos'[u] = pos[u]
        BY <1>1, <2>2, <3>2, ValidateAllFrame
      <4>2. Me(u)' = Me(u)
        BY <1>1, <4>1, AttemptFrame DEF begin, Me
      <4> QED
        BY <1>2, <2>2, <4>1, <4>2
    <3> QED
      BY <3>1, <3>2
  <2> QED
    BY <2>1, <2>2
<1>3. ASSUME NEW b \in blank'
      PROVE  \E c \in freed.called : c[1] = b[2] /\ Late(c, b[1])
  <2>1. CASE b \in blank
    BY <2>1 DEF BlankLate
  <2>2. CASE b \notin blank
    <3>1. pc[t] = "loadData" /\ b[1] = Me(t) /\ <<b[2], b[3]>> \in zeroed
      BY <1>1, <2>2, FollowedFrame
    <3>2. PICK c \in freed.called : c[1] = b[2]
      BY <3>1 DEF CallsProper, FreesOf
    <3>3. \A h \in hist : h.tx # Me(t)
      BY <3>1 DEF RecordsOnce, Updating
    <3>4. \A u \in Thread : Me(u) = Me(t) => u = t
      BY DEF Me
    <3> QED
      BY <3>1, <3>2, <3>3, <3>4
  <2> QED
    BY <2>1, <2>2
<1> HIDE DEF Late
<1>4. \A b \in blank' : \E c \in freed'.called : c[1] = b[2] /\ Late(c, b[1])'
  BY <1>1, <1>2, <1>3
<1> QED
  BY <1>4 DEF BlankLate, Late

\* The steps of transactions keep the invariant.
LEMMA FreeInvStep ==
    ASSUME OneWriterNode, LockInv, VersionInv, CacheInv, RunInv, RecordsOnce,
           Positions, Serializable', FreeInv, NEW t \in Thread, Acts(t),
           reachFirst, followed(t), [Next]_vars
    PROVE  FreeInv'
<1> USE DEF FreeInv
<1>1. TypeOK /\ TypeOK'
  BY LockStep DEF LockInv
<1>2. /\ UNCHANGED <<leads, fresh, freed>>
      /\ zeroed' \subseteq zeroed /\ private' \subseteq private
      /\ \A b \in blank' \ blank : b \in {Me(t)} \X Object \X Word
  BY <1>1, FollowedFrame
<1>3. HeapTypes'
  <2>1. Me(t) \in Attempt
    BY <1>1 DEF Me, Attempt, TypeOK
  <2> QED
    BY <1>2, <2>1 DEF HeapTypes
<1>4. StoresBegun'
  <2>1. ASSUME NEW u \in Thread
        PROVE  /\ attempt[u] \in Nat /\ attempt'[u] \in Nat
               /\ attempt[u] <= attempt'[u]
    <3>1. attempt'[u] = attempt[u] \/ attempt'[u] = attempt[u] + 1
      BY <1>1, AttemptFrame DEF begin, TypeOK
    <3> QED
      BY <1>1, <3>1 DEF TypeOK
  <2> QED
    BY <1>2, <2>1 DEF StoresBegun
<1>5. CallsProper'
  <2>1. ticket \in Nat /\ (ticket' = ticket \/ ticket' = ticket + 1)
    BY <1>1, TicketFrame DEF StartValidateAll, TypeOK
  <2>2. \A c \in freed.called : c[2] \in Nat
    BY DEF HeapTypes
  <2>3. \A c \in freed.called : c[2] <= ticket'
    BY <2>1, <2>2 DEF CallsProper
  <2> QED
    BY <1>2, <2>3 DEF CallsProper, FreesOf
<1>6. StillUnlinked'
  BY <1>2, StillUnlinkedStep
<1> QED
  BY <1>2, <1>3, <1>4, <1>5, <1>6, HandsKnownStep, LeftAloneStep, BlankLateStep

-----------------------------------------------------------------------------
(* So do the steps of the program and the clearing. *)

\* What the parts about transactions are made of.
TransactionState == <<pc, attempt, sets, todo, lock, history>>

\* A program that allocates a block has it for itself.
LEMMA MallocStep ==
    ASSUME FreeInv, NEW t \in Thread, NEW o \in Object, dstm_malloc(t, o)
    PROVE  FreeInv'
<1> USE DEF FreeInv
<1>1. /\ o \in fresh /\ fresh' = fresh \ {o} /\ private' = private \cup {<<t, o>>}
      /\ UNCHANGED <<TransactionState, leads, freed, zeroed, blank>>
  BY DEF dstm_malloc, TransactionState, allVars, vars, memory, loops
<1>2. HeapTypes' /\ StoresBegun'
  BY <1>1 DEF HeapTypes, StoresBegun, TransactionState
<1>3. CallsProper'
  BY <1>1 DEF CallsProper, FreesOf, TransactionState, history
<1>4. StillUnlinked' /\ LeftAlone' /\ BlankLate'
  BY <1>1 DEF StillUnlinked, Current, Me, Doomed, LeftAlone, LinksTo, BlankLate,
              TransactionState, history, sets
<1>5. HandsKnown'
  BY <1>1 DEF HandsKnown, Running, InUse, Known, LinksTo, Me, Accessed, Complete,
              TransactionState, sets
<1> QED
  BY <1>2, <1>3, <1>4, <1>5

\* A program that stores a reference has it in hand.
LEMMA StoreStep ==
    ASSUME TypeOK, RecordsOnce, FreeInv, NEW t \in Thread, NEW l \in Object,
           NEW o \in Object, store(t, l, o)
    PROVE  FreeInv'
<1> USE DEF FreeInv
<1> DEFINE k == <<Me(t), l, o>>
<1>1. /\ pc[t] = "active" /\ leads' = leads \cup {k} /\ InHand(t, o)
      /\ UNCHANGED <<TransactionState, fresh, private, freed, zeroed, blank>>
  BY DEF store, TransactionState, allVars, vars, memory, loops
<1>2. /\ k[1] = Me(t) /\ k[2] = l /\ k[3] = o /\ Me(t) \in Attempt
      /\ Me(t) = <<t, attempt[t]>> /\ attempt[t] \in Nat
  BY DEF Me, Attempt, TypeOK
<1>3. /\ \A h \in hist : h.tx # Me(t)
      /\ \A u \in Thread : Me(u) = Me(t) => u = t
  BY <1>1 DEF RecordsOnce, Updating, Me
<1>4. HeapTypes' /\ CallsProper'
  BY <1>1, <1>2 DEF HeapTypes, CallsProper, FreesOf, TransactionState, history
<1>5. StoresBegun'
  BY <1>1, <1>2 DEF StoresBegun, TransactionState
<1>6. StillUnlinked'
  <2>1. Me(t) # NoAttempt
    BY <1>2, NoAttemptAssumption
  <2>2. \A p : ~Current(l, Me(t), p)
    BY <1>3, <2>1 DEF Current
  <2>3. \A u \in Thread : pc[u] = "validateAll" => Me(t) # Me(u)
    BY <1>1, <1>3
  <2>4. \A j \in leads' : \/ j \in leads
                          \/ /\ \A p : ~Current(j[2], j[1], p)
                             /\ \A u \in Thread : pc[u] = "validateAll" => j[1] # Me(u)
    BY <1>1, <1>2, <2>2, <2>3
  <2> QED
    BY <1>1, <2>4 DEF StillUnlinked, Current, Me, Doomed, TransactionState, history,
                      sets
<1>7. HandsKnown'
  <2>1. ASSUME NEW u \in Thread, NEW p \in Object, Running(u), InUse(u, p)'
        PROVE  Known(u, p)
    <3>1. CASE InUse(u, p)
      BY <2>1, <3>1 DEF HandsKnown
    <3>2. CASE ~InUse(u, p)
      <4>1. u = t /\ p = o
        BY <1>1, <1>2, <1>3, <2>1, <3>2 DEF InUse, LinksTo, Accessed, Me,
                                            TransactionState, sets
      <4> QED
        BY <1>1, <4>1 DEF InHand, Found, Known, Complete
    <3> QED
      BY <3>1, <3>2
  <2> QED
    BY <1>1, <2>1 DEF HandsKnown, Running, Known, Complete, Accessed,
                      TransactionState, sets
<1>8. LeftAlone'
  BY <1>1, <1>2, <1>3 DEF LeftAlone, LinksTo, TransactionState, history
<1>9. BlankLate'
  BY <1>1 DEF BlankLate, Me, TransactionState, history
<1> QED
  BY <1>4, <1>5, <1>6, <1>7, <1>8, <1>9

\* A program that frees a block has taken it out of the structure.
LEMMA FreeCallStep ==
    ASSUME TypeOK, Positions, FreeInv, NEW t \in Thread, NEW o \in Object,
           dstm_free(t, o)
    PROVE  FreeInv'
<1> USE DEF FreeInv
<1> DEFINE c == <<o, ticket>>
<1>1. /\ pc[t] = "idle" /\ o \notin Roots \cup fresh /\ Unlinked(o)
      /\ \A u \in Thread \ {t} : <<u, o>> \notin private
      /\ private' = private \ {<<t, o>>}
      /\ UNCHANGED <<TransactionState, leads, fresh, zeroed, blank>>
  BY DEF dstm_free, TransactionState, allVars, vars, memory, loops
<1>2. c[1] = o /\ c[2] = ticket /\ ticket \in Nat /\ c \in Object \X Nat
  BY DEF TypeOK
<1>3. /\ freed'.called = freed.called \cup {c} /\ freed'.done = freed.done
      /\ freed' \in [called : SUBSET (Object \X Nat), done : SUBSET Object]
  <2>1. freed' = [freed EXCEPT !.called = freed.called \cup {c}]
    BY DEF dstm_free
  <2>2. freed.called \cup {c} \in SUBSET (Object \X Nat)
    BY <1>2 DEF HeapTypes
  <2> HIDE DEF c
  <2> QED
    BY <2>1, <2>2 DEF HeapTypes
<1>4. HeapTypes' /\ StoresBegun'
  BY <1>1, <1>3 DEF HeapTypes, StoresBegun, TransactionState
<1>5. CallsProper'
  <2>1. \A b \in private' : b[2] # o
    BY <1>1 DEF HeapTypes
  <2> QED
    BY <1>1, <1>2, <1>3, <2>1 DEF CallsProper, FreesOf, TransactionState, history
<1>6. StillUnlinked'
  <2>1. \A j \in leads : j[3] = o =>
          /\ ~Current(j[2], j[1], ticket)
          /\ \A u \in Thread :
                (pc[u] = "validateAll" /\ j[2] \in write_set[u] /\ j[1] = Me(u)) => Doomed(u)
    BY <1>1 DEF Unlinked
  <2> QED
    BY <1>1, <1>2, <1>3, <2>1 DEF StillUnlinked, Current, Me, Doomed,
                                  TransactionState, history, sets
<1>7. HandsKnown'
  <2>1. ~Running(t)
    BY <1>1 DEF Running
  <2> QED
    BY <1>1, <2>1 DEF HandsKnown, Running, InUse, Known, LinksTo, Me, Accessed,
                      Complete, TransactionState, sets
<1>8. LeftAlone'
  <2>1. \A h \in hist : ~(h.pos >= ticket)
    BY DEF Positions, TypeOK, Commits
  <2> QED
    BY <1>1, <1>2, <1>3, <2>1 DEF LeftAlone, LinksTo, TransactionState, history
<1>9. BlankLate'
  BY <1>1, <1>3 DEF BlankLate, Me, TransactionState, history
<1> QED
  BY <1>4, <1>5, <1>6, <1>7, <1>8, <1>9

\* Only what has been freed is cleared.
LEMMA ClearStep ==
    ASSUME FreeInv, NEW o \in Object, NEW w \in Word, clearUnit(o, w)
    PROVE  FreeInv'
<1> USE DEF FreeInv
<1>1. /\ \E c \in freed.called : c[1] = o
      /\ zeroed' = zeroed \cup {<<o, w>>}
      /\ UNCHANGED <<TransactionState, leads, fresh, private, blank>>
  BY DEF clearUnit, TransactionState, allVars, vars, memory, loops
<1>2. /\ freed'.called = freed.called
      /\ freed' \in [called : SUBSET (Object \X Nat), done : SUBSET Object]
  BY DEF clearUnit, HeapTypes
<1>3. HeapTypes' /\ StoresBegun'
  BY <1>1, <1>2 DEF HeapTypes, StoresBegun, TransactionState
<1>4. CallsProper'
  BY <1>1, <1>2 DEF CallsProper, FreesOf, TransactionState, history
<1>5. StillUnlinked' /\ LeftAlone' /\ BlankLate'
  BY <1>1, <1>2 DEF StillUnlinked, Current, Me, Doomed, LeftAlone, LinksTo, BlankLate,
                    TransactionState, history, sets
<1>6. HandsKnown'
  BY <1>1 DEF HandsKnown, Running, InUse, Known, LinksTo, Me, Accessed, Complete,
              TransactionState, sets
<1> QED
  BY <1>3, <1>4, <1>5, <1>6

\* At first nothing is freed and nobody runs.
LEMMA FreeStart == FreeInit => FreeInv
<1> SUFFICES ASSUME FreeInit
             PROVE  FreeInv
  OBVIOUS
<1>1. /\ Init /\ leads = {<<NoAttempt, k[1], k[2]>> : k \in Links} /\ private = {}
      /\ freed = [called |-> {}, done |-> {}] /\ zeroed = {} /\ blank = {}
  BY DEF FreeInit, CacheInit
<1>2. HeapTypes
  BY <1>1, StructureAssumption DEF HeapTypes
<1>3. StoresBegun
  BY <1>1, NoAttemptAssumption DEF StoresBegun
<1>4. CallsProper /\ StillUnlinked /\ LeftAlone /\ BlankLate
  BY <1>1 DEF CallsProper, StillUnlinked, LeftAlone, BlankLate
<1>5. HandsKnown
  BY <1>1 DEF HandsKnown, Running, Init
<1> QED
  BY <1>2, <1>3, <1>4, <1>5 DEF FreeInv

-----------------------------------------------------------------------------
\* In the serial order of the commits nobody comes by a block after its free,
\* and whoever has loaded a cleared piece is validated later than the free.
THEOREM FreeInvariant ==
    ASSUME OneWriterNode
    PROVE  FreeSpec => []FreeInv
<1> DEFINE Base == /\ LockInv /\ VersionInv /\ CacheInv /\ RunInv /\ RecordsOnce
                   /\ Positions /\ Serializable
<1>1. FreeSpec => []Base
  <2>1. LockInv /\ VersionInv /\ ContentInv /\ SerialInv /\ RunInv /\ CausalInv
          => RunInv /\ RecordsOnce /\ Positions /\ Serializable
    BY DEF SerialInv, CausalInv
  <2> QED
    BY <2>1, FreeImplements, CacheInvariant, CachedImplements, CausalInvariant, PTL
<1>2. Base /\ Base' /\ FreeInv /\ [FreeNext]_freeVars => FreeInv'
  <2> SUFFICES ASSUME Base, Base', FreeInv, [FreeNext]_freeVars
               PROVE  FreeInv'
    OBVIOUS
  <2>1. [Next]_vars
    BY FreeNextCached, CachedNext DEF LockInv
  <2>2. ASSUME NEW t \in Thread, Acts(t), reachFirst, followed(t)
        PROVE  FreeInv'
    BY <2>1, <2>2, FreeInvStep
  <2>3. ASSUME NEW t \in Thread, NEW o \in Object,
               \/ dstm_malloc(t, o) \/ dstm_free(t, o)
               \/ \E l \in Object : store(t, l, o)
        PROVE  FreeInv'
    BY <2>3, MallocStep, FreeCallStep, StoreStep DEF LockInv
  <2>4. ASSUME NEW o \in Object, NEW w \in Word, clearUnit(o, w)
        PROVE  FreeInv'
    BY <2>4, ClearStep
  <2>5. CASE UNCHANGED <<TransactionState, heapVars>>
    BY <2>5 DEF FreeInv, HeapTypes, StoresBegun, CallsProper, FreesOf, StillUnlinked,
                Current, Me, Doomed, HandsKnown, Running, InUse, Known, LinksTo,
                Accessed, Complete, LeftAlone, BlankLate, TransactionState, history,
                sets, heapVars
  <2>6. UNCHANGED freeVars \/ (Finished /\ UNCHANGED <<cacheVars, statVars, heapVars>>)
          => UNCHANGED <<TransactionState, heapVars>>
    BY DEF freeVars, Finished, allVars, vars, TransactionState, memory, loops
  <2> QED
    BY <2>2, <2>3, <2>4, <2>5, <2>6 DEF FreeNext, Acts
<1> QED
  BY <1>1, <1>2, FreeStart, PTL DEF FreeSpec

\* No transaction commits with what it saw in a cleared block, although
\* dstm_free takes no lock and changes no version, and every thread may change
\* any reference and free any block that is out of the structure.
THEOREM FreedNeverSeen ==
    ASSUME OneWriterNode
    PROVE  FreeSpec => []FreedUnseen
<1>1. FreeInv => FreedUnseen
  BY DEF FreeInv, FreedUnseen, BlankLate, LeftAlone
<1> QED
  BY <1>1, FreeInvariant, PTL

-----------------------------------------------------------------------------
(***************************************************************************)
(* The statistics.  Counting is by sets of pairs, so that it needs no      *)
(* recursion: the failed attempts of a node's threads, each with its       *)
(* thread, are as many as the aborts reported and those in descriptors.    *)
(***************************************************************************)

\* The counters of a descriptor.
Counters == [total_aborts : Nat, by : [Reason -> Nat]]

\* Their types.
CountTypes ==
    /\ pc \in [Thread -> PC]
    /\ attempt \in [Thread -> Nat]
    /\ stats \in [Thread -> Counters]
    /\ reason \in [Thread -> Reason]
    /\ G_TRANSACTIONS_STATS
         \in [Node -> [total_txs : Nat, total_aborts : Nat, by : [Reason -> Nat]]]

\* The i-th attempt of t has committed.
Recorded(H, t, i) == \E h \in H : h.tx = <<t, i>>

\* A commit has its record from validateAll on, and no other running attempt has.
RecordsOfCommits ==
    /\ \A t \in Thread : pc[t] # "idle" =>
          attempt[t] >= 1 /\ (Recorded(hist, t, attempt[t]) <=> pc[t] \in Updating)
    /\ \A t \in Thread, i \in Nat : Recorded(hist, t, i) => i <= attempt[t]

\* The reasons add up to the total, in a descriptor and on a node.
ReasonsAddUp ==
    /\ \A t \in Thread : stats[t].total_aborts = AllReasons(stats[t].by)
    /\ \A n \in Node :
          G_TRANSACTIONS_STATS[n].total_aborts = AllReasons(G_TRANSACTIONS_STATS[n].by)

\* The threads of a node.
Here(n) == {t \in Thread : nodeOf[t] = n}

\* Reported or in a descriptor in use: the attempts that failed.
AbortsAddUp ==
    \A n \in Node : G_TRANSACTIONS_STATS[n].total_aborts + Cardinality(Unreported(Here(n)))
                       = Cardinality(Failed(Here(n)))

\* A lookup in the cache belongs to a validation.
LookupsValidate ==
    /\ call = [t \in Thread |-> call[t]]
    /\ \A t \in Thread : \A k \in call[t] :
          /\ "op" \in DOMAIN k
          /\ k.op = "found" => pc[t] \in {"validate", "validateAll"}

CountInv == CountTypes /\ LookupsValidate /\ RecordsOfCommits /\ ReasonsAddUp /\ AbortsAddUp

SameCounters == UNCHANGED <<stats, G_TRANSACTIONS_STATS>>
MovesTo(t, l) == pc' = [pc EXCEPT ![t] = l]

\* What a step does to place, attempt, records and counters is one of five
\* things: an attempt goes on, begins, gets its record as a commit, aborts and
\* is counted, or reports the counters when its commit is done.
Runs(t) == \E l \in PC :
    /\ MovesTo(t, l) /\ UNCHANGED <<attempt, hist>> /\ SameCounters
    /\ l = pc[t] \/ (pc[t] # "idle" /\ l # "idle" /\ (l \in Updating <=> pc[t] \in Updating))

Begins(t) ==
    /\ pc[t] = "idle" /\ MovesTo(t, "active")
    /\ attempt' = [attempt EXCEPT ![t] = @ + 1] /\ UNCHANGED hist /\ SameCounters

Records(t) == \E l \in Updating : \E h \in hist' :
    /\ pc[t] = "validateAll" /\ MovesTo(t, l)
    /\ h.tx = Me(t) /\ hist' = hist \cup {h} /\ UNCHANGED attempt /\ SameCounters

Aborts(t) == \E r \in Reason :
    /\ pc[t] # "idle" /\ pc[t] \notin Updating /\ MovesTo(t, "idle")
    /\ count(t, r) /\ UNCHANGED <<attempt, hist, G_TRANSACTIONS_STATS>>

Reports(t) ==
    /\ pc[t] \in Updating /\ MovesTo(t, "idle") /\ UNCHANGED <<attempt, hist>>
    /\ G_TRANSACTIONS_STATS' = [G_TRANSACTIONS_STATS EXCEPT ![nodeOf[t]] =
             [total_txs |-> @.total_txs + 1,
              total_aborts |-> @.total_aborts + stats[t].total_aborts,
              by |-> [r \in Reason |-> @.by[r] + stats[t].by[r]]]]
    /\ stats' = [stats EXCEPT ![t] = [total_aborts |-> 0, by |-> NoAborts]]

Kinds(t) == Runs(t) \/ Begins(t) \/ Records(t) \/ Aborts(t) \/ Reports(t)

\* A step that leaves all of it alone lets the attempt go on.
LEMMA SamePlace ==
    ASSUME CountTypes, NEW t \in Thread, UNCHANGED <<pc, attempt, hist>>, SameCounters
    PROVE  Runs(t)
<1>1. pc[t] \in PC /\ pc' = [pc EXCEPT ![t] = pc[t]]
  BY DEF CountTypes
<1> QED
  BY <1>1 DEF Runs, MovesTo

\* What the application starts: begins, goes on or, at a NULL address, aborts.
LEMMA ApplicationKinds ==
    ASSUME CountTypes, NEW t \in Thread, cachedApplication(t)
    PROVE  Kinds(t) /\ reason' = reason
<1>1. reason' = reason /\ UNCHANGED G_TRANSACTIONS_STATS
  BY DEF cachedApplication
<1> USE <1>1 DEF SameCounters
<1>2. CASE begin(t) /\ UNCHANGED stats
  BY <1>2 DEF begin, history, Kinds, Begins, MovesTo
<1>3. CASE commitReadOnly(t) /\ UNCHANGED stats
  BY <1>3 DEF commitReadOnly, StartValidateAll, Kinds, Runs, MovesTo, Updating, PC
<1>4. CASE commitUpdate(t) /\ UNCHANGED stats
  BY <1>4 DEF commitUpdate, history, Kinds, Runs, MovesTo, Updating, PC
<1>5. ASSUME NEW o \in Object, read(t, o) \/ write(t, o), UNCHANGED stats
      PROVE  Kinds(t)
  BY <1>5 DEF read, write, StartReadCell, history, Kinds, Runs, MovesTo, Updating, PC
<1>6. ASSUME NEW o \in Object, writeRead(t, o), UNCHANGED stats
      PROVE  Kinds(t)
  BY <1>6, SamePlace DEF writeRead, history, Kinds
<1>7. CASE invalidAccess(t) /\ count(t, "invmem")
  BY <1>7 DEF invalidAccess, abort, Clear, Kinds, Aborts, MovesTo, Updating, Reason
<1> QED
  BY <1>1, <1>2, <1>3, <1>4, <1>5, <1>6, <1>7 DEF cachedApplication

\* A failed validation aborts at once, or gives the locks back first.
LEMMA FailureKinds ==
    ASSUME CountTypes, NEW t \in Thread, failValidation(t), G_TRANSACTIONS_STATS' = G_TRANSACTIONS_STATS,
           pc[t] \in {"validate", "validateAll"}
    PROVE  Kinds(t) /\ reason' \in [Thread -> Reason]
<1> USE DEF SameCounters
<1>1. CASE pc[t] = "validateAll" /\ write_set[t] # {}
  BY <1>1 DEF failValidation, StartReleaseLocks, history, Kinds, Runs, MovesTo, Updating, PC,
              CountTypes, Reason
<1>2. CASE ~(pc[t] = "validateAll" /\ write_set[t] # {})
  BY <1>2 DEF failValidation, abort, Clear, Kinds, Aborts, MovesTo, Updating, Reason, CountTypes
<1> QED
  BY <1>1, <1>2

\* The library's loops go on; the last validation gives the commit its record.
LEMMA PlainKinds ==
    ASSUME CountTypes, NEW t \in Thread, plain(t)
    PROVE  Kinds(t) /\ reason' = reason
<1>1. reason' = reason /\ UNCHANGED <<stats, G_TRANSACTIONS_STATS>>
  BY DEF plain, statVars
<1> USE <1>1 DEF SameCounters
<1>2. CASE increaseClock(t)
  BY <1>2 DEF increaseClock, history, Kinds, Runs, MovesTo, Updating, PC
<1>3. CASE validated(t)
  BY <1>3 DEF validated, history, Kinds, Runs, MovesTo, Updating, PC
<1>4. CASE locksGranted(t)
  BY <1>4 DEF locksGranted, StartValidateAll, Kinds, Runs, MovesTo, Updating, PC
<1>5. CASE validatedAll(t)
  <2> DEFINE h == [tx |-> Me(t), pos |-> pos[t], acc |-> Accessed(t),
                   seen |-> [o \in Object |-> copy[t][o].val], writes |-> write_set[t]]
  <2>1. h.tx = Me(t)
    OBVIOUS
  <2>2. /\ pc[t] = "validateAll" /\ hist' = hist \cup {h} /\ UNCHANGED attempt
        /\ pc' = [pc EXCEPT ![t] = IF write_set[t] = {} THEN "getNextClock"
                                   ELSE "commitWriteSetValues"]
    BY <1>5 DEF validatedAll
  <2> HIDE DEF h
  <2> QED
    BY <2>1, <2>2 DEF Kinds, Records, MovesTo, Updating
<1>6. CASE getNextClock(t)
  BY <1>6 DEF getNextClock, history, Kinds, Runs, MovesTo, Updating, PC
<1>7. ASSUME NEW B, requestLocks(t, B)
      PROVE  Kinds(t)
  BY <1>7, SamePlace DEF requestLocks, history, Kinds
<1>8. ASSUME NEW o \in Object, loadVersion(t, o)
      PROVE  Kinds(t)
  BY <1>8 DEF loadVersion, history, Kinds, Runs, MovesTo, Updating, PC
<1>9. ASSUME NEW o \in Object, releaseLock(t, o)
      PROVE  Kinds(t)
  BY <1>9, SamePlace DEF releaseLock, history, Kinds
<1>10. ASSUME NEW o \in Object, NEW w \in Word, loadData(t, o, w)
       PROVE  Kinds(t)
  <2>1. CASE pc' = [pc EXCEPT ![t] = "recheck"]
    BY <1>10, <2>1 DEF loadData, history, Kinds, Runs, MovesTo, Updating, PC
  <2>2. CASE pc' = pc
    BY <1>10, <2>2, SamePlace DEF loadData, history, Kinds
  <2> QED
    BY <1>10, <2>1, <2>2 DEF loadData, CountTypes
<1>11. ASSUME NEW o \in Object, NEW w \in Word, commitWriteSetValues(t, o, w)
       PROVE  Kinds(t)
  <2>1. CASE pc' = [pc EXCEPT ![t] = "getNextClock"]
    BY <1>11, <2>1 DEF commitWriteSetValues, history, Kinds, Runs, MovesTo, Updating, PC
  <2>2. CASE pc' = pc
    BY <1>11, <2>2, SamePlace DEF commitWriteSetValues, history, Kinds
  <2> QED
    BY <1>11, <2>1, <2>2 DEF commitWriteSetValues, CountTypes
<1> QED
  BY <1>1, <1>2, <1>3, <1>4, <1>5, <1>6, <1>7, <1>8, <1>9, <1>10, <1>11 DEF plain

\* Only a validation has objects to look up.
LEMMA ValidatingPlaces ==
    ASSUME NEW t \in Thread, NEW o \in Validating(t)
    PROVE  pc[t] \in {"validate", "validateAll"}
  BY DEF Validating

\* Every abort of the library is counted, every commit reports.
LEMMA LibraryKinds ==
    ASSUME CountTypes, LookupsValidate, NEW t \in Thread, cachedLibrary(t)
    PROVE  Kinds(t) /\ reason' \in [Thread -> Reason]
<1>0. reason \in [Thread -> Reason]
  BY DEF CountTypes
<1> USE DEF SameCounters, statVars, cacheVars
<1>1. CASE plain(t)
  BY <1>0, <1>1, PlainKinds
<1>2. CASE cachedRefused(t)
  <2>1. reason' \in [Thread -> Reason]
    BY <1>0, <1>2 DEF cachedRefused, Reason
  <2>2. Runs(t)
    BY <1>2 DEF cachedRefused, locksRefused, StartReleaseLocks, history, Runs, MovesTo,
                Updating, PC
  <2> QED
    BY <2>1, <2>2 DEF Kinds
<1>3. CASE countedAbort(t)
  <2>1. ASSUME NEW o \in Object, cellLocked(t, o), count(t, "unknwn"), UNCHANGED reason
        PROVE  Aborts(t)
    BY <1>3, <2>1 DEF countedAbort, cellLocked, abort, Clear, Aborts, MovesTo, Updating, Reason
  <2>2. ASSUME locksReleased(t), count(t, ReleaseReason(t))
        PROVE  Aborts(t)
    <3>1. ReleaseReason(t) \in Reason
      BY <1>0 DEF ReleaseReason
    <3> QED
      BY <1>3, <2>2, <3>1 DEF countedAbort, locksReleased, abort, Clear, Aborts, MovesTo, Updating
  <2>3. reason' \in [Thread -> Reason]
    BY <1>0, <1>3 DEF countedAbort, Reason
  <2> QED
    BY <1>3, <2>1, <2>2, <2>3 DEF countedAbort, Kinds
<1>4. CASE countedCommit(t)
  <2>1. Reports(t)
    BY <1>4 DEF countedCommit, committed, Clear, Deleted, Reports, MovesTo, Updating
  <2> QED
    BY <1>0, <1>4, <2>1 DEF countedCommit, Kinds
<1>5. ASSUME NEW o \in Object, cachedRecheck(t, o)
      PROVE  Kinds(t) /\ reason' \in [Thread -> Reason]
  <2>1. Runs(t)
    BY <1>5 DEF cachedRecheck, recheckVersion, history, Runs, MovesTo, Updating, PC
  <2> QED
    BY <1>0, <1>5, <2>1 DEF cachedRecheck, Kinds
<1>6. ASSUME NEW o \in Object, homeAgrees(t, o)
      PROVE  Kinds(t) /\ reason' \in [Thread -> Reason]
  BY <1>0, <1>6, SamePlace DEF homeAgrees, validate, validateAll, history, Kinds
<1>7. ASSUME NEW o \in Object, homeRefuses(t, o)
      PROVE  Kinds(t) /\ reason' \in [Thread -> Reason]
  BY <1>7, ValidatingPlaces, FailureKinds DEF homeRefuses
<1>8. ASSUME NEW o \in Object, cachedRelease(t, o)
      PROVE  Kinds(t) /\ reason' \in [Thread -> Reason]
  BY <1>0, <1>8, SamePlace DEF cachedRelease, releaseLockWithNewClock, history, Kinds
<1>9. ASSUME NEW o \in Object, getCachedVersion(t, o)
      PROVE  Kinds(t) /\ reason' \in [Thread -> Reason]
  BY <1>0, <1>9, SamePlace DEF getCachedVersion, vars, history, Kinds
<1>10. CASE lockCache(t) \/ addVersionToCache(t)
  BY <1>0, <1>10, SamePlace DEF lockCache, addVersionToCache, vars, history, Kinds
<1>11. CASE readCachedVersion(t)
  <2>1. PICK k \in call[t] :
          /\ k.op = "found" /\ UNCHANGED G_TRANSACTIONS_STATS
          /\ failValidation(t) \/ UNCHANGED <<vars, stats, reason>>
    BY <1>11 DEF readCachedVersion
  <2>2. pc[t] \in {"validate", "validateAll"}
    BY <2>1 DEF LookupsValidate
  <2>3. CASE failValidation(t)
    BY <2>1, <2>2, <2>3, FailureKinds
  <2>4. CASE UNCHANGED <<vars, stats, reason>>
    BY <1>0, <2>1, <2>4, SamePlace DEF vars, history, Kinds
  <2> QED
    BY <2>1, <2>3, <2>4
<1> QED
  BY <1>1, <1>2, <1>3, <1>4, <1>5, <1>6, <1>7, <1>8, <1>9, <1>10, <1>11 DEF cachedLibrary

\* A handler ends no attempt of the thread that asked.
LEMMA HandlerKinds ==
    ASSUME CountTypes, NEW t \in Thread, cachedHandler(t)
    PROVE  Kinds(t) /\ reason' = reason /\ UNCHANGED <<pc, call>>
<1>1. UNCHANGED <<pc, attempt, hist, stats, reason, G_TRANSACTIONS_STATS, call>>
  BY DEF cachedHandler, Handler, loadLock, grabLock, refuseLock, locksRequestProcessed,
         history, statVars, cacheVars
<1> QED
  BY <1>1, SamePlace DEF Kinds, SameCounters

\* A thread does not leave its validation while it is in getCachedVersion.
LEMMA LookupsStep ==
    ASSUME CountTypes, LookupsValidate, NEW t \in Thread,
           cachedApplication(t) \/ cachedLibrary(t) \/ cachedHandler(t)
    PROVE  LookupsValidate'
<1> DEFINE Valid(u) == \A k \in call[u] :
              /\ "op" \in DOMAIN k
              /\ k.op = "found" => pc[u] \in {"validate", "validateAll"}
<1>0. call = [u \in Thread |-> call[u]] /\ \A u \in Thread : Valid(u)
  BY DEF LookupsValidate
<1>1. ASSUME UNCHANGED <<pc, call>>
      PROVE  LookupsValidate'
  BY <1>0, <1>1 DEF LookupsValidate
<1>2. \A u \in Thread : u # t => pc'[u] = pc[u]
  <2>1. Kinds(t)
    BY ApplicationKinds, LibraryKinds, HandlerKinds
  <2> QED
    BY <2>1 DEF Kinds, Runs, Begins, Records, Aborts, Reports, MovesTo, CountTypes
<1>3. ASSUME NEW S, call' = [call EXCEPT ![t] = S],
             \A k \in S : "op" \in DOMAIN k
                 /\ (k.op = "found" => pc'[t] \in {"validate", "validateAll"})
      PROVE  LookupsValidate'
  <2>1. call'[t] = S /\ \A u \in Thread : u # t => call'[u] = call[u]
    BY <1>0, <1>3
  <2>2. call' = [u \in Thread |-> call'[u]]
    BY <1>0, <1>3
  <2> QED
    BY <1>0, <1>2, <1>3, <2>1, <2>2 DEF LookupsValidate
<1>4. ASSUME NEW o, NEW v, callAdd(t, o, v)
      PROVE  LookupsValidate'
  <2> DEFINE S == IF LOCKBIT_TS(v) THEN {} ELSE {[op |-> "add", obj |-> o, ver |-> v]}
  <2>1. \A k \in S : "op" \in DOMAIN k /\ k.op = "add"
    OBVIOUS
  <2>2. call' = [call EXCEPT ![t] = S]
    BY <1>4 DEF callAdd
  <2> HIDE DEF S
  <2>3. \A k \in S : "op" \in DOMAIN k
                 /\ (k.op = "found" => pc'[t] \in {"validate", "validateAll"})
    BY <2>1
  <2> QED
    BY <1>3, <2>2, <2>3
<1>5. ASSUME call[t] = {}, UNCHANGED call
      PROVE  LookupsValidate'
  BY <1>0, <1>2, <1>5 DEF LookupsValidate
<1>6. CASE cachedHandler(t)
  BY <1>1, <1>6, HandlerKinds
<1>7. CASE cachedApplication(t)
  BY <1>5, <1>7 DEF cachedApplication, cacheVars
<1>8. CASE cachedLibrary(t)
  <2>1. CASE /\ call[t] = {}
             /\ plain(t) \/ cachedRefused(t) \/ countedAbort(t) \/ countedCommit(t)
                 \/ \E o \in Object : homeAgrees(t, o)
    BY <1>5, <2>1 DEF plain, cachedRefused, countedAbort, countedCommit, homeAgrees, cacheVars
  <2>2. ASSUME NEW o \in Object, call[t] = {}, cachedRecheck(t, o)
        PROVE  LookupsValidate'
    BY <1>4, <1>5, <2>2 DEF cachedRecheck
  <2>3. ASSUME NEW o \in Object, homeRefuses(t, o) \/ cachedRelease(t, o)
        PROVE  LookupsValidate'
    BY <1>4, <2>3 DEF homeRefuses, cachedRelease
  <2>4. ASSUME NEW o \in Object, call[t] = {}, getCachedVersion(t, o)
        PROVE  LookupsValidate'
    <3>1. pc' = pc /\ o \in Validating(t)
      BY <2>4 DEF getCachedVersion, vars
    <3>2. pc'[t] \in {"validate", "validateAll"}
      BY <3>1, ValidatingPlaces
    <3>3. CASE UNCHANGED call
      BY <1>5, <2>4, <3>3
    <3>4. CASE call' = [call EXCEPT ![t] = {[op |-> "found", obj |-> o, ver |-> InitialTS]}]
      <4> DEFINE S == {[op |-> "found", obj |-> o, ver |-> InitialTS]}
      <4>1. \A k \in S : "op" \in DOMAIN k
        OBVIOUS
      <4>2. call' = [call EXCEPT ![t] = S]
        BY <3>4
      <4> HIDE DEF S
      <4> QED
        BY <1>3, <3>2, <4>1, <4>2
    <3> QED
      BY <2>4, <3>3, <3>4 DEF getCachedVersion
  <2>5. CASE lockCache(t)
    <3>1. PICK k \in call[t] : /\ k.op = "add" /\ UNCHANGED vars
                               /\ call' = [call EXCEPT ![t] = {[k EXCEPT !.op = "adding"]}]
      BY <2>5 DEF lockCache
    <3>2. "op" \in DOMAIN k
      BY <1>0
    <3>3. "op" \in DOMAIN [k EXCEPT !.op = "adding"] /\ [k EXCEPT !.op = "adding"].op = "adding"
      BY <3>2
    <3>4. \A j \in {[k EXCEPT !.op = "adding"]} : "op" \in DOMAIN j
             /\ (j.op = "found" => pc'[t] \in {"validate", "validateAll"})
      BY <3>3
    <3> DEFINE S == {[k EXCEPT !.op = "adding"]}
    <3>5. call' = [call EXCEPT ![t] = S] /\ \A j \in S : "op" \in DOMAIN j
             /\ (j.op = "found" => pc'[t] \in {"validate", "validateAll"})
      BY <3>1, <3>4
    <3> HIDE DEF S
    <3> QED
      BY <1>3, <3>5
  <2>6. CASE addVersionToCache(t) \/ readCachedVersion(t)
    <3> DEFINE S == {}
    <3>1. call' = [call EXCEPT ![t] = S] /\ \A j \in S : FALSE
      BY <2>6 DEF addVersionToCache, readCachedVersion
    <3> HIDE DEF S
    <3> QED
      BY <1>3, <3>1
  <2> QED
    BY <1>8, <2>1, <2>2, <2>3, <2>4, <2>5, <2>6 DEF cachedLibrary
<1> QED
  BY <1>6, <1>7, <1>8

\* Sets that belong to threads, as one set of pairs.
Pairs(T, F) == UNION {{t} \X F[t] : t \in T}

\* What is in them.
LEMMA PairsOf ==
    ASSUME NEW T, NEW F, NEW x
    PROVE  x \in Pairs(T, F) <=> \E t \in T : \E i \in F[t] : x = <<t, i>>
  BY DEF Pairs

\* Finitely many finite sets give finitely many pairs.
LEMMA PairsFinite ==
    ASSUME NEW T, NEW F, IsFiniteSet(T), \A t \in T : IsFiniteSet(F[t])
    PROVE  IsFiniteSet(Pairs(T, F)) /\ Cardinality(Pairs(T, F)) \in Nat
<1> DEFINE g == [t \in T |-> {t} \X F[t]]
           I == {g[t] : t \in T}
<1>1. g \in Surjection(T, I)
  BY DEF Surjection
<1>2. IsFiniteSet(I)
  BY <1>1, FS_Surjection
<1>3. ASSUME NEW S \in I
      PROVE  IsFiniteSet(S)
  <2>1. PICK t \in T : S = {t} \X F[t]
    OBVIOUS
  <2>2. IsFiniteSet({t}) /\ IsFiniteSet(F[t])
    BY FS_Singleton
  <2>3. IsFiniteSet({t} \X F[t])
    BY <2>2, FS_Product
  <2> QED
    BY <2>1, <2>3
<1>4. UNION I = Pairs(T, F)
  BY DEF Pairs
<1>5. IsFiniteSet(UNION I)
  BY <1>2, <1>3, FS_UNION
<1> QED
  BY <1>4, <1>5, FS_CardinalityType

\* Equal sets give equal pairs.
LEMMA PairsSame ==
    ASSUME NEW T, NEW F, NEW H, \A t \in T : H[t] = F[t]
    PROVE  Pairs(T, H) = Pairs(T, F)
  BY DEF Pairs

\* One more element in one of the sets is one more pair.
LEMMA PairsAdded ==
    ASSUME NEW T, NEW F, NEW H, IsFiniteSet(T), \A t \in T : IsFiniteSet(F[t]),
           NEW u \in T, NEW x, x \notin F[u], H[u] = F[u] \cup {x},
           \A t \in T : t # u => H[t] = F[t]
    PROVE  Cardinality(Pairs(T, H)) = Cardinality(Pairs(T, F)) + 1
<1>1. <<u, x>> \notin Pairs(T, F)
  BY PairsOf
<1>2. Pairs(T, H) = Pairs(T, F) \cup {<<u, x>>}
  <2>1. ASSUME NEW y \in Pairs(T, H)
        PROVE  y \in Pairs(T, F) \cup {<<u, x>>}
    <3>1. PICK t \in T : \E i \in H[t] : y = <<t, i>>
      BY PairsOf
    <3>2. PICK i \in H[t] : y = <<t, i>>
      BY <3>1
    <3> QED
      BY <3>1, <3>2, PairsOf
  <2>2. ASSUME NEW y \in Pairs(T, F)
        PROVE  y \in Pairs(T, H)
    <3>1. PICK t \in T : \E i \in F[t] : y = <<t, i>>
      BY PairsOf
    <3>2. PICK i \in F[t] : y = <<t, i>>
      BY <3>1
    <3>3. i \in H[t]
      BY <3>2
    <3> QED
      BY <3>2, <3>3, PairsOf
  <2>3. <<u, x>> \in Pairs(T, H)
    BY PairsOf
  <2> QED
    BY <2>1, <2>2, <2>3
<1>3. IsFiniteSet(Pairs(T, F))
  BY PairsFinite
<1> QED
  BY <1>1, <1>2, <1>3, FS_AddElement

\* Emptying a set of c elements drops c pairs.
LEMMA PairsDropped ==
    ASSUME NEW T, NEW F, NEW H, IsFiniteSet(T), \A t \in T : IsFiniteSet(F[t]),
           NEW u \in T, NEW c \in Nat, F[u] = 1..c, H[u] = {},
           \A t \in T : t # u => H[t] = F[t]
    PROVE  Cardinality(Pairs(T, F)) = Cardinality(Pairs(T, H)) + c
<1> DEFINE U == {u} \X (1..c)
<1>1. Pairs(T, F) = Pairs(T, H) \cup U
  <2>1. ASSUME NEW y \in Pairs(T, F)
        PROVE  y \in Pairs(T, H) \cup U
    <3>1. PICK t \in T : \E i \in F[t] : y = <<t, i>>
      BY PairsOf
    <3>2. PICK i \in F[t] : y = <<t, i>>
      BY <3>1
    <3>3. CASE t = u
      BY <3>2, <3>3
    <3>4. CASE t # u
      BY <3>2, <3>4, PairsOf
    <3> QED
      BY <3>3, <3>4
  <2>2. ASSUME NEW y \in Pairs(T, H)
        PROVE  y \in Pairs(T, F)
    <3>1. PICK t \in T : \E i \in H[t] : y = <<t, i>>
      BY PairsOf
    <3>2. PICK i \in H[t] : y = <<t, i>>
      BY <3>1
    <3>3. i \in F[t]
      BY <3>2
    <3> QED
      BY <3>2, <3>3, PairsOf
  <2>3. U \subseteq Pairs(T, F)
    BY PairsOf
  <2> QED
    BY <2>1, <2>2, <2>3
<1>2. Pairs(T, H) \cap U = {}
  <2>1. ASSUME NEW y \in Pairs(T, H), y \in U
        PROVE  FALSE
    <3>1. PICK t \in T : \E i \in H[t] : y = <<t, i>>
      BY PairsOf
    <3> QED
      BY <2>1, <3>1
  <2> QED
    BY <2>1
<1>3. IsFiniteSet(Pairs(T, H)) /\ Cardinality(Pairs(T, H)) \in Nat
  <2>1. \A t \in T : IsFiniteSet(H[t])
    BY FS_EmptySet
  <2> QED
    BY <2>1, PairsFinite
<1>4. IsFiniteSet(U) /\ Cardinality(U) = c
  <2>1. IsFiniteSet(1..c) /\ Cardinality(1..c) = c
    BY FS_Interval
  <2>2. IsFiniteSet({u}) /\ Cardinality({u}) = 1
    BY FS_Singleton
  <2>3. IsFiniteSet(U) /\ Cardinality(U) = Cardinality({u}) * Cardinality(1..c)
    BY <2>1, <2>2, FS_Product
  <2> QED
    BY <2>1, <2>2, <2>3
<1>5. Cardinality(Pairs(T, H) \cup U) = Cardinality(Pairs(T, H)) + Cardinality(U)
                                          - Cardinality({})
  BY <1>2, <1>3, <1>4, FS_Union
<1> QED
  BY <1>1, <1>3, <1>4, <1>5, FS_EmptySet

\* The counters stay natural numbers, the reasons reasons.
LEMMA CountTypesStep ==
    ASSUME CountTypes, NEW t \in Thread, Kinds(t), reason' \in [Thread -> Reason]
    PROVE  CountTypes'
<1> DEFINE G == G_TRANSACTIONS_STATS
           Report == [total_txs : Nat, total_aborts : Nat, by : [Reason -> Nat]]
<1>0. /\ pc \in [Thread -> PC] /\ attempt \in [Thread -> Nat] /\ stats \in [Thread -> Counters]
      /\ G \in [Node -> Report] /\ nodeOf[t] \in Node
  BY ThreadAssumption DEF CountTypes
<1>1. pc' \in [Thread -> PC]
  BY <1>0 DEF Kinds, Runs, Begins, Records, Aborts, Reports, MovesTo, Updating, PC
<1>2. attempt' \in [Thread -> Nat]
  BY <1>0 DEF Kinds, Runs, Begins, Records, Aborts, Reports
<1>3. stats' \in [Thread -> Counters] /\ G' \in [Node -> Report]
  <2>1. CASE UNCHANGED <<stats, G>>
    BY <1>0, <2>1
  <2>2. ASSUME NEW r \in Reason, count(t, r), UNCHANGED G
        PROVE  stats' \in [Thread -> Counters] /\ G' \in [Node -> Report]
    <3>1. stats[t].total_aborts \in Nat /\ stats[t].by \in [Reason -> Nat]
      BY <1>0 DEF Counters
    <3>2. stats' = [stats EXCEPT ![t] = [total_aborts |-> stats[t].total_aborts + 1,
                                         by |-> [stats[t].by EXCEPT ![r] = @ + 1]]]
      <4>1. stats[t] = [total_aborts |-> stats[t].total_aborts, by |-> stats[t].by]
        BY <1>0 DEF Counters
      <4>2. stats' = [stats EXCEPT ![t] = [[stats[t] EXCEPT !.total_aborts = @ + 1]
                                             EXCEPT !.by[r] = @ + 1]]
        BY <1>0, <2>2 DEF count
      <4>3. [stats[t] EXCEPT !.total_aborts = @ + 1]
              = [total_aborts |-> stats[t].total_aborts + 1, by |-> stats[t].by]
        BY <4>1
      <4>4. [[total_aborts |-> stats[t].total_aborts + 1, by |-> stats[t].by]
                EXCEPT !.by[r] = @ + 1]
              = [total_aborts |-> stats[t].total_aborts + 1,
                 by |-> [stats[t].by EXCEPT ![r] = @ + 1]]
        OBVIOUS
      <4> QED
        BY <4>2, <4>3, <4>4
    <3>3. [total_aborts |-> stats[t].total_aborts + 1,
           by |-> [stats[t].by EXCEPT ![r] = @ + 1]] \in Counters
      BY <3>1 DEF Counters
    <3> QED
      BY <1>0, <2>2, <3>2, <3>3
  <2>3. CASE Reports(t)
    <3>1. stats[t].total_aborts \in Nat /\ stats[t].by \in [Reason -> Nat]
          /\ G[nodeOf[t]].total_txs \in Nat /\ G[nodeOf[t]].total_aborts \in Nat
          /\ G[nodeOf[t]].by \in [Reason -> Nat]
      BY <1>0 DEF Counters
    <3>2. [total_txs |-> G[nodeOf[t]].total_txs + 1,
           total_aborts |-> G[nodeOf[t]].total_aborts + stats[t].total_aborts,
           by |-> [r \in Reason |-> G[nodeOf[t]].by[r] + stats[t].by[r]]] \in Report
      BY <3>1
    <3>3. [total_aborts |-> 0, by |-> NoAborts] \in Counters
      BY DEF NoAborts, Counters
    <3> QED
      BY <1>0, <2>3, <3>2, <3>3 DEF Reports
  <2> QED
    BY <2>1, <2>2, <2>3 DEF Kinds, Runs, Begins, Records, Aborts, SameCounters
<1> QED
  BY <1>1, <1>2, <1>3 DEF CountTypes

\* An attempt in commit has its record from validateAll on, and only then.
LEMMA RecordsStep ==
    ASSUME CountTypes, RecordsOfCommits, NEW t \in Thread, Kinds(t)
    PROVE  RecordsOfCommits'
<1>0. /\ pc \in [Thread -> PC] /\ attempt \in [Thread -> Nat]
  BY DEF CountTypes
<1>1. ASSUME hist' = hist
      PROVE  \A u \in Thread, i \in Nat : Recorded(hist', u, i) <=> Recorded(hist, u, i)
  BY <1>1 DEF Recorded
<1>2. CASE Runs(t)
  <2>1. /\ UNCHANGED <<attempt, hist>> /\ \A u \in Thread : u # t => pc'[u] = pc[u]
        /\ pc'[t] # "idle" => pc[t] # "idle" /\ (pc'[t] \in Updating <=> pc[t] \in Updating)
    BY <1>0, <1>2 DEF Runs, MovesTo
  <2> QED
    BY <1>0, <1>1, <2>1 DEF RecordsOfCommits
<1>3. CASE Begins(t)
  <2>1. /\ pc[t] = "idle" /\ pc'[t] = "active" /\ hist' = hist /\ attempt'[t] = attempt[t] + 1
        /\ \A u \in Thread : u # t => pc'[u] = pc[u] /\ attempt'[u] = attempt[u]
    BY <1>0, <1>3 DEF Begins, MovesTo
  <2>2. attempt[t] \in Nat /\ attempt'[t] \in Nat /\ attempt'[t] >= 1
        /\ attempt'[t] > attempt[t]
    BY <1>0, <2>1
  <2>3. ~Recorded(hist, t, attempt'[t])
    BY <2>2 DEF RecordsOfCommits
  <2>4. "active" \notin Updating
    BY DEF Updating
  <2>5. \A u \in Thread : pc'[u] # "idle" =>
          attempt'[u] >= 1 /\ (Recorded(hist', u, attempt'[u]) <=> pc'[u] \in Updating)
    <3>1. ASSUME NEW u \in Thread, u # t, pc'[u] # "idle"
          PROVE  attempt'[u] >= 1 /\ (Recorded(hist', u, attempt'[u]) <=> pc'[u] \in Updating)
      BY <1>0, <1>1, <2>1, <3>1 DEF RecordsOfCommits
    <3> QED
      BY <1>1, <2>1, <2>2, <2>3, <2>4, <3>1
  <2>6. \A u \in Thread, i \in Nat : Recorded(hist', u, i) => i <= attempt'[u]
    <3>1. ASSUME NEW u \in Thread, NEW i \in Nat, Recorded(hist', u, i)
          PROVE  i <= attempt'[u]
      <4>1. i <= attempt[u] /\ attempt[u] \in Nat /\ attempt'[u] \in Nat
            /\ attempt[u] <= attempt'[u]
        BY <1>0, <1>1, <2>1, <2>2, <3>1 DEF RecordsOfCommits
      <4> QED
        BY <4>1
    <3> QED
      BY <3>1
  <2> QED
    BY <2>5, <2>6 DEF RecordsOfCommits, Recorded
<1>4. CASE Records(t)
  <2>1. PICK l \in Updating, h \in hist' : /\ pc[t] = "validateAll" /\ MovesTo(t, l) /\ h.tx = Me(t)
                                       /\ hist' = hist \cup {h} /\ UNCHANGED attempt
    BY <1>4 DEF Records
  <2>2. pc'[t] = l /\ \A u \in Thread : u # t => pc'[u] = pc[u]
    BY <1>0, <2>1 DEF MovesTo
  <2>3. \A u \in Thread, i \in Nat : Recorded(hist', u, i) <=> Recorded(hist, u, i) \/ <<u, i>> = Me(t)
    BY <2>1 DEF Recorded
  <2>4. Me(t) = <<t, attempt[t]>> /\ attempt[t] \in Nat /\ attempt[t] >= 1
    BY <1>0, <2>1 DEF Me, RecordsOfCommits
  <2>5. \A u \in Thread : pc'[u] # "idle" =>
          attempt'[u] >= 1 /\ (Recorded(hist', u, attempt'[u]) <=> pc'[u] \in Updating)
    BY <1>0, <2>1, <2>2, <2>3, <2>4 DEF RecordsOfCommits
  <2>6. \A u \in Thread, i \in Nat : Recorded(hist', u, i) => i <= attempt'[u]
    BY <1>0, <2>1, <2>3, <2>4 DEF RecordsOfCommits
  <2> QED
    BY <2>5, <2>6 DEF RecordsOfCommits, Recorded
<1>5. CASE Aborts(t) \/ Reports(t)
  <2>1. UNCHANGED <<attempt, hist>> /\ pc'[t] = "idle"
        /\ \A u \in Thread : u # t => pc'[u] = pc[u]
    BY <1>0, <1>5 DEF Aborts, Reports, MovesTo
  <2> QED
    BY <1>0, <1>1, <2>1 DEF RecordsOfCommits
<1> QED
  BY <1>2, <1>3, <1>4, <1>5 DEF Kinds

\* An abort adds the running attempt to the failed ones; nothing else does.
LEMMA AbortedStep ==
    ASSUME CountTypes, RecordsOfCommits, NEW t \in Thread, Kinds(t)
    PROVE  /\ \A u \in Thread : u # t => Aborted(u)' = Aborted(u)
           /\ ~Aborts(t) => Aborted(t)' = Aborted(t)
           /\ Aborts(t) => /\ Aborted(t)' = Aborted(t) \cup {attempt[t]}
                           /\ attempt[t] \notin Aborted(t)
<1>0. /\ pc \in [Thread -> PC] /\ attempt \in [Thread -> Nat]
  BY DEF CountTypes
<1> USE DEF Aborted
<1>1. ASSUME NEW u \in Thread, (pc'[u] = "idle") <=> (pc[u] = "idle"), attempt'[u] = attempt[u],
             hist' = hist
      PROVE  Aborted(u)' = Aborted(u)
  BY <1>1
<1>2. CASE Runs(t)
  <2>1. /\ UNCHANGED <<attempt, hist>>
        /\ \A u \in Thread : (pc'[u] = "idle") <=> (pc[u] = "idle")
    BY <1>0, <1>2 DEF Runs, MovesTo
  <2>2. \A u \in Thread : Aborted(u)' = Aborted(u)
    BY <1>1, <2>1
  <2>3. ~Aborts(t)
    BY <1>0, <2>1 DEF Aborts, MovesTo
  <2> QED
    BY <2>2, <2>3
<1>3. CASE Begins(t)
  <2>1. /\ pc[t] = "idle" /\ pc'[t] = "active" /\ hist' = hist /\ attempt'[t] = attempt[t] + 1
        /\ \A u \in Thread : u # t => pc'[u] = pc[u] /\ attempt'[u] = attempt[u]
        /\ attempt[t] \in Nat
    BY <1>0, <1>3 DEF Begins, MovesTo
  <2>2. \A u \in Thread : u # t => Aborted(u)' = Aborted(u)
    BY <1>1, <2>1
  <2>3. Aborted(t)' = {i \in 1..(attempt[t] + 1) : i # attempt[t] + 1
                                                /\ \A h \in hist : h.tx # <<t, i>>}
    BY <2>1
  <2>4. Aborted(t) = {i \in 1..attempt[t] : \A h \in hist : h.tx # <<t, i>>}
    BY <2>1
  <2>5. Aborted(t)' = Aborted(t)
    BY <2>1, <2>3, <2>4
  <2>6. ~Aborts(t)
    BY <2>1 DEF Aborts
  <2> QED
    BY <2>2, <2>5, <2>6
<1>4. CASE Records(t)
  <2>1. PICK l \in Updating, h \in hist' : /\ pc[t] = "validateAll" /\ MovesTo(t, l) /\ h.tx = Me(t)
                                       /\ hist' = hist \cup {h} /\ UNCHANGED attempt
    BY <1>4 DEF Records
  <2>2. pc'[t] = l /\ l # "idle" /\ \A u \in Thread : u # t => pc'[u] = pc[u]
    BY <1>0, <2>1 DEF MovesTo, Updating
  <2>3. h.tx = <<t, attempt[t]>>
    BY <2>1 DEF Me
  <2>4. ASSUME NEW u \in Thread, u # t
        PROVE  Aborted(u)' = Aborted(u)
    <3>1. \A i : h.tx # <<u, i>>
      BY <2>3, <2>4
    <3> QED
      BY <2>1, <2>2, <2>4, <3>1
  <2>5. Aborted(t)' = Aborted(t)
    <3>1. \A i : i # attempt[t] => h.tx # <<t, i>>
      BY <2>3
    <3> QED
      BY <2>1, <2>2, <3>1
  <2>6. ~Aborts(t)
    BY <1>0, <2>2 DEF Aborts, MovesTo
  <2> QED
    BY <2>4, <2>5, <2>6
<1>5. CASE Aborts(t)
  <2>1. UNCHANGED <<attempt, hist>> /\ pc'[t] = "idle" /\ pc[t] # "idle" /\ pc[t] \notin Updating
        /\ \A u \in Thread : u # t => pc'[u] = pc[u]
    BY <1>0, <1>5 DEF Aborts, MovesTo
  <2>2. attempt[t] \in 1..attempt[t] /\ \A h \in hist : h.tx # <<t, attempt[t]>>
    BY <1>0, <2>1 DEF RecordsOfCommits, Recorded
  <2>3. \A u \in Thread : u # t => Aborted(u)' = Aborted(u)
    BY <1>1, <2>1
  <2>4. Aborted(t)' = Aborted(t) \cup {attempt[t]} /\ attempt[t] \notin Aborted(t)
    BY <2>1, <2>2
  <2> QED
    BY <1>5, <2>3, <2>4
<1>6. CASE Reports(t)
  <2>1. UNCHANGED <<attempt, hist>> /\ pc'[t] = "idle" /\ pc[t] # "idle" /\ pc[t] \in Updating
        /\ \A u \in Thread : u # t => pc'[u] = pc[u]
    BY <1>0, <1>6 DEF Reports, MovesTo, Updating
  <2>2. \E h \in hist : h.tx = <<t, attempt[t]>>
    BY <2>1 DEF RecordsOfCommits, Recorded
  <2>3. \A u \in Thread : u # t => Aborted(u)' = Aborted(u)
    BY <1>1, <2>1
  <2>4. Aborted(t)' = Aborted(t)
    BY <2>1, <2>2
  <2>5. ~Aborts(t)
    BY <2>1 DEF Aborts
  <2> QED
    BY <2>3, <2>4, <2>5
<1> QED
  BY <1>2, <1>3, <1>4, <1>5, <1>6 DEF Kinds

\* One more abort for one reason is one more in all.
LEMMA ReasonsOne ==
    ASSUME NEW f \in [Reason -> Nat], NEW r \in Reason
    PROVE  AllReasons([f EXCEPT ![r] = @ + 1]) = AllReasons(f) + 1 /\ AllReasons(f) \in Nat
<1> DEFINE g == [f EXCEPT ![r] = @ + 1]
<1>1. /\ "rsval" \in Reason /\ "grablocks" \in Reason /\ "invmem" \in Reason
      /\ "unknwn" \in Reason
  BY DEF Reason
<1>2. /\ f["rsval"] \in Nat /\ f["grablocks"] \in Nat /\ f["invmem"] \in Nat
      /\ f["unknwn"] \in Nat
  BY <1>1
<1> SUFFICES AllReasons(g) = AllReasons(f) + 1
  BY <1>2 DEF AllReasons
<1>3. CASE r = "rsval"
  <2>1. /\ g["rsval"] = f["rsval"] + 1 /\ g["grablocks"] = f["grablocks"]
        /\ g["invmem"] = f["invmem"] /\ g["unknwn"] = f["unknwn"]
    BY <1>1, <1>3
  <2> HIDE DEF g
  <2> QED
    BY <1>2, <2>1 DEF AllReasons
<1>4. CASE r = "grablocks"
  <2>1. /\ g["rsval"] = f["rsval"] /\ g["grablocks"] = f["grablocks"] + 1
        /\ g["invmem"] = f["invmem"] /\ g["unknwn"] = f["unknwn"]
    BY <1>1, <1>4
  <2> HIDE DEF g
  <2> QED
    BY <1>2, <2>1 DEF AllReasons
<1>5. CASE r = "invmem"
  <2>1. /\ g["rsval"] = f["rsval"] /\ g["grablocks"] = f["grablocks"]
        /\ g["invmem"] = f["invmem"] + 1 /\ g["unknwn"] = f["unknwn"]
    BY <1>1, <1>5
  <2> HIDE DEF g
  <2> QED
    BY <1>2, <2>1 DEF AllReasons
<1>6. CASE r = "unknwn"
  <2>1. /\ g["rsval"] = f["rsval"] /\ g["grablocks"] = f["grablocks"]
        /\ g["invmem"] = f["invmem"] /\ g["unknwn"] = f["unknwn"] + 1
    BY <1>1, <1>6
  <2> HIDE DEF g
  <2> QED
    BY <1>2, <2>1 DEF AllReasons
<1> QED
  BY <1>3, <1>4, <1>5, <1>6 DEF Reason

\* Reports add up reason by reason.
LEMMA ReasonsSum ==
    ASSUME NEW f \in [Reason -> Nat], NEW g \in [Reason -> Nat]
    PROVE  AllReasons([r \in Reason |-> f[r] + g[r]]) = AllReasons(f) + AllReasons(g)
<1>1. /\ "rsval" \in Reason /\ "grablocks" \in Reason /\ "invmem" \in Reason
      /\ "unknwn" \in Reason
  BY DEF Reason
<1>2. /\ f["rsval"] \in Nat /\ f["grablocks"] \in Nat /\ f["invmem"] \in Nat
      /\ f["unknwn"] \in Nat
  BY <1>1
<1>3. /\ g["rsval"] \in Nat /\ g["grablocks"] \in Nat /\ g["invmem"] \in Nat
      /\ g["unknwn"] \in Nat
  BY <1>1
<1>4. AllReasons([r \in Reason |-> f[r] + g[r]])
        = (f["rsval"] + g["rsval"]) + (f["grablocks"] + g["grablocks"])
            + (f["invmem"] + g["invmem"]) + (f["unknwn"] + g["unknwn"])
  BY <1>1 DEF AllReasons
<1> QED
  BY <1>2, <1>3, <1>4 DEF AllReasons

\* A new descriptor has counted nothing.
LEMMA ReasonsNone == AllReasons(NoAborts) = 0 /\ NoAborts \in [Reason -> Nat]
  BY DEF AllReasons, NoAborts, Reason

\* What count does to a descriptor.
LEMMA CountedOne ==
    ASSUME CountTypes, NEW t \in Thread, NEW r \in Reason, count(t, r)
    PROVE  /\ stats' = [stats EXCEPT ![t] = [total_aborts |-> stats[t].total_aborts + 1,
                                             by |-> [stats[t].by EXCEPT ![r] = @ + 1]]]
           /\ stats[t].total_aborts \in Nat /\ stats[t].by \in [Reason -> Nat]
<1>0. stats \in [Thread -> Counters]
  BY DEF CountTypes
<1>1. stats[t] = [total_aborts |-> stats[t].total_aborts, by |-> stats[t].by]
  BY <1>0 DEF Counters
<1>2. stats' = [stats EXCEPT ![t] = [[stats[t] EXCEPT !.total_aborts = @ + 1]
                                       EXCEPT !.by[r] = @ + 1]]
  BY <1>0 DEF count
<1>3. [stats[t] EXCEPT !.total_aborts = @ + 1]
        = [total_aborts |-> stats[t].total_aborts + 1, by |-> stats[t].by]
  BY <1>1
<1>4. [[total_aborts |-> stats[t].total_aborts + 1, by |-> stats[t].by]
          EXCEPT !.by[r] = @ + 1]
        = [total_aborts |-> stats[t].total_aborts + 1,
           by |-> [stats[t].by EXCEPT ![r] = @ + 1]]
  OBVIOUS
<1> QED
  BY <1>0, <1>2, <1>3, <1>4 DEF Counters

\* count and the report at a commit keep the reasons and the total together.
LEMMA ReasonsStep ==
    ASSUME CountTypes, ReasonsAddUp, NEW t \in Thread, Kinds(t)
    PROVE  ReasonsAddUp'
<1> DEFINE G == G_TRANSACTIONS_STATS
<1>0. /\ stats \in [Thread -> Counters] /\ nodeOf[t] \in Node
      /\ G \in [Node -> [total_txs : Nat, total_aborts : Nat, by : [Reason -> Nat]]]
  BY ThreadAssumption DEF CountTypes
<1>1. CASE UNCHANGED <<stats, G>>
  BY <1>1 DEF ReasonsAddUp
<1>2. ASSUME NEW r \in Reason, count(t, r), UNCHANGED G
      PROVE  ReasonsAddUp'
  <2>1. /\ stats' = [stats EXCEPT ![t] = [total_aborts |-> stats[t].total_aborts + 1,
                                          by |-> [stats[t].by EXCEPT ![r] = @ + 1]]]
        /\ stats[t].by \in [Reason -> Nat]
    BY <1>2, CountedOne
  <2>2. /\ stats'[t].total_aborts = stats[t].total_aborts + 1
        /\ stats'[t].by = [stats[t].by EXCEPT ![r] = @ + 1]
        /\ \A u \in Thread : u # t => stats'[u] = stats[u]
    BY <1>0, <2>1
  <2>3. AllReasons(stats'[t].by) = AllReasons(stats[t].by) + 1
    BY <2>1, <2>2, ReasonsOne
  <2> QED
    BY <1>2, <2>2, <2>3 DEF ReasonsAddUp
<1>3. CASE Reports(t)
  <2> DEFINE n == nodeOf[t]
  <2>1. /\ stats[t].by \in [Reason -> Nat] /\ G[n].by \in [Reason -> Nat]
        /\ stats[t].total_aborts = AllReasons(stats[t].by)
        /\ G[n].total_aborts = AllReasons(G[n].by)
    BY <1>0 DEF ReasonsAddUp, Counters
  <2>2. /\ stats'[t] = [total_aborts |-> 0, by |-> NoAborts]
        /\ \A u \in Thread : u # t => stats'[u] = stats[u]
    BY <1>0, <1>3 DEF Reports
  <2>3. /\ G'[n] = [total_txs |-> G[n].total_txs + 1,
                    total_aborts |-> G[n].total_aborts + stats[t].total_aborts,
                    by |-> [r \in Reason |-> G[n].by[r] + stats[t].by[r]]]
        /\ \A m \in Node : m # n => G'[m] = G[m]
    BY <1>0, <1>3 DEF Reports
  <2>4. AllReasons(G'[n].by) = G[n].total_aborts + stats[t].total_aborts
    <3>1. G'[n].by = [r \in Reason |-> G[n].by[r] + stats[t].by[r]]
      BY <2>3
    <3>2. AllReasons([r \in Reason |-> G[n].by[r] + stats[t].by[r]])
            = AllReasons(G[n].by) + AllReasons(stats[t].by)
      BY <2>1, ReasonsSum
    <3> QED
      BY <2>1, <3>1, <3>2
  <2>5. G'[n].total_aborts = G[n].total_aborts + stats[t].total_aborts
    BY <2>3
  <2>6. stats'[t].total_aborts = AllReasons(stats'[t].by)
    BY <2>2, ReasonsNone
  <2> QED
    BY <2>2, <2>3, <2>4, <2>5, <2>6 DEF ReasonsAddUp
<1> QED
  BY <1>1, <1>2, <1>3 DEF Kinds, Runs, Begins, Records, Aborts, SameCounters

\* No abort is lost or counted twice in a step: an abort is one more failed
\* attempt and one more in the descriptor, a report moves what the descriptor
\* has to the node.
LEMMA AbortsStep ==
    ASSUME CountTypes, RecordsOfCommits, AbortsAddUp, NEW t \in Thread, Kinds(t)
    PROVE  AbortsAddUp'
<1> DEFINE G == G_TRANSACTIONS_STATS
           C == [u \in Thread |-> 1..stats[u].total_aborts]
           D == [u \in Thread |-> 1..stats'[u].total_aborts]
           F == [u \in Thread |-> Aborted(u)]
           H == [u \in Thread |-> Aborted(u)']
<1>0. /\ stats \in [Thread -> Counters] /\ nodeOf[t] \in Node /\ attempt \in [Thread -> Nat]
      /\ G \in [Node -> [total_txs : Nat, total_aborts : Nat, by : [Reason -> Nat]]]
  BY ThreadAssumption DEF CountTypes
<1>1. ASSUME NEW n \in Node
      PROVE  /\ IsFiniteSet(Here(n)) /\ Here(n) \subseteq Thread
             /\ Unreported(Here(n)) = Pairs(Here(n), C)
             /\ Unreported(Here(n))' = Pairs(Here(n), D)
             /\ Failed(Here(n)) = Pairs(Here(n), F)
             /\ Failed(Here(n))' = Pairs(Here(n), H)
  <2>1. Here(n) \subseteq Thread
    BY DEF Here
  <2>2. IsFiniteSet(Here(n))
    BY <2>1, FiniteThreads, FS_Subset
  <2> QED
    BY <2>1, <2>2 DEF Unreported, Failed, Pairs, Here
<1>2. ASSUME NEW u \in Thread
      PROVE  IsFiniteSet(C[u]) /\ IsFiniteSet(F[u])
  <2>1. stats[u].total_aborts \in Nat /\ attempt[u] \in Nat
    BY <1>0 DEF Counters
  <2>2. IsFiniteSet(1..stats[u].total_aborts) /\ IsFiniteSet(1..attempt[u])
    BY <2>1, FS_Interval
  <2>3. Aborted(u) \subseteq 1..attempt[u]
    BY DEF Aborted
  <2> QED
    BY <2>2, <2>3, FS_Subset
<1>3. \A n \in Node : /\ Cardinality(Pairs(Here(n), C)) \in Nat
                      /\ Cardinality(Pairs(Here(n), F)) \in Nat
                      /\ G[n].total_aborts + Cardinality(Pairs(Here(n), C))
                           = Cardinality(Pairs(Here(n), F))
                      /\ G[n].total_aborts \in Nat
  <2>1. ASSUME NEW n \in Node
        PROVE  Cardinality(Pairs(Here(n), C)) \in Nat /\ Cardinality(Pairs(Here(n), F)) \in Nat
    <3> HIDE DEF C, F
    <3>1. \A u \in Here(n) : IsFiniteSet(C[u]) /\ IsFiniteSet(F[u])
      BY <1>1, <1>2
    <3> QED
      BY <1>1, <3>1, PairsFinite
  <2> QED
    BY <1>0, <1>1, <2>1 DEF AbortsAddUp
<1>4. SUFFICES ASSUME NEW n \in Node
               PROVE  G'[n].total_aborts + Cardinality(Pairs(Here(n), D))
                        = Cardinality(Pairs(Here(n), H))
  BY <1>1 DEF AbortsAddUp
<1>5. \A u \in Thread : u # t => F[u] = H[u]
  BY AbortedStep
<1>6. \A u \in Here(n) : u \in Thread /\ IsFiniteSet(C[u]) /\ IsFiniteSet(F[u])
  BY <1>1, <1>2
<1>7. t \in Here(n) <=> nodeOf[t] = n
  BY DEF Here
<1>8. CASE UNCHANGED <<stats, G>> /\ ~Aborts(t)
  <2>1. \A u \in Thread : D[u] = C[u] /\ H[u] = F[u]
    BY <1>8, AbortedStep
  <2> HIDE DEF C, D, F, H
  <2>2. Pairs(Here(n), D) = Pairs(Here(n), C) /\ Pairs(Here(n), H) = Pairs(Here(n), F)
    BY <1>6, <2>1, PairsSame
  <2> QED
    BY <1>3, <1>8, <2>2
<1>9. CASE Aborts(t)
  <2>1. PICK r \in Reason : count(t, r) /\ UNCHANGED G
    BY <1>9 DEF Aborts
  <2> DEFINE c == stats[t].total_aborts
  <2>2. /\ stats' = [stats EXCEPT ![t] = [total_aborts |-> c + 1,
                                          by |-> [stats[t].by EXCEPT ![r] = @ + 1]]]
        /\ c \in Nat
    BY <2>1, CountedOne
  <2>3. stats'[t].total_aborts = c + 1 /\ \A u \in Thread : u # t => stats'[u] = stats[u]
    BY <1>0, <2>2
  <2>4. \A u \in Thread : u # t => D[u] = C[u]
    BY <2>3
  <2>5. D[t] = C[t] \cup {c + 1} /\ c + 1 \notin C[t]
    BY <2>2, <2>3
  <2>6. H[t] = F[t] \cup {attempt[t]} /\ attempt[t] \notin F[t]
    BY <1>9, AbortedStep
  <2> HIDE DEF C, D, F, H
  <2>7. CASE nodeOf[t] = n
    <3>1. Cardinality(Pairs(Here(n), D)) = Cardinality(Pairs(Here(n), C)) + 1
      BY <1>1, <1>6, <1>7, <2>4, <2>5, <2>7, PairsAdded
    <3>2. Cardinality(Pairs(Here(n), H)) = Cardinality(Pairs(Here(n), F)) + 1
      BY <1>1, <1>5, <1>6, <1>7, <2>6, <2>7, PairsAdded
    <3> QED
      BY <1>3, <2>1, <3>1, <3>2
  <2>8. CASE nodeOf[t] # n
    <3>1. Pairs(Here(n), D) = Pairs(Here(n), C) /\ Pairs(Here(n), H) = Pairs(Here(n), F)
      BY <1>5, <1>6, <1>7, <2>4, <2>8, PairsSame
    <3> QED
      BY <1>3, <2>1, <3>1
  <2> QED
    BY <2>7, <2>8
<1>10. CASE Reports(t)
  <2> DEFINE c == stats[t].total_aborts
  <2>1. ~Aborts(t)
    BY <1>10 DEF Aborts, Reports
  <2>2. \A u \in Thread : H[u] = F[u]
    BY <2>1, AbortedStep
  <2>3. stats'[t].total_aborts = 0 /\ \A u \in Thread : u # t => stats'[u] = stats[u]
    BY <1>0, <1>10 DEF Reports
  <2>4. C[t] = 1..c /\ c \in Nat /\ D[t] = {} /\ \A u \in Thread : u # t => D[u] = C[u]
    BY <1>0, <2>3 DEF Counters
  <2>5. G'[nodeOf[t]].total_aborts = G[nodeOf[t]].total_aborts + c
        /\ \A m \in Node : m # nodeOf[t] => G'[m] = G[m]
    BY <1>0, <1>10 DEF Reports
  <2> HIDE DEF C, D, F, H
  <2>6. Pairs(Here(n), H) = Pairs(Here(n), F)
    BY <1>6, <2>2, PairsSame
  <2>7. CASE nodeOf[t] = n
    <3>1. Cardinality(Pairs(Here(n), C)) = Cardinality(Pairs(Here(n), D)) + c
      BY <1>1, <1>6, <1>7, <2>4, <2>7, PairsDropped
    <3>2. Cardinality(Pairs(Here(n), D)) \in Nat
      <4>1. \A u \in Here(n) : IsFiniteSet(D[u])
        BY <1>6, <2>4, FS_EmptySet
      <4> QED
        BY <1>1, <4>1, PairsFinite
    <3> QED
      BY <1>3, <2>4, <2>5, <2>6, <2>7, <3>1, <3>2
  <2>8. CASE nodeOf[t] # n
    <3>1. Pairs(Here(n), D) = Pairs(Here(n), C)
      BY <1>6, <1>7, <2>4, <2>8, PairsSame
    <3> QED
      BY <1>3, <2>5, <2>6, <2>8, <3>1
  <2> QED
    BY <2>7, <2>8
<1>11. ASSUME Runs(t) \/ Begins(t) \/ Records(t), ~Aborts(t)
       PROVE  UNCHANGED <<stats, G>>
  BY <1>11 DEF Runs, Begins, Records, SameCounters
<1> QED
  BY <1>8, <1>9, <1>10, <1>11 DEF Kinds

\* The counters start at zero, with no attempt.
LEMMA CountStart == CacheInit => CountInv
<1> SUFFICES ASSUME CacheInit PROVE CountInv
  OBVIOUS
<1>1. /\ pc = [t \in Thread |-> "idle"] /\ attempt = [t \in Thread |-> 0] /\ hist = {}
      /\ call = [t \in Thread |-> {}] /\ reason = [t \in Thread |-> "unknwn"]
      /\ stats = [t \in Thread |-> [total_aborts |-> 0, by |-> NoAborts]]
      /\ G_TRANSACTIONS_STATS =
           [n \in Node |-> [total_txs |-> 0, total_aborts |-> 0, by |-> NoAborts]]
  BY DEF CacheInit, Init
<1>2. CountTypes
  <2>1. [total_aborts |-> 0, by |-> NoAborts] \in Counters
    BY ReasonsNone DEF Counters
  <2>2. [total_txs |-> 0, total_aborts |-> 0, by |-> NoAborts]
          \in [total_txs : Nat, total_aborts : Nat, by : [Reason -> Nat]]
    BY ReasonsNone
  <2>3. "idle" \in PC /\ "unknwn" \in Reason
    BY DEF PC, Reason
  <2> QED
    BY <1>1, <2>1, <2>2, <2>3 DEF CountTypes
<1>3. LookupsValidate /\ RecordsOfCommits
  BY <1>1 DEF LookupsValidate, RecordsOfCommits, Recorded
<1>4. ReasonsAddUp
  BY <1>1, ReasonsNone DEF ReasonsAddUp
<1>5. AbortsAddUp
  <2>1. \A t \in Thread : Aborted(t) = {} /\ 1..stats[t].total_aborts = {}
    BY <1>1 DEF Aborted
  <2>2. ASSUME NEW n \in Node
        PROVE  Unreported(Here(n)) = {} /\ Failed(Here(n)) = {}
    BY <2>1 DEF Unreported, Failed, Here
  <2>3. Cardinality({}) = 0
    BY FS_EmptySet
  <2>4. \A n \in Node : G_TRANSACTIONS_STATS[n].total_aborts = 0
    BY <1>1
  <2>5. \A n \in Node : /\ Cardinality(Unreported(Here(n))) = 0
                        /\ Cardinality(Failed(Here(n))) = 0
    BY <2>2, <2>3
  <2> QED
    BY <2>4, <2>5 DEF AbortsAddUp
<1> QED
  BY <1>2, <1>3, <1>4, <1>5 DEF CountInv

\* Steps beside the counters: those of others, and stuttering.
LEMMA CountSame ==
    ASSUME CountInv, UNCHANGED <<pc, attempt, hist, stats, reason, G_TRANSACTIONS_STATS, call>>
    PROVE  CountInv'
<1>1. CountTypes' /\ LookupsValidate' /\ RecordsOfCommits' /\ ReasonsAddUp'
  BY DEF CountInv, CountTypes, LookupsValidate, RecordsOfCommits, Recorded, ReasonsAddUp
<1>2. AbortsAddUp'
  <2>1. \A t \in Thread : Aborted(t)' = Aborted(t)
    BY DEF Aborted
  <2>2. \A n \in Node : Unreported(Here(n))' = Unreported(Here(n))
                        /\ Failed(Here(n))' = Failed(Here(n))
    BY <2>1 DEF Unreported, Failed, Here
  <2> QED
    BY <2>2 DEF CountInv, AbortsAddUp
<1> QED
  BY <1>1, <1>2 DEF CountInv

\* Every step keeps the invariant of the counters.
LEMMA CountStep ==
    ASSUME CountInv, [CacheNext]_allVars
    PROVE  CountInv'
<1> USE DEF CountInv
<1>1. CASE UNCHANGED allVars
  BY <1>1, CountSame DEF allVars, vars, history, statVars, cacheVars
<1>2. CASE Finished /\ UNCHANGED <<cacheVars, statVars>>
  BY <1>2, CountSame DEF Finished, vars, history, statVars, cacheVars
<1>3. ASSUME NEW t \in Thread, cachedApplication(t) \/ cachedLibrary(t) \/ cachedHandler(t)
      PROVE  CountInv'
  <2>1. Kinds(t) /\ reason' \in [Thread -> Reason]
    BY <1>3, ApplicationKinds, LibraryKinds, HandlerKinds DEF CountTypes
  <2> QED
    BY <1>3, <2>1, CountTypesStep, LookupsStep, RecordsStep, ReasonsStep, AbortsStep
<1> QED
  BY <1>1, <1>2, <1>3 DEF CacheNext

\* The invariant is what AbortsCounted says, and more.
LEMMA CountExact == CountInv => AbortsCounted
  BY DEF CountInv, AbortsAddUp, ReasonsAddUp, AbortsCounted, Here

(***************************************************************************)
(* AbortsCounted for any nodes, finitely many threads, and any number of   *)
(* attempts, reads and aborts, beside dstm_free or not: every abort of     *)
(* abort, _ITM_abortTransaction and _ITM_commitTransaction is counted      *)
(* once, in the descriptor or, after a commit, on the node.                *)
(***************************************************************************)
THEOREM AbortsExact ==
    /\ CacheSpec => []AbortsCounted
    /\ FreeSpec => []AbortsCounted
<1>1. CountInv /\ [CacheNext]_allVars => CountInv'
  BY CountStep
<1>2. CacheSpec => []AbortsCounted
  BY CountStart, CountExact, <1>1, PTL DEF CacheSpec
<1>3. FreeSpec => []AbortsCounted
  BY <1>2, FreeImplements, PTL
<1> QED
  BY <1>2, <1>3
=============================================================================
