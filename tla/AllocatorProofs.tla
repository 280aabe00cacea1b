--------------------------- MODULE AllocatorProofs ---------------------------
(***************************************************************************)
(* Blocks of dstm_malloc do not touch, for any nodes, threads, sizes and   *)
(* lock words.  Two calls of a node get different units since the counter  *)
(* moves under G_MALLOC_MTX; a reply that is still under way, a block the  *)
(* application has and a free that is still under way are each kept apart  *)
(* from the others.  The lock words putLocks writes are in front of all    *)
(* blocks while the node has words for what it has handed out.             *)
(***************************************************************************)
EXTENDS Allocator, TLAPS

\* A call whose units are taken, and which has not returned.
Granted(t) == m_pc[t] \in {"reply", "replied", "return"}

\* The units of a call.
from(t) == objects_addr + offset[t]
len(t)  == units(asked[t].size)

\* Runs of units that do not touch; a dstmfree message that names no unit of
\* one.
Apart(a, u, b, v) == a + u <= b \/ b + v <= a
Misses(p, a, u) == p.addr < a \/ p.addr >= a + u

\* What is known of a call by where it is.
CallsRunning ==
    \A t \in Client :
       /\ m_pc[t] # "idle" => m_calls[t] >= 1 /\ asked[t].size \in Size
       /\ mllcMtx[t] = 1 => m_pc[t] = "return"
       /\ m_pc[t] \in {"replied", "return"} =>
             mem_ptr[t] = [node |-> victim(t), addr |-> from(t)]

\* Who has the mutex has read the counter, which nobody else moves.
CounterHeld ==
    \A t \in Client : m_pc[t] = "locked" =>
        m_mutex[victim(t)] = t /\ offset[t] = ALL_UNITS[victim(t)]

\* Everything handed out is below the counter.
Within ==
    /\ \A t \in Client : Granted(t) => offset[t] + len(t) <= ALL_UNITS[victim(t)]
    /\ \A b \in live :
          /\ objects_addr <= b.ptr.addr
          /\ b.ptr.addr + units(b.size) <= objects_addr + ALL_UNITS[b.ptr.node]
    /\ \A p \in frees : p.addr < objects_addr + ALL_UNITS[p.node]

\* The units of a call that has not returned are no other call's, no block's
\* of the application, and no dstmfree under way is for them.
GrantsApart ==
    /\ \A t, u \in Client : Granted(t) /\ Granted(u) /\ t # u /\ victim(t) = victim(u) =>
          Apart(from(t), len(t), from(u), len(u))
    /\ \A t \in Client, b \in live : Granted(t) /\ victim(t) = b.ptr.node =>
          Apart(from(t), len(t), b.ptr.addr, units(b.size))
    /\ \A t \in Client, p \in frees : Granted(t) /\ victim(t) = p.node =>
          Misses(p, from(t), len(t))

\* Nor do the application's blocks touch, nor is one of them still to be freed.
LiveApart ==
    /\ \A b, c \in live : b # c /\ b.ptr.node = c.ptr.node =>
          Apart(b.ptr.addr, units(b.size), c.ptr.addr, units(c.size))
    /\ \A b \in live, p \in frees : b.ptr.node = p.node =>
          Misses(p, b.ptr.addr, units(b.size))

\* What a block says was written to it was written.
LiveFilled == \A b \in live : Units(b) \subseteq DOMAIN mem[b.ptr.node]

\* The inductive invariant of dstm_malloc and dstm_free.
MallocInv == /\ MallocTypeOK /\ CallsRunning /\ CounterHeld /\ Within
             /\ GrantsApart /\ LiveApart /\ LiveFilled /\ LiveIntact

\* The division of dstm_malloc rounds up.
LEMMA UnitsCover ==
    ASSUME NEW s \in Nat \ {0}
    PROVE  /\ units(s) \in Nat \ {0}
           /\ \A i \in Nat : i * UnitBytes < s <=> i < units(s)
<1> DEFINE q == s \div UnitBytes
           r == s % UnitBytes
<1>0. UnitBytes \in Nat \ {0}
  BY SizeAssumption
<1>1. q \in Nat /\ r \in 0..UnitBytes - 1 /\ s = UnitBytes * q + r
  BY <1>0
<1>2. units(s) = IF q * UnitBytes < s THEN q + 1 ELSE q
  BY DEF units
<1> HIDE DEF q, r
<1>3. q * UnitBytes = UnitBytes * q
  BY <1>0, <1>1
<1>4. units(s) = IF r > 0 THEN q + 1 ELSE q
  BY <1>0, <1>1, <1>2, <1>3
<1>5. units(s) \in Nat \ {0}
  <2>1. q = 0 => UnitBytes * q = 0
    BY <1>0
  <2> QED
    BY <1>0, <1>1, <1>4, <2>1
<1>6. ASSUME NEW i \in Nat
      PROVE  i * UnitBytes < s <=> i < units(s)
  <2>1. CASE i < q
    <3>1. q - i \in Nat /\ q - i >= 1 /\ (q - i) * UnitBytes >= UnitBytes
      BY <1>0, <1>1, <2>1
    <3>2. (q - i) * UnitBytes = q * UnitBytes - i * UnitBytes
      BY <1>0, <1>1
    <3> QED
      BY <1>0, <1>1, <1>3, <1>4, <2>1, <3>1, <3>2
  <2>2. CASE i = q
    BY <1>0, <1>1, <1>3, <1>4, <2>2
  <2>3. CASE i > q
    <3>1. i - q \in Nat /\ i - q >= 1 /\ (i - q) * UnitBytes >= UnitBytes
      BY <1>0, <1>1, <2>3
    <3>2. (i - q) * UnitBytes = i * UnitBytes - q * UnitBytes
      BY <1>0, <1>1
    <3> QED
      BY <1>0, <1>1, <1>3, <1>4, <2>3, <3>1, <3>2
  <2> QED
    BY <1>1, <2>1, <2>2, <2>3
<1> QED
  BY <1>5, <1>6

\* The bytes the application fills are the units it was given.
LEMMA FilledUnits ==
    ASSUME NEW p \in Pointer, NEW s \in Nat \ {0}
    PROVE  Filled(p, s) = p.addr..(p.addr + units(s) - 1)
<1>1. units(s) \in Nat \ {0} /\ \A i \in Nat : i * UnitBytes < s <=> i < units(s)
  BY UnitsCover
<1>2. p.addr \in Nat /\ UnitBytes \in Nat \ {0}
  BY SizeAssumption DEF Pointer
<1>3. {j \in 0..s : j * UnitBytes < s} = 0..units(s) - 1
  <2>1. ASSUME NEW j \in Nat, j * UnitBytes < s
        PROVE  j <= s
    <3>1. j * UnitBytes >= j
      BY <1>2
    <3> QED
      BY <1>2, <2>1, <3>1
  <2> QED
    BY <1>1, <2>1
<1>4. Filled(p, s) = {p.addr + i : i \in 0..units(s) - 1}
  BY <1>3 DEF Filled
<1>5. ASSUME NEW a \in p.addr..(p.addr + units(s) - 1)
      PROVE  \E i \in 0..units(s) - 1 : a = p.addr + i
  <2>1. a - p.addr \in 0..units(s) - 1 /\ a = p.addr + (a - p.addr)
    BY <1>1, <1>2
  <2> QED
    BY <2>1
<1> QED
  BY <1>1, <1>2, <1>4, <1>5

\* So are the units of a block.
LEMMA UnitsOf ==
    ASSUME NEW b, b.ptr.addr \in Nat, b.size \in Nat \ {0}
    PROVE  Units(b) = b.ptr.addr..(b.ptr.addr + units(b.size) - 1)
<1>1. units(b.size) \in Nat \ {0}
  BY UnitsCover
<1>2. ASSUME NEW a \in b.ptr.addr..(b.ptr.addr + units(b.size) - 1)
      PROVE  \E i \in 0..units(b.size) - 1 : a = b.ptr.addr + i
  <2>1. a - b.ptr.addr \in 0..units(b.size) - 1 /\ a = b.ptr.addr + (a - b.ptr.addr)
    BY <1>1
  <2> QED
    BY <2>1
<1> QED
  BY <1>1, <1>2 DEF Units

\* init puts the objects behind the lock words, and every lock word of an
\* object is one of them.
LEMMA ObjectsBehindLocks ==
    /\ objects_addr \in Nat /\ OBJECTS_COUNT < objects_addr
    /\ \A x \in Nat : x < OBJECTS_COUNT * CduUnits =>
          x \div CduUnits \in Nat /\ x \div CduUnits < OBJECTS_COUNT
<1>0. CduUnits \in Nat \ {0} /\ OBJECTS_COUNT \in Nat
  BY SizeAssumption
<1>1. objects_addr \in Nat /\ OBJECTS_COUNT < objects_addr
  <2> DEFINE q == OBJECTS_COUNT \div CduUnits
             r == OBJECTS_COUNT % CduUnits
  <2>1. q \in Nat /\ r \in 0..CduUnits - 1 /\ OBJECTS_COUNT = CduUnits * q + r
    BY <1>0
  <2>2. objects_addr = (q + 1) * CduUnits
    BY DEF objects_addr
  <2> HIDE DEF q, r
  <2>3. (q + 1) * CduUnits = CduUnits * q + CduUnits /\ CduUnits * q \in Nat
    BY <1>0, <2>1
  <2> QED
    BY <1>0, <2>1, <2>2, <2>3
<1>2. ASSUME NEW x \in Nat, x < OBJECTS_COUNT * CduUnits
      PROVE  x \div CduUnits \in Nat /\ x \div CduUnits < OBJECTS_COUNT
  <2> DEFINE q == x \div CduUnits
             r == x % CduUnits
  <2>1. q \in Nat /\ r \in 0..CduUnits - 1 /\ x = CduUnits * q + r
    BY <1>0
  <2> HIDE DEF q, r
  <2>2. CduUnits * q < CduUnits * OBJECTS_COUNT
    <3>1. OBJECTS_COUNT * CduUnits = CduUnits * OBJECTS_COUNT /\ CduUnits * q \in Nat
      BY <1>0, <2>1
    <3> QED
      BY <1>0, <1>2, <2>1, <3>1
  <2>3. q >= OBJECTS_COUNT => CduUnits * q >= CduUnits * OBJECTS_COUNT
    BY <1>0, <2>1
  <2>4. q < OBJECTS_COUNT
    BY <1>0, <2>1, <2>2, <2>3
  <2> QED
    BY <2>1, <2>4 DEF q
<1> QED
  BY <1>1, <1>2

\* Types of what is computed from a call.
LEMMA CallTypes ==
    ASSUME MallocTypeOK, CallsRunning, NEW t \in Client
    PROVE  /\ victim(t) \in Home /\ from(t) \in Nat /\ objects_addr \in Nat
           /\ m_pc[t] # "idle" => len(t) \in Nat \ {0} /\ <<t, m_calls[t]>> \in Call
           /\ m_pc[t] \in {"replied", "return"} => mem_ptr[t] \in Pointer
<1>1. objects_addr \in Nat
  BY ObjectsBehindLocks
<1>2. asked[t] \in [node : Home \cup {UINT_MAX}, size : Size \cup {0}] /\ offset[t] \in Nat
      /\ m_calls[t] \in 0..MaxMallocs
  BY DEF MallocTypeOK
<1>3. victim(t) \in Home
  BY <1>2, ClientAssumption DEF victim
<1>4. from(t) \in Nat
  BY <1>1, <1>2 DEF from
<1>5. m_pc[t] # "idle" => asked[t].size \in Nat \ {0} /\ m_calls[t] \in 1..MaxMallocs
  <2>1. m_pc[t] # "idle" => m_calls[t] >= 1 /\ asked[t].size \in Size
    BY DEF CallsRunning
  <2>2. m_calls[t] \in Nat /\ m_calls[t] <= MaxMallocs /\ MaxMallocs \in Nat
    BY <1>2, SizeAssumption
  <2>3. m_calls[t] >= 1 => m_calls[t] \in 1..MaxMallocs
    BY <2>2
  <2>4. asked[t].size \in Size => asked[t].size \in Nat \ {0}
    BY SizeAssumption
  <2> QED
    BY <2>1, <2>3, <2>4, Zenon
<1>6. m_pc[t] # "idle" => len(t) \in Nat \ {0} /\ <<t, m_calls[t]>> \in Call
  BY <1>5, UnitsCover DEF len, Call
<1>7. m_pc[t] \in {"replied", "return"} => mem_ptr[t] \in Pointer
  <2>1. m_pc[t] \in {"replied", "return"} =>
          mem_ptr[t] = [node |-> victim(t), addr |-> from(t)]
    BY DEF CallsRunning
  <2>2. [node |-> victim(t), addr |-> from(t)] \in Pointer
    BY <1>3, <1>4 DEF Pointer
  <2> QED
    BY <2>1, <2>2
<1> QED
  BY <1>1, <1>3, <1>4, <1>6, <1>7

\* A store changes what is written and nothing else.
LEMMA StoreTypes ==
    ASSUME NEW f, NEW S, NEW v \in Content, f \in [DOMAIN f -> Content]
    PROVE  /\ DOMAIN Store(f, S, v) = DOMAIN f \cup S
           /\ Store(f, S, v) \in [DOMAIN Store(f, S, v) -> Content]
           /\ \A a \in DOMAIN f \cup S : Store(f, S, v)[a] = IF a \in S THEN v ELSE f[a]
  BY DEF Store

\* A step that stores v in units of node n.
Writes(n, S, v) == mem' = [mem EXCEPT ![n] = Store(@, S, v)]

\* The segments after it.
LEMMA MemStored ==
    ASSUME MallocTypeOK, NEW n \in Home, NEW S, NEW v \in Content,
           Writes(n, S, v)
    PROVE  /\ mem' = [m \in Home |-> mem'[m]]
           /\ \A m \in Home : mem'[m] \in [DOMAIN mem'[m] -> Content]
           /\ DOMAIN mem'[n] = DOMAIN mem[n] \cup S
           /\ \A a \in DOMAIN mem[n] \cup S : mem'[n][a] = IF a \in S THEN v ELSE mem[n][a]
           /\ \A m \in Home : m # n => mem'[m] = mem[m]
<1>1. mem = [m \in Home |-> mem[m]] /\ \A m \in Home : mem[m] \in [DOMAIN mem[m] -> Content]
  BY DEF MallocTypeOK
<1>2. mem' = [m \in Home |-> IF m = n THEN Store(mem[n], S, v) ELSE mem[m]]
  BY <1>1 DEF Writes
<1>3. mem'[n] = Store(mem[n], S, v) /\ \A m \in Home : m # n => mem'[m] = mem[m]
  BY <1>2
<1>4. /\ DOMAIN mem'[n] = DOMAIN mem[n] \cup S
      /\ mem'[n] \in [DOMAIN mem'[n] -> Content]
      /\ \A a \in DOMAIN mem[n] \cup S : mem'[n][a] = IF a \in S THEN v ELSE mem[n][a]
  <2>1. mem[n] \in [DOMAIN mem[n] -> Content]
    BY <1>1
  <2>2. /\ DOMAIN Store(mem[n], S, v) = DOMAIN mem[n] \cup S
        /\ Store(mem[n], S, v) \in [DOMAIN Store(mem[n], S, v) -> Content]
        /\ \A a \in DOMAIN mem[n] \cup S :
              Store(mem[n], S, v)[a] = IF a \in S THEN v ELSE mem[n][a]
    BY <2>1, StoreTypes
  <2> QED
    BY <1>3, <2>2
<1>5. mem' = [m \in Home |-> mem'[m]]
  BY <1>2
<1> QED
  BY <1>1, <1>3, <1>4, <1>5

\* The segments hold known contents.
MemType == /\ mem = [n \in Home |-> mem[n]]
           /\ \A n \in Home : mem[n] \in [DOMAIN mem[n] -> Content]

\* Every step keeps the types.
LEMMA MallocTypeStep ==
    ASSUME MallocTypeOK, CallsRunning, MallocNext
    PROVE  MallocTypeOK'
<1>0. Lock \in Content /\ Clear \in Content /\ \A t \in Client : None \in Client \cup {None}
  BY DEF Content
<1> USE DEF MallocTypeOK
<1>1. CASE AllReturned
  BY <1>1 DEF AllReturned, mallocVars, callVars
<1>2. ASSUME NEW t \in Client, NEW n \in Home \cup {UINT_MAX}, NEW s \in Size,
             dstm_malloc(t, n, s)
      PROVE  MallocTypeOK'
  <2>1. m_calls' \in [Client -> 0..MaxMallocs]
    BY <1>2, SizeAssumption DEF dstm_malloc
  <2>2. asked' \in [Client -> [node : Home \cup {UINT_MAX}, size : Size \cup {0}]]
    BY <1>2 DEF dstm_malloc
  <2> QED
    BY <1>2, <2>1, <2>2 DEF dstm_malloc, Resume
<1>3. ASSUME NEW t \in Client, Malloc(t)
      PROVE  MallocTypeOK'
  <2>0. /\ victim(t) \in Home /\ from(t) \in Nat
        /\ m_pc[t] # "idle" => len(t) \in Nat /\ <<t, m_calls[t]>> \in Call
    BY CallTypes
  <2>1. [node |-> victim(t), addr |-> objects_addr + offset[t]] \in Pointer
    BY <2>0 DEF Pointer, from
  <2>2. CASE lockMalloc(t)
    BY <2>0, <2>2 DEF lockMalloc, Resume
  <2>3. CASE unlockMalloc(t)
    <3>1. ALL_UNITS' \in [Home -> Nat]
      BY <2>0, <2>3 DEF unlockMalloc, len
    <3>2. m_mutex' \in [Home -> Client \cup {None}]
      BY <2>3 DEF unlockMalloc
    <3>3. mem_ptr' \in [Client -> Pointer \cup {NoPointer}]
      BY <2>1, <2>3 DEF unlockMalloc
    <3> QED
      BY <2>3, <3>1, <3>2, <3>3 DEF unlockMalloc, Resume
  <2>4. CASE dstmmalloc_succ(t)
    <3>1. mem_ptr' \in [Client -> Pointer \cup {NoPointer}]
      BY <2>1, <2>4 DEF dstmmalloc_succ, succ
    <3> QED
      BY <2>4, <3>1 DEF dstmmalloc_succ, succ, Resume
  <2>5. CASE mallocReturns(t)
    <3>1. m_pc[t] = "return"
      BY <2>5 DEF mallocReturns, CallsRunning
    <3>2. mem_ptr[t] \in Pointer /\ <<t, m_calls[t]>> \in Content /\ asked[t].size \in Size
      BY <2>0, <3>1, CallTypes DEF Content, CallsRunning
    <3>3. live' \subseteq [call : Call, ptr : Pointer, size : Size]
      <4>1. [call |-> <<t, m_calls[t]>>, ptr |-> mem_ptr[t], size |-> asked[t].size]
              \in [call : Call, ptr : Pointer, size : Size]
        BY <2>0, <3>1, <3>2
      <4>2. live' = live \cup {[call |-> <<t, m_calls[t]>>, ptr |-> mem_ptr[t],
                                size |-> asked[t].size]}
        BY <2>5 DEF mallocReturns
      <4> QED
        BY <4>1, <4>2
    <3>4. mem_ptr[t].node \in Home
      BY <3>2 DEF Pointer
    <3>5. MemType'
      BY <2>5, <3>2, <3>4, MemStored DEF mallocReturns, MemType, Writes
    <3>6. asked' \in [Client -> [node : Home \cup {UINT_MAX}, size : Size \cup {0}]]
      BY <2>5 DEF mallocReturns, NothingAsked
    <3>7. offset' \in [Client -> Nat] /\ mllcMtx' \in [Client -> {0, 1}]
          /\ mem_ptr' \in [Client -> Pointer \cup {NoPointer}]
      BY <2>5 DEF mallocReturns
    <3> QED
      BY <2>5, <3>3, <3>5, <3>6, <3>7 DEF mallocReturns, Resume, MemType
  <2> QED
    BY <1>3, <2>2, <2>3, <2>4, <2>5 DEF Malloc
<1>4. ASSUME NEW t \in Client, NEW b \in live, dstm_free(t, b)
      PROVE  MallocTypeOK'
  <2>1. b.ptr \in Pointer /\ b.ptr.node \in Home
    BY DEF Pointer
  <2>2. MemType'
    <3>1. CASE UNCHANGED mem
      BY <3>1 DEF MemType
    <3>2. CASE dstm_freeHome(b.ptr)
      BY <1>0, <2>1, <3>2, MemStored DEF dstm_freeHome, MemType, Writes
    <3> QED
      BY <1>4, <3>1, <3>2 DEF dstm_free
  <2>3. frees' \subseteq Pointer
    BY <1>4, <2>1 DEF dstm_free
  <2> QED
    BY <1>4, <2>2, <2>3 DEF dstm_free, MemType, callVars
<1>5. ASSUME NEW b \in live, putLocks(b)
      PROVE  MallocTypeOK'
  <2>1. b.ptr \in Pointer /\ b.ptr.node \in Home
    BY DEF Pointer
  <2>2. MemType'
    BY <1>0, <1>5, <2>1, MemStored DEF putLocks, MemType, Writes
  <2> QED
    BY <1>5, <2>2 DEF putLocks, MemType, callVars
<1>6. ASSUME NEW p \in frees, dstmfree(p)
      PROVE  MallocTypeOK'
  <2>1. p \in Pointer /\ p.node \in Home
    BY DEF Pointer
  <2>2. MemType'
    BY <1>0, <1>6, <2>1, MemStored DEF dstmfree, dstm_freeHome, MemType, Writes
  <2> QED
    BY <1>6, <2>2 DEF dstmfree, MemType, callVars
<1> QED
  BY <1>1, <1>2, <1>3, <1>4, <1>5, <1>6 DEF MallocNext

\* A step of a call is none of another call.
LEMMA OthersKept ==
    ASSUME MallocTypeOK, NEW t \in Client, NEW u \in Client, u # t,
           Malloc(t) \/ \E n \in Home \cup {UINT_MAX}, s \in Size : dstm_malloc(t, n, s)
    PROVE  /\ m_pc'[u] = m_pc[u] /\ m_calls'[u] = m_calls[u] /\ asked'[u] = asked[u]
           /\ offset'[u] = offset[u] /\ mem_ptr'[u] = mem_ptr[u] /\ mllcMtx'[u] = mllcMtx[u]
           /\ victim(u)' = victim(u) /\ from(u)' = from(u) /\ len(u)' = len(u)
           /\ Granted(u)' = Granted(u)
<1>1. /\ m_pc'[u] = m_pc[u] /\ m_calls'[u] = m_calls[u] /\ asked'[u] = asked[u]
      /\ offset'[u] = offset[u] /\ mem_ptr'[u] = mem_ptr[u] /\ mllcMtx'[u] = mllcMtx[u]
  <2>1. CASE lockMalloc(t)
    BY <2>1 DEF lockMalloc, Resume, MallocTypeOK
  <2>2. CASE unlockMalloc(t)
    BY <2>2 DEF unlockMalloc, Resume, MallocTypeOK
  <2>3. CASE dstmmalloc_succ(t)
    BY <2>3 DEF dstmmalloc_succ, succ, Resume, MallocTypeOK
  <2>4. CASE mallocReturns(t)
    BY <2>4 DEF mallocReturns, Resume, MallocTypeOK
  <2>5. ASSUME NEW n, NEW s, dstm_malloc(t, n, s)
        PROVE  /\ m_pc'[u] = m_pc[u] /\ m_calls'[u] = m_calls[u] /\ asked'[u] = asked[u]
               /\ offset'[u] = offset[u] /\ mem_ptr'[u] = mem_ptr[u]
               /\ mllcMtx'[u] = mllcMtx[u]
    BY <2>5 DEF dstm_malloc, Resume, MallocTypeOK
  <2> QED
    BY <2>1, <2>2, <2>3, <2>4, <2>5 DEF Malloc
<1> QED
  BY <1>1 DEF victim, from, len, Granted

\* Every step keeps what is known of the calls.
LEMMA CallsRunningStep ==
    ASSUME MallocTypeOK, CallsRunning, NEW t \in Client,
           Malloc(t) \/ \E n \in Home \cup {UINT_MAX}, s \in Size : dstm_malloc(t, n, s)
    PROVE  CallsRunning'
<1> DEFINE Runs(u) ==
              /\ m_pc[u] # "idle" => m_calls[u] >= 1 /\ asked[u].size \in Size
              /\ mllcMtx[u] = 1 => m_pc[u] = "return"
              /\ m_pc[u] \in {"replied", "return"} =>
                    mem_ptr[u] = [node |-> victim(u), addr |-> from(u)]
<1>1. ASSUME NEW u \in Client, u # t
      PROVE  Runs(u)'
  BY <1>1, OthersKept DEF CallsRunning
<1>2. Runs(t)
  BY DEF CallsRunning
<1>3. Runs(t)'
  <2>1. CASE lockMalloc(t)
    BY <1>2, <2>1 DEF lockMalloc, Resume, MallocTypeOK
  <2>2. CASE unlockMalloc(t)
    <3>1. /\ m_pc[t] = "locked" /\ asked' = asked /\ offset' = offset /\ m_calls' = m_calls
          /\ mllcMtx' = mllcMtx
          /\ m_pc'[t] = IF asked[t].node = UINT_MAX THEN "return" ELSE "reply"
          /\ asked[t].node = UINT_MAX =>
                mem_ptr'[t] = [node |-> victim(t), addr |-> objects_addr + offset[t]]
      BY <2>2 DEF unlockMalloc, Resume, MallocTypeOK
    <3>2. victim(t)' = victim(t) /\ from(t)' = objects_addr + offset[t]
      BY <3>1 DEF victim, from
    <3> QED
      BY <1>2, <3>1, <3>2
  <2>3. CASE dstmmalloc_succ(t)
    <3>1. asked' = asked /\ offset' = offset /\ m_calls' = m_calls
      BY <2>3 DEF dstmmalloc_succ
    <3>2. victim(t)' = victim(t) /\ from(t)' = objects_addr + offset[t]
          /\ from(t) = objects_addr + offset[t]
      BY <3>1 DEF victim, from
    <3>3. CASE m_pc[t] = "reply"
      <4>1. /\ m_pc'[t] = "replied" /\ mllcMtx'[t] = mllcMtx[t]
            /\ mem_ptr'[t] = [node |-> victim(t), addr |-> objects_addr + offset[t]]
        BY <2>3, <3>3 DEF dstmmalloc_succ, succ, Resume, MallocTypeOK
      <4> QED
        BY <1>2, <3>1, <3>2, <3>3, <4>1
    <3>4. CASE m_pc[t] = "replied"
      <4>1. m_pc'[t] = "return" /\ mem_ptr'[t] = mem_ptr[t]
        BY <2>3, <3>4 DEF dstmmalloc_succ, succ, Resume, MallocTypeOK
      <4> QED
        BY <1>2, <3>1, <3>2, <3>4, <4>1
    <3> QED
      BY <2>3, <3>3, <3>4 DEF dstmmalloc_succ, succ
  <2>4. CASE mallocReturns(t)
    BY <2>4 DEF mallocReturns, Resume, MallocTypeOK
  <2>5. ASSUME NEW n, NEW s \in Size, dstm_malloc(t, n, s)
        PROVE  Runs(t)'
    <3>1. /\ m_pc[t] = "idle" /\ m_pc'[t] = "malloc" /\ m_calls'[t] = m_calls[t] + 1
          /\ asked'[t] = [node |-> n, size |-> s] /\ mllcMtx' = mllcMtx
      BY <2>5 DEF dstm_malloc, Resume, MallocTypeOK
    <3>2. m_calls'[t] >= 1
      BY <3>1, SizeAssumption DEF MallocTypeOK
    <3> QED
      BY <1>2, <3>1, <3>2
  <2> QED
    BY <2>1, <2>2, <2>3, <2>4, <2>5 DEF Malloc
<1> QED
  BY <1>1, <1>3 DEF CallsRunning

\* Only the call that has the mutex moves the counter of its node.
LEMMA CounterHeldStep ==
    ASSUME MallocTypeOK, CallsRunning, CounterHeld, NEW t \in Client,
           Malloc(t) \/ \E n \in Home \cup {UINT_MAX}, s \in Size : dstm_malloc(t, n, s)
    PROVE  CounterHeld'
<1> DEFINE Holds(u) == m_pc[u] = "locked" =>
                          m_mutex[victim(u)] = u /\ offset[u] = ALL_UNITS[victim(u)]
<1>0. victim(t) \in Home /\ t # None /\ \A u \in Client : victim(u) \in Home /\ u # None
  BY CallTypes, ClientAssumption
<1>1. ASSUME NEW u \in Client, u # t
      PROVE  Holds(u)'
  <2>0. Holds(u)
    BY DEF CounterHeld
  <2>1. m_pc'[u] = m_pc[u] /\ offset'[u] = offset[u] /\ victim(u)' = victim(u)
    BY <1>1, OthersKept
  <2>2. CASE lockMalloc(t)
    BY <1>0, <1>1, <2>0, <2>1, <2>2 DEF lockMalloc, Free, MallocTypeOK
  <2>3. CASE unlockMalloc(t)
    <3>1. m_mutex[victim(t)] = t
      BY <2>3 DEF unlockMalloc, CounterHeld
    <3> QED
      BY <1>0, <1>1, <2>0, <2>1, <2>3, <3>1 DEF unlockMalloc, MallocTypeOK
  <2>4. CASE UNCHANGED <<m_mutex, ALL_UNITS>>
    BY <2>0, <2>1, <2>4
  <2> QED
    BY <2>2, <2>3, <2>4 DEF Malloc, dstmmalloc_succ, mallocReturns, dstm_malloc
<1>2. Holds(t)'
  <2>1. CASE lockMalloc(t)
    <3>1. victim(t)' = victim(t)
      BY <2>1 DEF lockMalloc, victim
    <3> QED
      BY <1>0, <2>1, <3>1 DEF lockMalloc, MallocTypeOK
  <2>2. CASE ~lockMalloc(t)
    <3>1. m_pc'[t] # "locked"
      BY <2>2 DEF Malloc, unlockMalloc, dstmmalloc_succ, succ, mallocReturns, dstm_malloc,
                  Resume, MallocTypeOK
    <3> QED
      BY <3>1
  <2> QED
    BY <2>1, <2>2
<1> QED
  BY <1>1, <1>2 DEF CounterHeld

\* The part about units, and the part about what is in them.
Space == Within /\ GrantsApart /\ LiveApart

Contents == LiveFilled /\ LiveIntact

\* Types of a block.
LEMMA LiveTypes ==
    ASSUME MallocTypeOK, NEW b \in live
    PROVE  /\ b.ptr \in Pointer /\ b.ptr.node \in Home /\ b.ptr.addr \in Nat
           /\ b.size \in Nat \ {0} /\ units(b.size) \in Nat \ {0} /\ b.call \in Call
           /\ Units(b) = b.ptr.addr..(b.ptr.addr + units(b.size) - 1)
<1>1. b.ptr \in Pointer /\ b.size \in Size /\ b.call \in Call
  BY DEF MallocTypeOK
<1>2. b.ptr.node \in Home /\ b.ptr.addr \in Nat /\ b.size \in Nat \ {0}
  BY <1>1, SizeAssumption DEF Pointer
<1> QED
  BY <1>1, <1>2, UnitsCover, UnitsOf

\* Steps that take no units.
LEMMA NoNewGrant ==
    ASSUME Space, UNCHANGED <<ALL_UNITS, live, frees>>,
           \A u \in Client : Granted(u)' =>
               /\ Granted(u) /\ victim(u)' = victim(u) /\ offset'[u] = offset[u]
               /\ from(u)' = from(u) /\ len(u)' = len(u)
    PROVE  Space'
<1>1. Within'
  BY DEF Space, Within
<1>2. GrantsApart'
  BY DEF Space, GrantsApart, Apart, Misses
<1>3. LiveApart'
  BY DEF Space, LiveApart, Apart, Misses
<1> QED
  BY <1>1, <1>2, <1>3 DEF Space

\* The counter moves: the new units are above all that is in use.
LEMMA UnlockSpace ==
    ASSUME MallocTypeOK, CallsRunning, CounterHeld, Space, NEW t \in Client,
           unlockMalloc(t)
    PROVE  Space'
<1> DEFINE n == victim(t)
<1>0. /\ m_pc[t] = "locked" /\ n \in Home /\ len(t) \in Nat \ {0} /\ objects_addr \in Nat
      /\ offset[t] = ALL_UNITS[n] /\ ALL_UNITS[n] \in Nat
  BY CallTypes DEF unlockMalloc, CounterHeld, MallocTypeOK
<1>1. /\ ALL_UNITS' = [ALL_UNITS EXCEPT ![n] = @ + len(t)]
      /\ UNCHANGED <<asked, offset, live, frees>>
  BY DEF unlockMalloc, len
<1>2. \A u \in Client : /\ victim(u)' = victim(u) /\ offset'[u] = offset[u]
                        /\ from(u)' = from(u) /\ len(u)' = len(u)
                        /\ victim(u) \in Home /\ offset[u] \in Nat
                        /\ from(u) = objects_addr + offset[u]
  BY <1>1, CallTypes DEF victim, from, len, MallocTypeOK
<1>3. \A u \in Client : u # t => Granted(u)' = Granted(u)
  BY OthersKept DEF Malloc
<1>4. \A m \in Home : /\ ALL_UNITS[m] \in Nat /\ ALL_UNITS'[m] \in Nat
                      /\ ALL_UNITS'[m] >= ALL_UNITS[m]
      /\ ALL_UNITS'[n] = ALL_UNITS[n] + len(t)
  BY <1>0, <1>1 DEF MallocTypeOK
<1>5. ASSUME NEW u \in Client, Granted(u)
      PROVE  /\ offset[u] + len(u) <= ALL_UNITS[victim(u)] /\ len(u) \in Nat
             /\ u # t
  BY <1>0, <1>5, CallTypes DEF Space, Within, Granted
<1>6. \A b \in live : /\ b.ptr.node \in Home /\ b.ptr.addr \in Nat /\ units(b.size) \in Nat
                      /\ objects_addr <= b.ptr.addr
                      /\ b.ptr.addr + units(b.size) <= objects_addr + ALL_UNITS[b.ptr.node]
  BY LiveTypes DEF Space, Within
<1>7. \A p \in frees : /\ p.node \in Home /\ p.addr \in Nat
                       /\ p.addr < objects_addr + ALL_UNITS[p.node]
  BY DEF Space, Within, MallocTypeOK, Pointer
<1>8. Within'
  <2>1. ASSUME NEW u \in Client, Granted(u)'
        PROVE  offset'[u] + len(u)' <= ALL_UNITS'[victim(u)']
    <3>1. CASE u = t
      BY <1>0, <1>2, <1>4, <3>1
    <3>2. CASE u # t
      BY <1>2, <1>3, <1>4, <1>5, <2>1, <3>2
    <3> QED
      BY <3>1, <3>2
  <2>2. ASSUME NEW b \in live
        PROVE  b.ptr.addr + units(b.size) <= objects_addr + ALL_UNITS'[b.ptr.node]
    BY <1>0, <1>4, <1>6
  <2>3. ASSUME NEW p \in frees
        PROVE  p.addr < objects_addr + ALL_UNITS'[p.node]
    BY <1>0, <1>4, <1>7
  <2>4. \A u \in Client : Granted(u)' => (offset[u] + len(u) <= ALL_UNITS[victim(u)])'
    BY <2>1
  <2> QED
    BY <1>1, <1>6, <2>2, <2>3, <2>4 DEF Within
<1>9. GrantsApart'
  <2>1. ASSUME NEW u \in Client, Granted(u), victim(u) = n
        PROVE  /\ Apart(from(u), len(u), from(t), len(t))
               /\ Apart(from(t), len(t), from(u), len(u))
    BY <1>0, <1>2, <1>5, <2>1 DEF Apart
  <2>2. ASSUME NEW u \in Client, NEW w \in Client, Granted(u)', Granted(w)', u # w,
               victim(u) = victim(w)
        PROVE  Apart(from(u), len(u), from(w), len(w))
    BY <1>3, <2>1, <2>2 DEF Space, GrantsApart
  <2>3. ASSUME NEW u \in Client, NEW b \in live, Granted(u)', victim(u) = b.ptr.node
        PROVE  Apart(from(u), len(u), b.ptr.addr, units(b.size))
    <3>1. CASE u = t
      BY <1>0, <1>2, <1>6, <2>3, <3>1 DEF Apart
    <3>2. CASE u # t
      BY <1>3, <2>3, <3>2 DEF Space, GrantsApart
    <3> QED
      BY <3>1, <3>2
  <2>4. ASSUME NEW u \in Client, NEW p \in frees, Granted(u)', victim(u) = p.node
        PROVE  Misses(p, from(u), len(u))
    <3>1. CASE u = t
      BY <1>0, <1>2, <1>7, <2>4, <3>1 DEF Misses
    <3>2. CASE u # t
      BY <1>3, <2>4, <3>2 DEF Space, GrantsApart
    <3> QED
      BY <3>1, <3>2
  <2> QED
    BY <1>1, <1>2, <2>2, <2>3, <2>4 DEF GrantsApart, Apart, Misses
<1>10. LiveApart'
  BY <1>1 DEF Space, LiveApart, Apart, Misses
<1> QED
  BY <1>8, <1>9, <1>10 DEF Space

\* A call returns: its units become a block of the application.
LEMMA ReturnSpace ==
    ASSUME MallocTypeOK, CallsRunning, Space, NEW t \in Client, mallocReturns(t)
    PROVE  Space'
<1> DEFINE new == [call |-> <<t, m_calls[t]>>, ptr |-> mem_ptr[t], size |-> asked[t].size]
<1>0. m_pc[t] = "return" /\ Granted(t)
  BY DEF mallocReturns, CallsRunning, Granted
<1>1. mem_ptr[t] = [node |-> victim(t), addr |-> from(t)] /\ victim(t) \in Home
      /\ from(t) \in Nat /\ len(t) \in Nat \ {0}
  BY <1>0, CallTypes DEF CallsRunning
<1>2. new.ptr.node = victim(t) /\ new.ptr.addr = from(t) /\ units(new.size) = len(t)
  BY <1>1 DEF len
<1>3. live' = live \cup {new} /\ UNCHANGED <<ALL_UNITS, frees>> /\ m_pc'[t] = "idle"
  BY DEF mallocReturns, Resume, MallocTypeOK
<1>4. /\ ~Granted(t)'
      /\ \A u \in Client : u # t =>
            /\ Granted(u)' = Granted(u) /\ victim(u)' = victim(u) /\ offset'[u] = offset[u]
            /\ from(u)' = from(u) /\ len(u)' = len(u)
  BY <1>3, OthersKept DEF Malloc, Granted
<1> HIDE DEF new
<1>5. Within'
  <2>1. objects_addr <= from(t) /\ from(t) + len(t) <= objects_addr + ALL_UNITS[victim(t)]
    <3>1. offset[t] + len(t) <= ALL_UNITS[victim(t)]
      BY <1>0 DEF Space, Within
    <3>2. from(t) = objects_addr + offset[t] /\ objects_addr \in Nat /\ offset[t] \in Nat
          /\ ALL_UNITS[victim(t)] \in Nat
      BY <1>1, ObjectsBehindLocks DEF from, MallocTypeOK
    <3> QED
      BY <1>1, <3>1, <3>2
  <2>2. \A u \in Client : Granted(u)' => (offset[u] + len(u) <= ALL_UNITS[victim(u)])'
    BY <1>3, <1>4 DEF Space, Within
  <2>3. \A b \in live' : objects_addr <= b.ptr.addr
              /\ b.ptr.addr + units(b.size) <= objects_addr + ALL_UNITS[b.ptr.node]
    BY <1>2, <1>3, <2>1 DEF Space, Within
  <2> QED
    BY <1>3, <2>2, <2>3 DEF Space, Within
<1>6. GrantsApart'
  <2>1. ASSUME NEW u \in Client, Granted(u), u # t, victim(u) = victim(t)
        PROVE  Apart(from(u), len(u), from(t), len(t))
    BY <1>0, <2>1 DEF Space, GrantsApart
  <2>2. \A u \in Client, b \in live' : Granted(u)' /\ victim(u)' = b.ptr.node =>
           Apart(from(u)', len(u)', b.ptr.addr, units(b.size))
    BY <1>2, <1>3, <1>4, <2>1 DEF Space, GrantsApart
  <2>3. \A u, w \in Client : Granted(u)' /\ Granted(w)' /\ u # w /\ victim(u)' = victim(w)' =>
           Apart(from(u)', len(u)', from(w)', len(w)')
    BY <1>4 DEF Space, GrantsApart
  <2>4. \A u \in Client, p \in frees : Granted(u)' /\ victim(u)' = p.node =>
           Misses(p, from(u)', len(u)')
    BY <1>4 DEF Space, GrantsApart
  <2> QED
    BY <1>3, <2>2, <2>3, <2>4 DEF GrantsApart, Apart, Misses
<1>7. LiveApart'
  <2>1. ASSUME NEW b \in live, b.ptr.node = victim(t)
        PROVE  /\ Apart(from(t), len(t), b.ptr.addr, units(b.size))
               /\ Apart(b.ptr.addr, units(b.size), from(t), len(t))
    BY <1>0, <2>1 DEF Space, GrantsApart, Apart
  <2>2. \A p \in frees : p.node = victim(t) => Misses(p, from(t), len(t))
    BY <1>0 DEF Space, GrantsApart
  <2>3. \A b, c \in live' : b # c /\ b.ptr.node = c.ptr.node =>
           Apart(b.ptr.addr, units(b.size), c.ptr.addr, units(c.size))
    BY <1>2, <1>3, <2>1 DEF Space, LiveApart
  <2>4. \A b \in live', p \in frees : b.ptr.node = p.node =>
           Misses(p, b.ptr.addr, units(b.size))
    BY <1>2, <1>3, <2>2 DEF Space, LiveApart
  <2> QED
    BY <1>3, <2>3, <2>4 DEF LiveApart, Apart, Misses
<1> QED
  BY <1>5, <1>6, <1>7 DEF Space

\* Steps that are no call's.
LEMMA CallsKept ==
    ASSUME UNCHANGED callVars
    PROVE  /\ UNCHANGED <<m_pc, m_calls, asked, offset, mem_ptr, mllcMtx>>
           /\ \A u \in Client :
                 /\ victim(u)' = victim(u) /\ from(u)' = from(u) /\ len(u)' = len(u)
                 /\ Granted(u)' = Granted(u)
<1>1. UNCHANGED <<m_pc, m_calls, asked, offset, mem_ptr, mllcMtx>>
  BY DEF callVars
<1> QED
  BY <1>1 DEF victim, from, len, Granted

\* dstm_free: the block is gone, at once or with a message on its way.
LEMMA FreeSpace ==
    ASSUME MallocTypeOK, Space, NEW t \in Client, NEW b \in live, dstm_free(t, b)
    PROVE  Space'
<1>1. /\ live' = live \ {b} /\ frees' \subseteq frees \cup {b.ptr}
      /\ UNCHANGED ALL_UNITS /\ UNCHANGED callVars
  BY DEF dstm_free
<1>2. UNCHANGED offset /\ \A u \in Client :
                 /\ victim(u)' = victim(u) /\ from(u)' = from(u) /\ len(u)' = len(u)
                 /\ Granted(u)' = Granted(u)
  BY <1>1, CallsKept
<1>3. /\ b.ptr.addr \in Nat /\ units(b.size) \in Nat \ {0} /\ objects_addr \in Nat
      /\ b.ptr.node \in Home /\ ALL_UNITS[b.ptr.node] \in Nat
  BY LiveTypes, ObjectsBehindLocks DEF MallocTypeOK
<1>4. Within'
  <2>1. b.ptr.addr < objects_addr + ALL_UNITS[b.ptr.node]
    <3>1. b.ptr.addr + units(b.size) <= objects_addr + ALL_UNITS[b.ptr.node]
      BY DEF Space, Within
    <3>2. \A x, y \in Nat, u \in Nat \ {0} : x + u <= y => x < y
      OBVIOUS
    <3>3. objects_addr + ALL_UNITS[b.ptr.node] \in Nat
      BY <1>3
    <3> QED
      BY <1>3, <3>1, <3>2, <3>3
  <2> QED
    BY <1>1, <1>2, <2>1 DEF Space, Within
<1>5. GrantsApart'
  <2>1. ASSUME NEW u \in Client, Granted(u), victim(u) = b.ptr.node
        PROVE  Misses(b.ptr, from(u), len(u))
    <3>1. Apart(from(u), len(u), b.ptr.addr, units(b.size))
      BY <2>1 DEF Space, GrantsApart
    <3>2. from(u) \in Nat /\ len(u) \in Int
      <4>1. offset[u] \in Nat /\ asked[u].size \in Size \cup {0} /\ UnitBytes \in Nat \ {0}
        BY SizeAssumption DEF MallocTypeOK
      <4>2. asked[u].size \in Nat
        <5>1. \A s \in Size : s \in Nat
          BY SizeAssumption
        <5> QED
          BY <4>1, <5>1
      <4>3. len(u) \in Int
        BY <4>1, <4>2 DEF len, units
      <4> QED
        BY <1>3, <4>1, <4>3 DEF from
    <3> QED
      BY <1>3, <3>1, <3>2 DEF Apart, Misses
  <2>2. \A u, w \in Client : Granted(u) /\ Granted(w) /\ u # w /\ victim(u) = victim(w) =>
           Apart(from(u), len(u), from(w), len(w))
    BY DEF Space, GrantsApart
  <2>3. \A u \in Client, c \in live' : Granted(u) /\ victim(u) = c.ptr.node =>
           Apart(from(u), len(u), c.ptr.addr, units(c.size))
    BY <1>1 DEF Space, GrantsApart
  <2>4. \A u \in Client, p \in frees' : Granted(u) /\ victim(u) = p.node =>
           Misses(p, from(u), len(u))
    BY <1>1, <2>1 DEF Space, GrantsApart
  <2> QED
    BY <1>2, <2>2, <2>3, <2>4 DEF GrantsApart, Apart, Misses
<1>6. LiveApart'
  <2>1. ASSUME NEW c \in live', c.ptr.node = b.ptr.node
        PROVE  Misses(b.ptr, c.ptr.addr, units(c.size))
    <3>1. c \in live /\ c # b
      BY <1>1
    <3>2. Apart(b.ptr.addr, units(b.size), c.ptr.addr, units(c.size))
      BY <2>1, <3>1 DEF Space, LiveApart
    <3>3. c.ptr.addr \in Nat /\ units(c.size) \in Nat
      BY <3>1, LiveTypes
    <3> QED
      BY <1>3, <3>2, <3>3 DEF Apart, Misses
  <2>2. \A c, d \in live' : c # d /\ c.ptr.node = d.ptr.node =>
           Apart(c.ptr.addr, units(c.size), d.ptr.addr, units(d.size))
    BY <1>1 DEF Space, LiveApart
  <2>3. \A c \in live', p \in frees' : c.ptr.node = p.node =>
           Misses(p, c.ptr.addr, units(c.size))
    BY <1>1, <2>1 DEF Space, LiveApart
  <2> QED
    BY <2>2, <2>3 DEF LiveApart, Apart, Misses
<1> QED
  BY <1>4, <1>5, <1>6 DEF Space

\* Steps that touch neither units nor blocks.
LEMMA SameSpace ==
    ASSUME Space, UNCHANGED <<ALL_UNITS, callVars, live>>, frees' \subseteq frees
    PROVE  Space'
<1>1. UNCHANGED offset /\ \A u \in Client :
                 /\ victim(u)' = victim(u) /\ from(u)' = from(u) /\ len(u)' = len(u)
                 /\ Granted(u)' = Granted(u)
  BY CallsKept
<1>2. Within'
  BY <1>1 DEF Space, Within
<1>3. GrantsApart'
  BY <1>1 DEF Space, GrantsApart, Apart, Misses
<1>4. LiveApart'
  BY DEF Space, LiveApart, Apart, Misses
<1> QED
  BY <1>2, <1>3, <1>4 DEF Space

\* Every step keeps blocks, calls and frees apart.
LEMMA SpaceStep ==
    ASSUME MallocTypeOK, CallsRunning, CounterHeld, Space, MallocNext
    PROVE  Space'
<1>1. CASE AllReturned
  BY <1>1, SameSpace DEF AllReturned, mallocVars
<1>2. ASSUME NEW t \in Client, Malloc(t) \/ \E n \in Home \cup {UINT_MAX}, s \in Size :
                                               dstm_malloc(t, n, s)
      PROVE  Space'
  <2>1. CASE unlockMalloc(t)
    BY <2>1, UnlockSpace
  <2>2. CASE mallocReturns(t)
    BY <2>2, ReturnSpace
  <2>3. CASE ~unlockMalloc(t) /\ ~mallocReturns(t)
    <3>1. UNCHANGED <<ALL_UNITS, live, frees>>
      BY <1>2, <2>3 DEF Malloc, lockMalloc, dstmmalloc_succ, dstm_malloc
    <3>2. Granted(t)' => Granted(t) /\ UNCHANGED <<asked, offset>>
      BY <1>2, <2>3 DEF Malloc, lockMalloc, dstmmalloc_succ, succ, dstm_malloc, Resume,
                        Granted, MallocTypeOK
    <3>3. Granted(t)' => /\ victim(t)' = victim(t) /\ offset'[t] = offset[t]
                         /\ from(t)' = from(t) /\ len(t)' = len(t)
      BY <3>2 DEF victim, from, len
    <3>4. \A u \in Client : u # t =>
               /\ Granted(u)' = Granted(u) /\ victim(u)' = victim(u)
               /\ offset'[u] = offset[u]
               /\ from(u)' = from(u) /\ len(u)' = len(u)
      BY <1>2, OthersKept
    <3> QED
      BY <3>1, <3>2, <3>3, <3>4, NoNewGrant
  <2> QED
    BY <2>1, <2>2, <2>3
<1>3. ASSUME NEW t \in Client, NEW b \in live, dstm_free(t, b)
      PROVE  Space'
  BY <1>3, FreeSpace
<1>4. ASSUME NEW b \in live, putLocks(b)
      PROVE  Space'
  BY <1>4, SameSpace DEF putLocks
<1>5. ASSUME NEW p \in frees, dstmfree(p)
      PROVE  Space'
  BY <1>5, SameSpace DEF dstmfree
<1> QED
  BY <1>1, <1>2, <1>3, <1>4, <1>5 DEF MallocNext

\* Steps that write no segment.
LEMMA KeptContents ==
    ASSUME MallocTypeOK, Contents, mem' = mem, live' \subseteq live,
           \A n \in Home : WithinLocks(n)' => WithinLocks(n)
    PROVE  Contents'
<1>1. \A b \in live' : b.ptr.node \in Home /\ Units(b)' = Units(b)
  BY LiveTypes DEF Units
<1>2. LiveFilled'
  BY <1>1 DEF Contents, LiveFilled
<1>3. LiveIntact'
  BY <1>1 DEF Contents, LiveIntact
<1> QED
  BY <1>2, <1>3 DEF Contents

\* Steps that write no unit of a block that must stay as it is.
LEMMA StoredContents ==
    ASSUME MallocTypeOK, Contents, NEW n \in Home, NEW S, NEW v \in Content,
           Writes(n, S, v),
           live' \subseteq live, ALL_UNITS' = ALL_UNITS,
           \A b \in live' : b.ptr.node = n /\ WithinLocks(n) => Units(b) \cap S = {}
    PROVE  Contents'
<1>1. /\ DOMAIN mem'[n] = DOMAIN mem[n] \cup S
      /\ \A a \in DOMAIN mem[n] \cup S : mem'[n][a] = IF a \in S THEN v ELSE mem[n][a]
      /\ \A m \in Home : m # n => mem'[m] = mem[m]
  BY MemStored
<1>2. ASSUME NEW b \in live'
      PROVE  /\ Units(b) \subseteq DOMAIN mem'[b.ptr.node]
             /\ WithinLocks(b.ptr.node) => \A a \in Units(b) : mem'[b.ptr.node][a] = b.call
  <2>1. b \in live /\ b.ptr.node \in Home
    BY <1>2, LiveTypes
  <2>2. /\ Units(b) \subseteq DOMAIN mem[b.ptr.node]
        /\ WithinLocks(b.ptr.node) => \A a \in Units(b) : mem[b.ptr.node][a] = b.call
    BY <2>1 DEF Contents, LiveFilled, LiveIntact
  <2>3. CASE b.ptr.node = n
    BY <1>1, <2>2, <2>3
  <2>4. CASE b.ptr.node # n
    BY <1>1, <2>1, <2>2, <2>4
  <2> QED
    BY <2>3, <2>4
<1>3. \A m : WithinLocks(m)' = WithinLocks(m)
  BY DEF WithinLocks
<1>4. LiveFilled'
  BY <1>2 DEF LiveFilled, Units
<1>5. LiveIntact'
  BY <1>2, <1>3 DEF LiveIntact, Units
<1> QED
  BY <1>4, <1>5 DEF Contents

\* Runs that do not touch share no unit.
LEMMA UnitsApart ==
    ASSUME NEW a \in Nat, NEW u \in Nat, NEW b \in Nat, NEW v \in Nat, Apart(a, u, b, v)
    PROVE  (a..(a + u - 1)) \cap (b..(b + v - 1)) = {}
  BY DEF Apart

\* dstmfree clears a unit that is no block's.
LEMMA FreedContents ==
    ASSUME MallocTypeOK, Contents, NEW p \in Pointer, dstm_freeHome(p),
           live' \subseteq live, ALL_UNITS' = ALL_UNITS,
           \A b \in live' : b.ptr.node = p.node => Misses(p, b.ptr.addr, units(b.size))
    PROVE  Contents'
<1>1. p.node \in Home /\ p.addr \in Nat /\ Clear \in Content
  BY DEF Pointer, Content
<1>2. ASSUME NEW b \in live', b.ptr.node = p.node
      PROVE  Units(b) \cap Cleared(p) = {}
  <2>1. /\ Units(b) = b.ptr.addr..(b.ptr.addr + units(b.size) - 1)
        /\ b.ptr.addr \in Nat /\ units(b.size) \in Nat
    BY <1>2, LiveTypes
  <2>2. Misses(p, b.ptr.addr, units(b.size))
    BY <1>2
  <2>3. p.addr \notin b.ptr.addr..(b.ptr.addr + units(b.size) - 1)
    BY <1>1, <2>1, <2>2 DEF Misses
  <2> QED
    BY <2>1, <2>3 DEF Cleared
<1> QED
  BY <1>1, <1>2, StoredContents DEF dstm_freeHome, Writes

\* putLocks writes lock words in front of every block, as long as the node
\* has words for what it has handed out.
LEMMA LocksContents ==
    ASSUME MallocTypeOK, Space, Contents, NEW b \in live, putLocks(b)
    PROVE  Contents'
<1> DEFINE n == b.ptr.node
           at == {getObjectLockAddr(b.ptr.addr + i) : i \in 0..units(b.size) - 1}
<1>1. /\ n \in Home /\ b.ptr.addr \in Nat /\ units(b.size) \in Nat \ {0}
      /\ Lock \in Content /\ objects_addr \in Nat /\ OBJECTS_COUNT < objects_addr
      /\ ALL_UNITS[n] \in Nat /\ OBJECTS_COUNT \in Nat /\ CduUnits \in Nat
  BY LiveTypes, ObjectsBehindLocks, SizeAssumption DEF Content, MallocTypeOK
<1>2. /\ objects_addr <= b.ptr.addr
      /\ b.ptr.addr + units(b.size) <= objects_addr + ALL_UNITS[n]
  BY DEF Space, Within
<1>3. ASSUME WithinLocks(n), NEW i \in 0..units(b.size) - 1
      PROVE  /\ getObjectLockAddr(b.ptr.addr + i) \in Nat
             /\ getObjectLockAddr(b.ptr.addr + i) < OBJECTS_COUNT
  <2> DEFINE x == (b.ptr.addr + i) - objects_addr
  <2>1. x \in Nat /\ x < ALL_UNITS[n]
    BY <1>1, <1>2
  <2>2. ALL_UNITS[n] <= OBJECTS_COUNT * CduUnits /\ OBJECTS_COUNT * CduUnits \in Nat
    BY <1>1, <1>3 DEF WithinLocks
  <2>3. x < OBJECTS_COUNT * CduUnits
    BY <1>1, <2>1, <2>2
  <2>4. x \div CduUnits \in Nat /\ x \div CduUnits < OBJECTS_COUNT
    BY <2>1, <2>3, ObjectsBehindLocks
  <2>5. getObjectLockAddr(b.ptr.addr + i) = x \div CduUnits
    BY DEF getObjectLockAddr
  <2> QED
    BY <2>4, <2>5
<1>4. ASSUME NEW c \in live', c.ptr.node = n, WithinLocks(n)
      PROVE  Units(c) \cap at = {}
  <2>1. c \in live
    BY <1>4 DEF putLocks
  <2>2. /\ Units(c) = c.ptr.addr..(c.ptr.addr + units(c.size) - 1)
        /\ c.ptr.addr \in Nat /\ units(c.size) \in Nat /\ objects_addr <= c.ptr.addr
    BY <2>1, LiveTypes DEF Space, Within
  <2>3. ASSUME NEW a \in Units(c), a \in at
        PROVE  FALSE
    <3>1. a \in Nat /\ a < OBJECTS_COUNT
      BY <1>3, <1>4, <2>3
    <3>2. a >= objects_addr
      BY <1>1, <2>2, <2>3
    <3> QED
      BY <1>1, <3>1, <3>2
  <2> QED
    BY <2>3
<1>5. live' \subseteq live /\ ALL_UNITS' = ALL_UNITS
      /\ Writes(n, at, Lock)
  BY DEF putLocks, Writes
<1> QED
  BY <1>1, <1>4, <1>5, StoredContents

\* The application fills its new block.
LEMMA ReturnContents ==
    ASSUME MallocTypeOK, CallsRunning, Space, Contents, NEW t \in Client, mallocReturns(t)
    PROVE  Contents'
<1> DEFINE call == <<t, m_calls[t]>>
           p == mem_ptr[t]
           new == [call |-> call, ptr |-> p, size |-> asked[t].size]
           S == Filled(p, asked[t].size)
           n == p.node
<1>0. m_pc[t] = "return" /\ Granted(t)
  BY DEF mallocReturns, CallsRunning, Granted
<1>1. /\ p = [node |-> victim(t), addr |-> from(t)] /\ n \in Home /\ p \in Pointer
      /\ from(t) \in Nat /\ len(t) \in Nat \ {0} /\ call \in Content
      /\ asked[t].size \in Nat \ {0} /\ n = victim(t)
  <2>1. /\ p = [node |-> victim(t), addr |-> from(t)] /\ victim(t) \in Home
        /\ p \in Pointer /\ from(t) \in Nat /\ len(t) \in Nat \ {0} /\ call \in Call
    BY <1>0, CallTypes DEF CallsRunning
  <2>2. asked[t].size \in Size
    BY <1>0 DEF CallsRunning
  <2>3. \A s \in Size : s \in Nat \ {0}
    BY SizeAssumption
  <2> QED
    BY <2>1, <2>2, <2>3 DEF Content
<1>2. S = from(t)..(from(t) + len(t) - 1)
  BY <1>1, FilledUnits DEF len
<1>3. /\ live' = live \cup {new} /\ ALL_UNITS' = ALL_UNITS
      /\ Writes(n, S, call)
  BY DEF mallocReturns, Writes
<1>4. Units(new) = S /\ new.ptr.node = n /\ new.call = call
  <2>1. new.ptr = p /\ p.addr = from(t) /\ new.size = asked[t].size
        /\ units(new.size) = len(t)
    BY <1>1 DEF len
  <2>2. Units(new) = new.ptr.addr..(new.ptr.addr + units(new.size) - 1)
    BY <1>1, <2>1, UnitsOf
  <2> QED
    BY <1>2, <2>1, <2>2
<1>5. ASSUME NEW b \in live, b.ptr.node = n
      PROVE  Units(b) \cap S = {}
  <2>1. Apart(from(t), len(t), b.ptr.addr, units(b.size))
    BY <1>0, <1>1, <1>5 DEF Space, GrantsApart
  <2>2. /\ Units(b) = b.ptr.addr..(b.ptr.addr + units(b.size) - 1)
        /\ b.ptr.addr \in Nat /\ units(b.size) \in Nat
    BY LiveTypes
  <2>3. len(t) \in Nat
    BY <1>1
  <2>4. (from(t)..(from(t) + len(t) - 1))
           \cap (b.ptr.addr..(b.ptr.addr + units(b.size) - 1)) = {}
    BY <1>1, <2>1, <2>2, <2>3, UnitsApart
  <2> QED
    BY <1>2, <2>2, <2>4
<1>6. /\ DOMAIN mem'[n] = DOMAIN mem[n] \cup S
      /\ \A a \in DOMAIN mem[n] \cup S :
            mem'[n][a] = IF a \in S THEN call ELSE mem[n][a]
      /\ \A m \in Home : m # n => mem'[m] = mem[m]
  BY <1>1, <1>3, MemStored
<1> HIDE DEF call, p, new, S, n
<1>7. ASSUME NEW b \in live'
      PROVE  /\ Units(b) \subseteq DOMAIN mem'[b.ptr.node]
             /\ WithinLocks(b.ptr.node) => \A a \in Units(b) : mem'[b.ptr.node][a] = b.call
  <2>1. CASE b = new
    BY <1>4, <1>6, <2>1
  <2>2. CASE b \in live
    <3>1. b.ptr.node \in Home
      BY <2>2, LiveTypes
    <3>2. /\ Units(b) \subseteq DOMAIN mem[b.ptr.node]
          /\ WithinLocks(b.ptr.node) => \A a \in Units(b) : mem[b.ptr.node][a] = b.call
      BY <2>2 DEF Contents, LiveFilled, LiveIntact
    <3>3. CASE b.ptr.node = n
      BY <1>5, <1>6, <2>2, <3>2, <3>3
    <3>4. CASE b.ptr.node # n
      BY <1>6, <3>1, <3>2, <3>4
    <3> QED
      BY <3>3, <3>4
  <2> QED
    BY <1>3, <2>1, <2>2
<1>8. \A m : WithinLocks(m)' = WithinLocks(m)
  BY <1>3 DEF WithinLocks
<1>9. LiveFilled'
  BY <1>7 DEF LiveFilled, Units
<1>10. LiveIntact'
  BY <1>7, <1>8 DEF LiveIntact, Units
<1> QED
  BY <1>9, <1>10 DEF Contents

\* Every step keeps what is in the blocks.
LEMMA ContentsStep ==
    ASSUME MallocTypeOK, CallsRunning, Space, Contents, MallocNext, MallocTypeOK', Space'
    PROVE  Contents'
<1>0. \A n \in Home : ALL_UNITS' = ALL_UNITS => (WithinLocks(n)' => WithinLocks(n))
  BY DEF WithinLocks
<1>1. CASE AllReturned
  BY <1>0, <1>1, KeptContents DEF AllReturned, mallocVars
<1>2. ASSUME NEW t \in Client, Malloc(t) \/ \E n \in Home \cup {UINT_MAX}, s \in Size :
                                               dstm_malloc(t, n, s)
      PROVE  Contents'
  <2>1. CASE unlockMalloc(t)
    <3>1. \A n \in Home : WithinLocks(n)' => WithinLocks(n)
      <4>1. victim(t) \in Home /\ units(asked[t].size) \in Nat
        BY <2>1, CallTypes DEF unlockMalloc, len
      <4>2. \A n \in Home : ALL_UNITS[n] \in Nat /\ ALL_UNITS'[n] \in Nat
                              /\ ALL_UNITS[n] <= ALL_UNITS'[n]
        BY <2>1, <4>1 DEF unlockMalloc, MallocTypeOK
      <4>3. OBJECTS_COUNT * CduUnits \in Nat
        BY SizeAssumption
      <4> QED
        BY <4>2, <4>3 DEF WithinLocks
    <3> QED
      BY <2>1, <3>1, KeptContents DEF unlockMalloc
  <2>2. CASE mallocReturns(t)
    BY <2>2, ReturnContents
  <2>3. CASE ~unlockMalloc(t) /\ ~mallocReturns(t)
    <3>1. UNCHANGED <<mem, live, ALL_UNITS>>
      BY <1>2, <2>3 DEF Malloc, lockMalloc, dstmmalloc_succ, dstm_malloc
    <3> QED
      BY <1>0, <3>1, KeptContents
  <2> QED
    BY <2>1, <2>2, <2>3
<1>3. ASSUME NEW t \in Client, NEW b \in live, dstm_free(t, b)
      PROVE  Contents'
  <2>1. live' \subseteq live /\ ALL_UNITS' = ALL_UNITS /\ live' = live \ {b}
    BY <1>3 DEF dstm_free
  <2>2. b.ptr \in Pointer /\ b.ptr.addr \in Nat /\ units(b.size) \in Nat \ {0}
    BY LiveTypes
  <2>3. CASE dstm_freeHome(b.ptr)
    <3>1. ASSUME NEW c \in live', c.ptr.node = b.ptr.node
          PROVE  Misses(b.ptr, c.ptr.addr, units(c.size))
      <4>1. c \in live /\ c # b
        BY <2>1
      <4>2. Apart(b.ptr.addr, units(b.size), c.ptr.addr, units(c.size))
        BY <3>1, <4>1 DEF Space, LiveApart
      <4>3. c.ptr.addr \in Nat /\ units(c.size) \in Nat
        BY <4>1, LiveTypes
      <4> QED
        BY <2>2, <4>2, <4>3 DEF Apart, Misses
    <3> QED
      BY <2>1, <2>2, <2>3, <3>1, FreedContents
  <2>4. CASE mem' = mem
    BY <1>0, <2>1, <2>4, KeptContents
  <2> QED
    BY <1>3, <2>3, <2>4 DEF dstm_free
<1>4. ASSUME NEW b \in live, putLocks(b)
      PROVE  Contents'
  BY <1>4, LocksContents
<1>5. ASSUME NEW p \in frees, dstmfree(p)
      PROVE  Contents'
  <2>1. p \in Pointer /\ dstm_freeHome(p) /\ live' = live /\ ALL_UNITS' = ALL_UNITS
    BY <1>5 DEF dstmfree, MallocTypeOK
  <2>2. \A c \in live' : c.ptr.node = p.node => Misses(p, c.ptr.addr, units(c.size))
    BY <2>1 DEF Space, LiveApart
  <2> QED
    BY <2>1, <2>2, FreedContents
<1> QED
  BY <1>1, <1>2, <1>3, <1>4, <1>5 DEF MallocNext

\* The invariant holds before the first call.
LEMMA MallocInitInv ==
    ASSUME MallocInit
    PROVE  MallocInv
<1> USE DEF MallocInit
<1>1. MallocTypeOK
  <2>1. \A n \in Home : mem[n] = <<>> /\ <<>> \in [DOMAIN <<>> -> Content]
    OBVIOUS
  <2>2. ALL_UNITS \in [Home -> Nat] /\ m_mutex \in [Home -> Client \cup {None}]
    OBVIOUS
  <2>3. m_calls \in [Client -> 0..MaxMallocs]
    BY SizeAssumption
  <2>4. asked \in [Client -> [node : Home \cup {UINT_MAX}, size : Size \cup {0}]]
    BY DEF NothingAsked
  <2> QED
    BY <2>1, <2>2, <2>3, <2>4 DEF MallocTypeOK
<1>2. \A t \in Client : m_pc[t] = "idle" /\ mllcMtx[t] = 0
  OBVIOUS
<1>3. CallsRunning /\ CounterHeld /\ Within /\ GrantsApart /\ LiveApart /\ LiveFilled
      /\ LiveIntact
  BY <1>2 DEF CallsRunning, CounterHeld, Within, GrantsApart, LiveApart, LiveFilled,
              LiveIntact, Granted
<1> QED
  BY <1>1, <1>3 DEF MallocInv

\* Every step keeps it.
LEMMA MallocStepInv ==
    ASSUME MallocInv, [MallocNext]_mallocVars
    PROVE  MallocInv'
<1>0. MallocTypeOK /\ CallsRunning /\ CounterHeld /\ Space /\ Contents
  BY DEF MallocInv, Space, Contents
<1>1. CASE MallocNext
  <2>1. MallocTypeOK'
    BY <1>0, <1>1, MallocTypeStep
  <2>2. Space'
    BY <1>0, <1>1, SpaceStep
  <2>3. Contents'
    BY <1>0, <1>1, <2>1, <2>2, ContentsStep
  <2>4. CallsRunning' /\ CounterHeld'
    <3>1. ASSUME NEW t \in Client,
                 Malloc(t) \/ \E n \in Home \cup {UINT_MAX}, s \in Size :
                                 dstm_malloc(t, n, s)
          PROVE  CallsRunning' /\ CounterHeld'
      BY <1>0, <3>1, CallsRunningStep, CounterHeldStep
    <3>2. ASSUME UNCHANGED <<ALL_UNITS, m_mutex, callVars>>
          PROVE  CallsRunning' /\ CounterHeld'
      <4>1. UNCHANGED <<m_pc, m_calls, asked, offset, mem_ptr, mllcMtx>>
            /\ \A u \in Client : victim(u)' = victim(u) /\ from(u)' = from(u)
        BY <3>2, CallsKept
      <4>2. CallsRunning'
        BY <1>0, <4>1 DEF CallsRunning
      <4>3. CounterHeld'
        BY <1>0, <3>2, <4>1 DEF CounterHeld
      <4> QED
        BY <4>2, <4>3
    <3> QED
      BY <1>1, <3>1, <3>2 DEF MallocNext, AllReturned, mallocVars, dstm_free, putLocks,
                              dstmfree
  <2> QED
    BY <2>1, <2>2, <2>3, <2>4 DEF MallocInv, Space, Contents
<1>2. CASE UNCHANGED mallocVars
  <2>1. UNCHANGED <<mem, ALL_UNITS, m_mutex, callVars, live, frees>>
    BY <1>2 DEF mallocVars
  <2>2. UNCHANGED <<m_pc, m_calls, asked, offset, mem_ptr, mllcMtx>>
        /\ \A u \in Client : victim(u)' = victim(u) /\ from(u)' = from(u)
    BY <2>1, CallsKept
  <2>3. MallocTypeOK'
    BY <1>0, <2>1, <2>2 DEF MallocTypeOK
  <2>4. CallsRunning'
    BY <1>0, <2>2 DEF CallsRunning
  <2>5. CounterHeld'
    BY <1>0, <2>1, <2>2 DEF CounterHeld
  <2>6. Space'
    BY <1>0, <2>1, SameSpace
  <2>7. \A n \in Home : WithinLocks(n)' => WithinLocks(n)
    BY <2>1 DEF WithinLocks
  <2>8. Contents'
    BY <1>0, <2>1, <2>7, KeptContents
  <2> QED
    BY <2>3, <2>4, <2>5, <2>6, <2>8 DEF MallocInv, Space, Contents
<1> QED
  BY <1>1, <1>2

\* Whatever the calls and messages of any threads do, the invariant holds.
THEOREM MallocInvariant == MallocSpec => []MallocInv
<1>1. MallocInit => MallocInv
  BY MallocInitInv
<1>2. MallocInv /\ [MallocNext]_mallocVars => MallocInv'
  BY MallocStepInv
<1> QED
  BY <1>1, <1>2, PTL DEF MallocSpec

\* A block of dstm_malloc keeps what the application wrote to it until
\* dstm_free, as long as the blocks of its node have lock words: no other call
\* is given its units and no free or lock word is written over them.
THEOREM BlocksIntact == MallocSpec => []LiveIntact
<1>1. MallocInv => LiveIntact
  BY DEF MallocInv
<1> QED
  BY <1>1, MallocInvariant, PTL
=============================================================================
