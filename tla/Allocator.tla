------------------------------ MODULE Allocator ------------------------------
(***************************************************************************)
(* dstm_malloc and dstm_free over the segments of all nodes.  The start of *)
(* a segment holds the lock words of its objects, one for each CDU block;  *)
(* behind them every node hands out units of memory to its own threads and *)
(* to the handlers of requests from other threads.  Addresses are counted  *)
(* in units, from the start of the segment: a lock word has the size of a  *)
(* unit, 8 bytes.                                                          *)
(***************************************************************************)
EXTENDS Integers, FiniteSets

CONSTANTS
    Home,          \* the nodes, each with its segment
    Client,        \* threads that allocate
    mynode,        \* the node a thread runs on
    Size,          \* the sizes the application asks for, in bytes
    UnitBytes,     \* 1 << MAU_SIZE
    CduUnits,      \* units of a CDU block
    OBJECTS_COUNT, \* lock words of a node
    MaxMallocs       \* bound: blocks a thread asks for

ASSUME SizeAssumption ==
    /\ Size \subseteq Nat \ {0}
    /\ UnitBytes \in Nat \ {0} /\ CduUnits \in Nat \ {0}
    /\ OBJECTS_COUNT \in Nat /\ MaxMallocs \in Nat

\* Asks for memory of the caller's node; no node has this number.
UINT_MAX == -1
None == UINT_MAX

ASSUME ClientAssumption ==
    mynode \in [Client -> Home] /\ Home \subseteq Nat /\ None \notin Client

units(size) == LET u == size \div UnitBytes
               IN  IF u * UnitBytes < size THEN u + 1 ELSE u

\* GASNetMemoryManager::init: the first CDU boundary behind the lock words.
objects_addr == (OBJECTS_COUNT \div CduUnits + 1) * CduUnits

getObjectLockAddr(addr) == (addr - objects_addr) \div CduUnits

Pointer == [node : Home, addr : Nat]
Call    == Client \X (1..MaxMallocs)
Clear   == <<>>
Lock    == <<"lock">>
Content == Call \cup {Clear, Lock}

VARIABLES
    mem,       \* each node's segment: whose data is where, as far as written
    ALL_UNITS, \* units each node has handed out
    m_mutex,   \* the call that has G_MALLOC_MTX of each node
    m_pc,      \* where the dstm_malloc of each thread is
    m_calls,   \* calls each thread has made
    asked,     \* __node and __size
    offset,    \* ALL_UNITS as read
    mem_ptr,   \* the local variable the reply stores the pointer to
    mllcMtx,   \* the local variable that ends the wait
    live,      \* blocks the application has: call, pointer and what it asked
    frees      \* dstmfree messages under way

callVars == <<m_pc, m_calls, asked, offset, mem_ptr, mllcMtx>>
mallocVars == <<mem, ALL_UNITS, m_mutex, callVars, live, frees>>

NoPointer == [node |-> None, addr |-> None]
NothingAsked == [node |-> UINT_MAX, size |-> 0]

MallocInit ==
    /\ mem = [n \in Home |-> <<>>]
    /\ ALL_UNITS = [n \in Home |-> 0]
    /\ m_mutex = [n \in Home |-> None]
    /\ m_pc = [t \in Client |-> "idle"]
    /\ m_calls = [t \in Client |-> 0]
    /\ asked = [t \in Client |-> NothingAsked]
    /\ offset = [t \in Client |-> 0]
    /\ mem_ptr = [t \in Client |-> NoPointer]
    /\ mllcMtx = [t \in Client |-> 0]
    /\ live = {} /\ frees = {}

\* The node that hands out the memory t has asked for.
victim(t) == IF asked[t].node = UINT_MAX THEN mynode[t] ELSE asked[t].node

Resume(t, l) == m_pc' = [m_pc EXCEPT ![t] = l]

-----------------------------------------------------------------------------
(* dstm_malloc.  A call with a node's number sends dstmmalloc, even to the *)
(* caller's own node; its handler runs the same code there.                *)

dstm_malloc(t, n, size) ==
    /\ m_pc[t] = "idle" /\ m_calls[t] < MaxMallocs
    /\ m_calls' = [m_calls EXCEPT ![t] = @ + 1]
    /\ asked' = [asked EXCEPT ![t] = [node |-> n, size |-> size]]
    /\ Resume(t, "malloc")
    /\ UNCHANGED <<mem, ALL_UNITS, m_mutex, offset, mem_ptr, mllcMtx, live, frees>>

Free(n) == m_mutex[n] = None

\* Mutex taken, counter read.
lockMalloc(t) ==
    LET n == victim(t)
    IN  /\ m_pc[t] = "malloc" /\ Free(n)
        /\ m_mutex' = [m_mutex EXCEPT ![n] = t]
        /\ offset' = [offset EXCEPT ![t] = ALL_UNITS[n]]
        /\ Resume(t, "locked")
        /\ UNCHANGED <<mem, ALL_UNITS, m_calls, asked, mem_ptr, mllcMtx, live,
                       frees>>

\* Counter written, mutex given back; the handler replies.
unlockMalloc(t) ==
    LET n == victim(t)
    IN  /\ m_pc[t] = "locked"
        /\ ALL_UNITS' = [ALL_UNITS EXCEPT ![n] = @ + units(asked[t].size)]
        /\ m_mutex' = [m_mutex EXCEPT ![n] = None]
        /\ Resume(t, IF asked[t].node = UINT_MAX THEN "return" ELSE "reply")
        /\ mem_ptr' = IF asked[t].node = UINT_MAX
                      THEN [mem_ptr EXCEPT ![t] = [node |-> n,
                                       addr |-> objects_addr + offset[t]]]
                      ELSE mem_ptr
        /\ UNCHANGED <<mem, m_calls, asked, offset, mllcMtx, live, frees>>

\* Fault: the wait is not ended.
succ_NoWake(t) ==
    /\ m_pc[t] = "reply"
    /\ mem_ptr' = [mem_ptr EXCEPT ![t] = [node |-> victim(t),
                                     addr |-> objects_addr + offset[t]]]
    /\ Resume(t, "return")
    /\ UNCHANGED mllcMtx

\* dstmmalloc_succ_shrthandler stores the pointer and then ends the wait.
succ(t) ==
    \/ /\ m_pc[t] = "reply"
       /\ mem_ptr' = [mem_ptr EXCEPT ![t] = [node |-> victim(t),
                                        addr |-> objects_addr + offset[t]]]
       /\ Resume(t, "replied")
       /\ UNCHANGED mllcMtx
    \/ /\ m_pc[t] = "replied"
       /\ mllcMtx' = [mllcMtx EXCEPT ![t] = 1]
       /\ Resume(t, "return")
       /\ UNCHANGED mem_ptr

dstmmalloc_succ(t) ==
    succ(t) /\ UNCHANGED <<mem, ALL_UNITS, m_mutex, m_calls, asked, offset, live,
                           frees>>

\* Segment f after a store of value v to the units S.
Store(f, S, v) == [a \in DOMAIN f \cup S |-> IF a \in S THEN v ELSE f[a]]

\* The units in which the bytes asked for are.
Filled(p, size) == {p.addr + i : i \in {j \in 0..size : j * UnitBytes < size}}

\* A thread returns with its pointer, the application fills the block, and
\* the call's variables are gone.
mallocReturns(t) ==
    LET p == mem_ptr[t]
        call == <<t, m_calls[t]>>
    IN  /\ IF asked[t].node = UINT_MAX THEN m_pc[t] = "return" ELSE mllcMtx[t] = 1
        /\ m_pc[t] # "idle"
        /\ live' = live \cup {[call |-> call, ptr |-> p, size |-> asked[t].size]}
        /\ mem' = [mem EXCEPT ![p.node] = Store(@, Filled(p, asked[t].size), call)]
        /\ Resume(t, "idle")
        /\ asked' = [asked EXCEPT ![t] = NothingAsked]
        /\ offset' = [offset EXCEPT ![t] = 0]
        /\ mem_ptr' = [mem_ptr EXCEPT ![t] = NoPointer]
        /\ mllcMtx' = [mllcMtx EXCEPT ![t] = 0]
        /\ UNCHANGED <<ALL_UNITS, m_mutex, m_calls, frees>>

-----------------------------------------------------------------------------
(* dstm_free clears the first unit of the block, whatever its size, at its *)
(* home node; the memory is not used again.                                *)

\* Fault: the CDU block around the pointer.
Cleared_Block(p) == LET first == (p.addr \div CduUnits) * CduUnits
                    IN  first..(first + CduUnits - 1)

Cleared(p) == {p.addr}

dstm_freeHome(p) ==
    /\ Free(p.node)
    /\ mem' = [mem EXCEPT ![p.node] = Store(@, Cleared(p), Clear)]

dstm_free(t, b) ==
    /\ m_pc[t] = "idle" /\ b \in live
    /\ live' = live \ {b}
    /\ \/ /\ b.ptr.node = mynode[t]
          /\ dstm_freeHome(b.ptr)
          /\ UNCHANGED frees
       \/ /\ b.ptr.node # mynode[t]
          /\ frees' = frees \cup {b.ptr}
          /\ UNCHANGED mem
    /\ UNCHANGED <<ALL_UNITS, m_mutex, callVars>>

\* dstmfree_medhandler, at any later time.
dstmfree(p) ==
    /\ p \in frees
    /\ frees' = frees \ {p}
    /\ dstm_freeHome(p)
    /\ UNCHANGED <<ALL_UNITS, m_mutex, callVars, live>>

-----------------------------------------------------------------------------
\* A transaction puts the lock words of a block the application has.
putLocks(b) ==
    LET at == {getObjectLockAddr(b.ptr.addr + i) : i \in 0..units(b.size) - 1}
    IN  /\ b \in live
        /\ mem' = [mem EXCEPT ![b.ptr.node] = Store(@, at, Lock)]
        /\ UNCHANGED <<ALL_UNITS, m_mutex, callVars, live, frees>>

\* The code of dstm_malloc, on the caller's node and in the handlers.
Malloc(t) == lockMalloc(t) \/ unlockMalloc(t) \/ dstmmalloc_succ(t)
                \/ mallocReturns(t)

AllReturned ==
    /\ \A t \in Client : m_pc[t] = "idle" /\ m_calls[t] = MaxMallocs
    /\ frees = {} /\ UNCHANGED mallocVars

MallocNext ==
    \/ AllReturned
    \/ \E t \in Client :
          \/ Malloc(t)
          \/ \E n \in Home \cup {UINT_MAX}, s \in Size : dstm_malloc(t, n, s)
          \/ \E b \in live : dstm_free(t, b)
    \/ \E b \in live : putLocks(b)
    \/ \E p \in frees : dstmfree(p)

MallocSpec == MallocInit /\ [][MallocNext]_mallocVars

(***************************************************************************)
(* GASNet delivers messages, threads are scheduled, and the mutex is given *)
(* to a thread that waits while no other takes it.                         *)
(***************************************************************************)
FairMallocSpec == MallocSpec /\ \A t \in Client : WF_mallocVars(Malloc(t))
-----------------------------------------------------------------------------
(* Properties *)

MallocTypeOK ==
    /\ mem = [n \in Home |-> mem[n]]
    /\ \A n \in Home : mem[n] \in [DOMAIN mem[n] -> Content]
    /\ ALL_UNITS \in [Home -> Nat]
    /\ m_mutex \in [Home -> Client \cup {None}]
    /\ m_pc \in [Client -> {"idle", "malloc", "locked", "reply", "replied",
                          "return"}]
    /\ m_calls \in [Client -> 0..MaxMallocs]
    /\ asked \in [Client -> [node : Home \cup {UINT_MAX}, size : Size \cup {0}]]
    /\ offset \in [Client -> Nat]
    /\ mem_ptr \in [Client -> Pointer \cup {NoPointer}]
    /\ mllcMtx \in [Client -> {0, 1}]
    /\ live \subseteq [call : Call, ptr : Pointer, size : Size]
    /\ frees \subseteq Pointer

\* The units a block of the application takes.
Units(b) == {b.ptr.addr + i : i \in 0..units(b.size) - 1}

\* The node has lock words for what it has handed out.
WithinLocks(n) == ALL_UNITS[n] <= OBJECTS_COUNT * CduUnits

(***************************************************************************)
(* What the application keeps in a block stays there: neither a free, even *)
(* one whose message is late, nor the lock word of another block destroys  *)
(* it, as long as the node has not handed out more memory than it has lock *)
(* words for.                                                              *)
(***************************************************************************)
LiveIntact ==
    \A b \in live : WithinLocks(b.ptr.node) =>
        \A a \in Units(b) : mem[b.ptr.node][a] = b.call

(***************************************************************************)
(* Every dstm_malloc returns: the request is answered and the wait for it  *)
(* ends (GASNET_BLOCKUNTIL in dstm_mallocMallocRequest).                   *)
(***************************************************************************)
MallocReturns == \A t \in Client : m_pc[t] # "idle" ~> m_pc[t] = "idle"
=============================================================================
