------------------------- MODULE ApplicationThreads -------------------------
(***************************************************************************)
(* The life of an application: every node initialises it, the main thread  *)
(* runs on node 0 and creates and joins child threads on all nodes with    *)
(* active messages, the end of the main thread ends every node, and node 0 *)
(* collects the statistics (a TRANSACTIONS_STATS build).                   *)
(*                                                                         *)
(* The children are created by the main thread, as the programs of tests/  *)
(* do, and the variable that holds a thread's id is not reused.  Replies   *)
(* with an empty handler are left out, and so are the ltid numbers, which  *)
(* nothing reads.                                                          *)
(***************************************************************************)
EXTENDS DummyLoadBalancer, FiniteSets

CONSTANTS
    MaxThreads,     \* bound: threads the main thread creates
    SerialHandlers  \* the conduit runs a node's handlers one at a time

ASSUME ThreadsAssumption == MaxThreads \in Nat /\ SerialHandlers \in BOOLEAN

Gtid == 1..MaxThreads

VARIABLES
    node,      \* where main() of each node is
    main,      \* the application's main thread
    joining,   \* the thread joinThread waits for, 0 outside
    gtid,      \* the next thread id
    lastNode,  \* the load balancer's last victim
    place,     \* the node each thread was sent to
    threads,   \* localThreads and remoteThreads of each node: thread states
    job,       \* jobChild of each thread
    joined,    \* threads that were joined
    storing,   \* succ handlers between the test of the state and the store
    net,       \* active messages under way, unordered
    END_EXECUTION, \* GLOBAL_END_EXECUTION of each node
    stats,     \* nodes whose statistics are stored
    RETRIVE_STATS, \* GLOBAL_RETRIVE_STATS
    counting   \* statistics handlers in the increment, and what they loaded

mainVars  == <<main, joining, gtid, lastNode, place, joined>>
childVars == <<threads, job, storing>>
statsVars == <<stats, RETRIVE_STATS, counting>>
vars == <<node, mainVars, childVars, net, END_EXECUTION, statsVars>>

NodePC == {"init", "initialised", "running", "ending", "ended", "finalized",
           "exited"}
State  == {"absent", "RUNNABLE", "RUNNING", "EXITED"}

Message == [type : {"spawnthread", "spawnthread_succ", "threadexited"},
            gtid : Gtid]
           \cup [type : {"endexec", "dstmstats"}, node : Node]

Spawn(g)     == [type |-> "spawnthread", gtid |-> g]
SpawnSucc(g) == [type |-> "spawnthread_succ", gtid |-> g]
Exit(g)      == [type |-> "threadexited", gtid |-> g]
EndExec(n)   == [type |-> "endexec", node |-> n]
Stats(n)     == [type |-> "dstmstats", node |-> n]

Init ==
    /\ node = [n \in Node |-> "init"]
    /\ main = "none" /\ joining = 0
    /\ gtid = 1 /\ lastNode = NoNode
    /\ place = [g \in Gtid |-> 0]
    /\ threads = [n \in Node |-> [g \in Gtid |-> "absent"]]
    /\ job = [g \in Gtid |-> "none"]
    /\ joined = {} /\ storing = {} /\ net = {}
    /\ END_EXECUTION = [n \in Node |-> FALSE]
    /\ stats = {} /\ RETRIVE_STATS = 0 /\ counting = {}

-----------------------------------------------------------------------------
(* main() of each node *)

\* BARRIER(): every node has come to it.
AllAt(S) == \A n \in Node : node[n] \in S

initApplication(n) ==
    /\ node[n] = "init"
    /\ node' = [node EXCEPT ![n] = "initialised"]
    /\ UNCHANGED <<mainVars, childVars, net, END_EXECUTION, statsVars>>

startBarrier(n) ==
    /\ node[n] = "initialised" /\ AllAt(NodePC \ {"init"})
    /\ node' = [node EXCEPT ![n] = "running"]
    /\ main' = IF n = 0 THEN "running" ELSE main
    /\ UNCHANGED <<joining, gtid, lastNode, place, joined, childVars, net,
                   END_EXECUTION, statsVars>>

\* Fault: the last node is forgotten.
EndTargets_Short == 1..nodesNum - 2

EndTargets == 1..nodesNum - 1

\* Node 0, once its main thread has returned.
endExecution ==
    /\ node[0] = "running" /\ main = "returned"
    /\ net' = net \cup {EndExec(n) : n \in EndTargets}
    /\ node' = [node EXCEPT ![0] = "ending"]
    /\ UNCHANGED <<mainVars, childVars, END_EXECUTION, statsVars>>

\* The other nodes wait for endexec.
endWait(n) ==
    /\ n # 0 /\ node[n] = "running" /\ END_EXECUTION[n]
    /\ node' = [node EXCEPT ![n] = "ending"]
    /\ UNCHANGED <<mainVars, childVars, net, END_EXECUTION, statsVars>>

endBarrier(n) ==
    /\ node[n] = "ending" /\ AllAt({"ending", "ended", "finalized", "exited"})
    /\ node' = [node EXCEPT ![n] = "ended"]
    /\ UNCHANGED <<mainVars, childVars, net, END_EXECUTION, statsVars>>

\* Application.reset() runs _ITM_finalizeProcess, which sends the statistics.
finalizeProcess(n) ==
    /\ node[n] = "ended"
    /\ net' = net \cup {Stats(n)}
    /\ node' = [node EXCEPT ![n] = "finalized"]
    /\ UNCHANGED <<mainVars, childVars, END_EXECUTION, statsVars>>

exit(n) ==
    /\ node[n] = "finalized"
    /\ n = 0 => RETRIVE_STATS = nodesNum
    /\ node' = [node EXCEPT ![n] = "exited"]
    /\ UNCHANGED <<mainVars, childVars, net, END_EXECUTION, statsVars>>

-----------------------------------------------------------------------------
(* The application's main thread *)

Entered(g, n) == "RUNNABLE"

spawnThread ==
    LET victim == getVictim(lastNode)
    IN  /\ main = "running" /\ joining = 0 /\ gtid \in Gtid
        /\ lastNode' = victim
        /\ place' = [place EXCEPT ![gtid] = victim]
        /\ threads' = [threads EXCEPT ![0][gtid] = Entered(gtid, victim)]
        /\ net' = net \cup {Spawn(gtid)}
        /\ gtid' = gtid + 1
        /\ UNCHANGED <<node, main, joining, job, joined, storing,
                       END_EXECUTION, statsVars>>

joinThread(g) ==
    /\ main = "running" /\ joining = 0 /\ g < gtid /\ g \notin joined
    /\ joining' = g
    /\ UNCHANGED <<node, main, gtid, lastNode, place, joined, childVars, net,
                   END_EXECUTION, statsVars>>

\* Fault: a thread that has started counts as done.
Exited_Started(g) == threads[0][g] \in {"RUNNING", "EXITED"}

Exited(g) == threads[0][g] = "EXITED"

joinReturns(g) ==
    /\ joining = g /\ Exited(g)
    /\ joining' = 0
    /\ joined' = joined \cup {g}
    /\ UNCHANGED <<node, main, gtid, lastNode, place, childVars, net,
                   END_EXECUTION, statsVars>>

mainReturns ==
    /\ main = "running" /\ joining = 0
    /\ main' = "returned"
    /\ UNCHANGED <<node, joining, gtid, lastNode, place, joined, childVars, net,
                   END_EXECUTION, statsVars>>

-----------------------------------------------------------------------------
(* The child threads and the handlers.  A node handles messages until it   *)
(* deletes its application.                                                *)

Handling(n) == node[n] \in {"initialised", "running", "ending", "ended"}

\* No other handler is under way on node 0, if they run one at a time.
HandlerFree == SerialHandlers => storing = {} /\ counting = {}

\* spawnthread_medhandler: runChildThread, then the reply.
spawnthread(g) ==
    LET n == place[g]
    IN  /\ Spawn(g) \in net /\ Handling(n)
        /\ n = 0 => HandlerFree
        /\ threads' = IF n # 0 THEN [threads EXCEPT ![n][g] = "RUNNING"]
                      ELSE threads
        /\ job' = [job EXCEPT ![g] = "running"]
        /\ net' = (net \ {Spawn(g)}) \cup {SpawnSucc(g)}
        /\ UNCHANGED <<node, mainVars, storing, END_EXECUTION, statsVars>>

\* The thread's function returns; jobChild tells node 0.
jobChild(g) ==
    /\ job[g] = "running" /\ node[place[g]] # "exited"
    /\ job' = [job EXCEPT ![g] = "ended"]
    /\ net' = net \cup {Exit(g)}
    /\ UNCHANGED <<node, mainVars, threads, storing, END_EXECUTION, statsVars>>

\* Fault: the state is set without looking at it.
Runnable_Any(g) == TRUE

Runnable(g) == threads[0][g] = "RUNNABLE"

\* spawnthread_succ_medhandler tests the state, ...
spawnthread_succ(g) ==
    /\ SpawnSucc(g) \in net /\ Handling(0) /\ HandlerFree
    /\ net' = net \ {SpawnSucc(g)}
    /\ storing' = IF Runnable(g) THEN storing \cup {g} ELSE storing
    /\ UNCHANGED <<node, mainVars, threads, job, END_EXECUTION, statsVars>>

\* ... and then sets it.
storeRunning(g) ==
    /\ g \in storing
    /\ threads' = [threads EXCEPT ![0][g] = "RUNNING"]
    /\ storing' = storing \ {g}
    /\ UNCHANGED <<node, mainVars, job, net, END_EXECUTION, statsVars>>

threadexited(g) ==
    /\ Exit(g) \in net /\ Handling(0) /\ HandlerFree
    /\ net' = net \ {Exit(g)}
    /\ threads' = [threads EXCEPT ![0][g] = "EXITED"]
    /\ UNCHANGED <<node, mainVars, job, storing, END_EXECUTION, statsVars>>

endexec(n) ==
    /\ EndExec(n) \in net /\ Handling(n)
    /\ net' = net \ {EndExec(n)}
    /\ END_EXECUTION' = [END_EXECUTION EXCEPT ![n] = TRUE]
    /\ UNCHANGED <<node, mainVars, childVars, statsVars>>

\* dstmstats_medhandler stores the statistics and increments the counter,
\* a load and a store.
dstmstats(n) ==
    /\ Stats(n) \in net /\ node[0] # "exited" /\ HandlerFree
    /\ net' = net \ {Stats(n)}
    /\ stats' = stats \cup {n}
    /\ counting' = counting \cup {<<n, RETRIVE_STATS>>}
    /\ UNCHANGED <<node, mainVars, childVars, END_EXECUTION, RETRIVE_STATS>>

countStats(n) ==
    \E c \in counting :
        /\ c[1] = n
        /\ RETRIVE_STATS' = c[2] + 1
        /\ counting' = counting \ {c}
        /\ UNCHANGED <<node, mainVars, childVars, net, END_EXECUTION, stats>>

-----------------------------------------------------------------------------
Main == spawnThread \/ mainReturns \/ \E g \in Gtid : joinThread(g)

NodeStep(n) == \/ initApplication(n) \/ startBarrier(n) \/ endWait(n)
               \/ endBarrier(n) \/ finalizeProcess(n) \/ exit(n)

GtidHandler(g) == \/ spawnthread(g) \/ spawnthread_succ(g) \/ storeRunning(g)
                  \/ threadexited(g)

NodeHandler(n) == endexec(n) \/ dstmstats(n) \/ countStats(n)

Done == AllAt({"exited"}) /\ UNCHANGED vars

Next == \/ Main \/ endExecution \/ Done
        \/ \E g \in Gtid : joinReturns(g) \/ jobChild(g) \/ GtidHandler(g)
        \/ \E n \in Node : NodeStep(n) \/ NodeHandler(n)

Spec == Init /\ [][Next]_vars

(***************************************************************************)
(* GASNet delivers every message, node 0 polls in GASNET_BLOCKUNTIL, the   *)
(* scheduler runs main(), a join whose condition holds returns.  Neither   *)
(* the main thread nor the children owe the program an end.                *)
(***************************************************************************)
FairSpec ==
    /\ Spec /\ WF_vars(endExecution)
    /\ \A g \in Gtid : /\ WF_vars(joinReturns(g)) /\ WF_vars(spawnthread(g))
                       /\ WF_vars(spawnthread_succ(g))
                       /\ WF_vars(storeRunning(g)) /\ WF_vars(threadexited(g))
    /\ \A n \in Node : WF_vars(NodeStep(n)) /\ WF_vars(NodeHandler(n))
-----------------------------------------------------------------------------
(* Properties *)

TypeOK ==
    /\ node \in [Node -> NodePC]
    /\ main \in {"none", "running", "returned"} /\ joining \in 0..MaxThreads
    /\ gtid \in 1..MaxThreads + 1
    /\ lastNode \in Node \cup {NoNode}
    /\ place \in [Gtid -> Node]
    /\ threads \in [Node -> [Gtid -> State]]
    /\ job \in [Gtid -> {"none", "running", "ended"}]
    /\ joined \subseteq Gtid /\ storing \subseteq Gtid
    /\ net \subseteq Message
    /\ END_EXECUTION \in [Node -> BOOLEAN]
    /\ stats \subseteq Node /\ RETRIVE_STATS \in Nat
    /\ counting \subseteq Node \X Nat

(***************************************************************************)
(* A thread that was joined has run to its end, whichever node it ran on   *)
(* and in whatever order the reply to its creation and the message of its  *)
(* end came in (joinThread, threadexited_shrthandler).                     *)
(***************************************************************************)
JoinedDone == \A g \in joined : job[g] = "ended"

(***************************************************************************)
(* The handlers on node 0 find the thread they are told about: its entry   *)
(* is made before its first message can be answered (spawnThread).         *)
(***************************************************************************)
ThreadsKnown ==
    \A g \in Gtid : SpawnSucc(g) \in net \/ Exit(g) \in net =>
        threads[0][g] # "absent"

(***************************************************************************)
(* A child thread starts only on a node that has loaded the application:   *)
(* jobChild would otherwise do nothing and report the thread as ended.     *)
(***************************************************************************)
LoadedBeforeUse ==
    \A g \in Gtid : job[g] # "none" \/ Spawn(g) \in net => node[place[g]] # "init"

(* The inductive invariant behind the three. *)

\* Nothing is known about a thread before it has its id and its entry.
EntriesMade ==
    \A g \in Gtid :
        IF g < gtid THEN threads[0][g] # "absent"
        ELSE /\ job[g] = "none" /\ g \notin joined \cup storing
             /\ Spawn(g) \notin net /\ SpawnSucc(g) \notin net
             /\ Exit(g) \notin net

\* The end of a thread is reported by the thread alone.
EndsReported ==
    \A g \in Gtid :
        /\ Spawn(g) \in net => job[g] = "none"
        /\ Exit(g) \in net \/ threads[0][g] = "EXITED" \/ g \in joined =>
              job[g] = "ended"

\* The main thread starts behind the first barrier.
MainLast == IF main = "none" THEN gtid = 1
            ELSE \A n \in Node : node[n] # "init"

(***************************************************************************)
(* What is known of a thread follows from what it did, whatever messages   *)
(* about it are still under way.                                           *)
(***************************************************************************)
ThreadInv == TypeOK /\ EntriesMade /\ EndsReported /\ MainLast

(***************************************************************************)
(* "Wait for thread completion": joining a thread that has ended returns,  *)
(* its end is not forgotten.                                               *)
(***************************************************************************)
JoinReturns ==
    \A g \in Gtid : joining = g /\ job[g] = "ended" ~> joining # g

(***************************************************************************)
(* Once the main thread has returned, every node exits: endexec reaches    *)
(* all of them and all statistics are counted.                             *)
(***************************************************************************)
ShutdownCompletes == main = "returned" ~> AllAt({"exited"})
=============================================================================
