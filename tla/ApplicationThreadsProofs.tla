---------------------- MODULE ApplicationThreadsProofs ----------------------
(***************************************************************************)
(* Proofs about the life of application threads, for any number of nodes   *)
(* and threads, with handlers that run one at a time or concurrently.      *)
(***************************************************************************)
EXTENDS ApplicationThreads, TLAPS

\* Messages of different kinds or about different threads are different.
LEMMA Messages ==
    /\ \A g \in Gtid : {Spawn(g), SpawnSucc(g), Exit(g)} \subseteq Message
    /\ \A n \in Node : {EndExec(n), Stats(n)} \subseteq Message
    /\ \A g, h \in Gtid :
          /\ Spawn(g) # SpawnSucc(h) /\ Spawn(g) # Exit(h)
          /\ SpawnSucc(g) # Exit(h)
          /\ g # h => /\ Spawn(g) # Spawn(h) /\ SpawnSucc(g) # SpawnSucc(h)
                      /\ Exit(g) # Exit(h)
    /\ \A g \in Gtid, n \in Node :
          /\ Spawn(g) # EndExec(n) /\ Spawn(g) # Stats(n)
          /\ SpawnSucc(g) # EndExec(n) /\ SpawnSucc(g) # Stats(n)
          /\ Exit(g) # EndExec(n) /\ Exit(g) # Stats(n)
  BY DEF Message, Spawn, SpawnSucc, Exit, EndExec, Stats

\* The load balancer answers with a node.
LEMMA Victims ==
    0 \in Node /\ \A n \in Node \cup {NoNode} : getVictim(n) \in Node
  BY NodesAssumption DEF Node, NoNode, getVictim

\* The initial states have the right types.
LEMMA InitType == Init => TypeOK
<1> SUFFICES ASSUME Init
             PROVE  TypeOK
  OBVIOUS
<1>1. /\ gtid \in 1..MaxThreads + 1 /\ joining \in 0..MaxThreads
      /\ place \in [Gtid -> Node]
  BY Victims, ThreadsAssumption DEF Init, Gtid
<1> QED
  BY <1>1 DEF Init, TypeOK, NodePC, State

\* Every step keeps the types.
LEMMA NextType == TypeOK /\ [Next]_vars => TypeOK'
<1> SUFFICES ASSUME TypeOK, [Next]_vars
             PROVE  TypeOK'
  OBVIOUS
<1> USE Messages, Victims, ThreadsAssumption
    DEF TypeOK, NodePC, State, Gtid, mainVars, childVars, statsVars
<1>1. CASE spawnThread
  BY <1>1 DEF spawnThread, Entered
<1>2. CASE mainReturns
  BY <1>2 DEF mainReturns
<1>3. CASE endExecution
  <2>1. \A n \in EndTargets : EndExec(n) \in Message
    BY NodesAssumption DEF EndTargets, Node
  <2> QED
    BY <1>3, <2>1 DEF endExecution
<1>4. CASE Done \/ UNCHANGED vars
  BY <1>4 DEF Done, vars
<1>5. ASSUME NEW g \in Gtid, joinThread(g) \/ joinReturns(g)
      PROVE  TypeOK'
  <2>3. 0 \in 0..MaxThreads /\ g \in 0..MaxThreads
    OBVIOUS
  <2>4. joining' \in {0, g} /\ joined' \in {joined, joined \cup {g}}
    BY <1>5 DEF joinThread, joinReturns
  <2>1. joining' \in 0..MaxThreads /\ joined' \subseteq Gtid
    BY <2>3, <2>4
  <2>2. UNCHANGED <<node, main, gtid, lastNode, place, childVars, net,
                    END_EXECUTION, statsVars>>
    BY <1>5 DEF joinThread, joinReturns
  <2> QED
    BY <2>1, <2>2
<1>6. ASSUME NEW g \in Gtid, jobChild(g) \/ GtidHandler(g)
      PROVE  TypeOK'
  <2>1. net' \subseteq Message
    BY <1>6 DEF jobChild, GtidHandler, spawnthread, spawnthread_succ,
                storeRunning, threadexited
  <2>2. /\ threads' \in [Node -> [Gtid -> State]]
        /\ job' \in [Gtid -> {"none", "running", "ended"}]
        /\ storing' \subseteq Gtid
    <3>1. CASE jobChild(g)
      BY <3>1 DEF jobChild
    <3>2. CASE spawnthread(g)
      BY <3>2 DEF spawnthread
    <3>3. CASE spawnthread_succ(g)
      BY <3>3 DEF spawnthread_succ
    <3>4. CASE storeRunning(g)
      BY <3>4 DEF storeRunning
    <3>5. CASE threadexited(g)
      BY <3>5 DEF threadexited
    <3> QED
      BY <1>6, <3>1, <3>2, <3>3, <3>4, <3>5 DEF GtidHandler
  <2>3. UNCHANGED <<node, mainVars, END_EXECUTION, statsVars>>
    BY <1>6 DEF jobChild, GtidHandler, spawnthread, spawnthread_succ,
                storeRunning, threadexited
  <2> QED
    BY <2>1, <2>2, <2>3
<1>7. ASSUME NEW n \in Node, NodeStep(n)
      PROVE  TypeOK'
  <2>1. net' \subseteq Message
    BY <1>7 DEF NodeStep, initApplication, startBarrier, endWait, endBarrier,
                finalizeProcess, exit
  <2>2. /\ node' \in [Node -> NodePC]
        /\ main' \in {"none", "running", "returned"}
    BY <1>7 DEF NodeStep, initApplication, startBarrier, endWait, endBarrier,
                finalizeProcess, exit
  <2>3. UNCHANGED <<joining, gtid, lastNode, place, joined, childVars,
                    END_EXECUTION, statsVars>>
    BY <1>7 DEF NodeStep, initApplication, startBarrier, endWait, endBarrier,
                finalizeProcess, exit
  <2> QED
    BY <2>1, <2>2, <2>3
<1>8. ASSUME NEW n \in Node, endexec(n)
      PROVE  TypeOK'
  BY <1>8 DEF endexec
<1>9. ASSUME NEW n \in Node, dstmstats(n)
      PROVE  TypeOK'
  BY <1>9 DEF dstmstats
<1>10. ASSUME NEW n \in Node, countStats(n)
       PROVE  TypeOK'
  BY <1>10 DEF countStats
<1> QED
  BY <1>1, <1>2, <1>3, <1>4, <1>5, <1>6, <1>7, <1>8, <1>9, <1>10
     DEF Next, Main, NodeHandler

-----------------------------------------------------------------------------
\* A step that leaves the threads and their messages alone.
Aside == /\ UNCHANGED <<gtid, joined, threads, job, storing>>
         /\ \A g \in Gtid : /\ Spawn(g) \in net' <=> Spawn(g) \in net
                            /\ SpawnSucc(g) \in net' <=> SpawnSucc(g) \in net
                            /\ Exit(g) \in net' <=> Exit(g) \in net

\* It keeps what is known of the threads.
LEMMA AsideStep ==
    ASSUME EntriesMade, EndsReported, Aside
    PROVE  EntriesMade' /\ EndsReported'
<1>1. EntriesMade'
  BY DEF EntriesMade, Aside, Spawn, SpawnSucc, Exit
<1>2. EndsReported'
  BY DEF EndsReported, Aside, Spawn, Exit
<1> QED
  BY <1>1, <1>2

\* The main thread starts when every node has initialised the application.
LEMMA MainLastStep == TypeOK /\ MainLast /\ [Next]_vars => MainLast'
<1> SUFFICES ASSUME TypeOK, MainLast, [Next]_vars
             PROVE  MainLast'
  OBVIOUS
<1> USE DEF TypeOK, NodePC, mainVars, childVars, statsVars, MainLast
<1>1. CASE spawnThread \/ mainReturns
  BY <1>1 DEF spawnThread, mainReturns
<1>2. CASE endExecution
  BY <1>2, Victims DEF endExecution
<1>3. CASE Done \/ UNCHANGED vars
  BY <1>3 DEF Done, vars
<1>4. ASSUME NEW g \in Gtid,
             joinThread(g) \/ joinReturns(g) \/ jobChild(g) \/ GtidHandler(g)
      PROVE  MainLast'
  BY <1>4 DEF joinThread, joinReturns, jobChild, GtidHandler, spawnthread,
              spawnthread_succ, storeRunning, threadexited
<1>5. ASSUME NEW n \in Node, startBarrier(n)
      PROVE  MainLast'
  BY <1>5 DEF startBarrier, AllAt
<1>6. ASSUME NEW n \in Node,
             \/ initApplication(n) \/ endWait(n) \/ endBarrier(n)
             \/ finalizeProcess(n) \/ exit(n) \/ NodeHandler(n)
      PROVE  MainLast'
  BY <1>6 DEF initApplication, endWait, endBarrier, finalizeProcess, exit,
              NodeHandler, endexec, dstmstats, countStats
<1> QED
  BY <1>1, <1>2, <1>3, <1>4, <1>5, <1>6 DEF Next, Main, NodeStep

\* What is known of a thread stays true to what it did.
LEMMA KnowledgeStep ==
    ASSUME TypeOK, EntriesMade, EndsReported, [Next]_vars
    PROVE  EntriesMade' /\ EndsReported'
<1> USE DEF TypeOK, mainVars, childVars, statsVars
<1>1. CASE spawnThread
  BY <1>1, Messages, Victims, ThreadsAssumption
     DEF spawnThread, EntriesMade, EndsReported, Entered, Gtid
<1>2. CASE mainReturns \/ Done \/ UNCHANGED vars
  <2>1. Aside
    BY <1>2 DEF mainReturns, Done, vars, Aside
  <2> QED
    BY <2>1, AsideStep
<1>3. CASE endExecution
  <2>1. EndTargets \subseteq Node
    BY NodesAssumption DEF EndTargets, Node
  <2>2. Aside
    BY <1>3, <2>1, Messages DEF endExecution, Aside
  <2> QED
    BY <2>2, AsideStep
<1>4. ASSUME NEW n \in Node, NodeStep(n) \/ NodeHandler(n)
      PROVE  EntriesMade' /\ EndsReported'
  <2>1. Aside
    BY <1>4, Messages
       DEF NodeStep, initApplication, startBarrier, endWait, endBarrier,
           finalizeProcess, exit, NodeHandler, endexec, dstmstats, countStats,
           Aside
  <2> QED
    BY <2>1, AsideStep
<1>5. ASSUME NEW g \in Gtid, joinThread(g)
      PROVE  EntriesMade' /\ EndsReported'
  <2>1. Aside
    BY <1>5 DEF joinThread, Aside
  <2> QED
    BY <2>1, AsideStep
<1>6. ASSUME NEW g \in Gtid, joinReturns(g)
      PROVE  EntriesMade' /\ EndsReported'
  BY <1>6 DEF joinReturns, Exited, EntriesMade, EndsReported, Spawn,
              SpawnSucc, Exit
<1>7. ASSUME NEW g \in Gtid, jobChild(g)
      PROVE  EntriesMade' /\ EndsReported'
  BY <1>7, Messages DEF jobChild, EntriesMade, EndsReported
<1>8. ASSUME NEW g \in Gtid, spawnthread(g)
      PROVE  EntriesMade' /\ EndsReported'
  BY <1>8, Messages DEF spawnthread, EntriesMade, EndsReported
<1>9. ASSUME NEW g \in Gtid, spawnthread_succ(g)
      PROVE  EntriesMade' /\ EndsReported'
  BY <1>9, Messages DEF spawnthread_succ, EntriesMade, EndsReported
<1>10. ASSUME NEW g \in Gtid, storeRunning(g)
       PROVE  EntriesMade' /\ EndsReported'
  BY <1>10, Victims DEF storeRunning, EntriesMade, EndsReported, Spawn,
              SpawnSucc, Exit
<1>11. ASSUME NEW g \in Gtid, threadexited(g)
       PROVE  EntriesMade' /\ EndsReported'
  BY <1>11, Messages, Victims DEF threadexited, EntriesMade, EndsReported
<1> QED
  BY <1>1, <1>2, <1>3, <1>4, <1>5, <1>6, <1>7, <1>8, <1>9, <1>10, <1>11
     DEF Next, Main, GtidHandler

-----------------------------------------------------------------------------
\* What node 0 knows of a thread follows from what the thread did.
THEOREM ThreadInvariant == Spec => []ThreadInv
<1>1. Init => ThreadInv
  BY InitType, Victims
     DEF Init, ThreadInv, EntriesMade, EndsReported, MainLast, Gtid
<1>2. ThreadInv /\ [Next]_vars => ThreadInv'
  BY NextType, MainLastStep, KnowledgeStep DEF ThreadInv
<1> QED
  BY <1>1, <1>2, PTL DEF Spec

\* joinThread never returns before the thread has run to its end, whether or
\* not handlers run concurrently and whatever the order of the messages.
THEOREM JoinCorrect == Spec => []JoinedDone
<1>1. ThreadInv => JoinedDone
  BY DEF ThreadInv, EndsReported, JoinedDone, TypeOK
<1> QED
  BY <1>1, ThreadInvariant, PTL

\* The handlers on node 0 never look up a thread that has no entry.
THEOREM HandlersFindThreads == Spec => []ThreadsKnown
<1>1. ThreadInv => ThreadsKnown
  BY DEF ThreadInv, EntriesMade, ThreadsKnown
<1> QED
  BY <1>1, ThreadInvariant, PTL

\* No child thread is started on a node that has not loaded the application.
THEOREM NodesLoaded == Spec => []LoadedBeforeUse
<1>1. ThreadInv => LoadedBeforeUse
  BY DEF ThreadInv, EntriesMade, MainLast, LoadedBeforeUse, TypeOK, Gtid
<1> QED
  BY <1>1, ThreadInvariant, PTL
=============================================================================
