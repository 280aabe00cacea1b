----------------------------- MODULE WorkerServer ---------------------------
(***************************************************************************)
(* The server of the vendored TBB that lends its worker threads to the     *)
(* market (private_server).  my_slack is the number of jobs asked for less *)
(* the number of active threads.  A worker that finds it negative goes to  *)
(* sleep on a list; a thread that raises it wakes two workers of the list, *)
(* and every woken worker wakes two more.  A worker sleeps in two phases   *)
(* on its thread_monitor, whose semaphore is a futex word.  Client threads *)
(* ask for jobs and give them back, and one of them closes the server.     *)
(***************************************************************************)
EXTENDS Integers, Sequences, FiniteSets

CONSTANTS
    Worker,   \* the workers 1..my_n_thread
    Client,   \* threads that call the server
    Calls     \* the changes of the job count each client may make, as sequences

VARIABLES
    my_slack, my_net_slack_requests, my_ref_count,
    my_asleep_list_root, my_next, \* list of workers asleep or without a thread, 0 for NULL
    mutex,    \* who holds my_asleep_list_mutex
    my_state, \* of each worker
    mon,      \* thread_monitor of each worker
    left,     \* calls each client has still to make
    closing, acknowledged,
    th        \* what each thread is at

vars == <<my_slack, my_net_slack_requests, my_ref_count, my_asleep_list_root, my_next,
          mutex, my_state, mon, left, closing, acknowledged, th>>
slackVars == <<my_slack, my_net_slack_requests>>
list == <<my_asleep_list_root, my_next>>
listVars  == <<list, mutex>>
endVars   == <<my_ref_count, closing, acknowledged>>

Thread == Worker \cup Client
n_thread == Cardinality(Worker)

\* wakee: workers taken from the list; add: slack to contribute; ep: the epoch
\* loaded; then: where wake_some returns to; after: where a call of the monitor
\* returns to; i: the worker whose monitor it is
AtRest(p) == [pc |-> p, wakee |-> <<>>, add |-> 0, ep |-> 0, then |-> p, after |-> p, i |-> 0]

Init ==
    /\ my_slack = 0 /\ my_net_slack_requests = 0 /\ my_ref_count = n_thread + 1
    /\ my_asleep_list_root = n_thread /\ my_next = [w \in Worker |-> w - 1] /\ mutex = {}
    /\ my_state = [w \in Worker |-> "init"]
    /\ mon = [w \in Worker |-> [epoch |-> 0, in_wait |-> FALSE, spurious |-> FALSE, sem |-> 1]]
    /\ left \in Calls /\ closing = FALSE /\ acknowledged = FALSE
    /\ th = [t \in Thread |-> AtRest(IF t \in Worker THEN "none" ELSE "idle")]

At(t, p) == th[t].pc = p
Set(t, r) == th' = [th EXCEPT ![t] = r]
Goto(t, p) == Set(t, [th[t] EXCEPT !.pc = p])

-----------------------------------------------------------------------------
(* adjust_job_count_estimate and wake_some.                                *)

adjust_job_count_estimate(t) ==
    /\ At(t, "idle") /\ left[t] # <<>> /\ ~closing
    /\ left' = [left EXCEPT ![t] = Tail(@)]
    /\ LET delta == Head(left[t])
       IN  /\ my_net_slack_requests' = my_net_slack_requests + delta
           /\ \/ delta < 0 /\ my_slack' = my_slack + delta /\ UNCHANGED th
              \/ delta > 0 /\ Set(t, [th[t] EXCEPT !.pc = "lock", !.add = delta])
                           /\ UNCHANGED my_slack
    /\ UNCHANGED <<listVars, my_state, mon, endVars>>

propagate_chain_reaction(t) ==
    /\ At(t, "root")
    /\ IF my_asleep_list_root = 0 THEN Goto(t, th[t].then) ELSE Goto(t, "lock")
    /\ UNCHANGED <<slackVars, listVars, my_state, mon, left, endVars>>

lockList(t) ==
    /\ At(t, "lock") /\ mutex = {}
    /\ mutex' = {t} /\ Goto(t, "claim")
    /\ UNCHANGED <<slackVars, list, my_state, mon, left, endVars>>

\* One worker of the list for one unit of slack, the caller's own ones first.
claim(t) ==
    /\ At(t, "claim") /\ my_asleep_list_root # 0 /\ Len(th[t].wakee) < 2
    /\ \/ /\ th[t].add > 0 /\ UNCHANGED my_slack
          /\ Set(t, [th[t] EXCEPT !.add = @ - 1, !.wakee = Append(@, my_asleep_list_root)])
       \/ /\ th[t].add = 0 /\ my_slack > 0 /\ my_slack' = my_slack - 1
          /\ Set(t, [th[t] EXCEPT !.wakee = Append(@, my_asleep_list_root)])
    /\ my_asleep_list_root' = my_next[my_asleep_list_root]
    /\ UNCHANGED <<my_net_slack_requests, my_next, mutex, my_state, mon, left, endVars>>

claimed(t) ==
    /\ At(t, "claim")
    /\ my_asleep_list_root = 0 \/ Len(th[t].wakee) = 2 \/ (th[t].add = 0 /\ my_slack <= 0)
    /\ my_slack' = my_slack + th[t].add /\ mutex' = {}
    /\ Set(t, [th[t] EXCEPT !.pc = "wake", !.add = 0])
    /\ UNCHANGED <<my_net_slack_requests, list, my_state, mon, left, endVars>>

wake_or_launch(t) ==
    LET q == th[t].wakee
        w == q[Len(q)]
        rest == [th[t] EXCEPT !.wakee = SubSeq(q, 1, Len(q) - 1)]
    IN  /\ At(t, "wake")
        /\ \/ q = <<>> /\ Goto(t, th[t].then) /\ UNCHANGED my_state
           \/ /\ q # <<>> /\ my_state[w] = "init"
              /\ my_state' = [my_state EXCEPT ![w] = "starting"]
              /\ th' = [th EXCEPT ![t] = rest,
                                  ![w] = [AtRest("root") EXCEPT !.then = "start"]]
           \/ /\ q # <<>> /\ my_state[w] # "init"
              /\ Set(t, [rest EXCEPT !.pc = "notify", !.after = "wake", !.i = w])
              /\ UNCHANGED my_state
        /\ UNCHANGED <<slackVars, listVars, mon, left, endVars>>

-----------------------------------------------------------------------------
(* thread_monitor::notify and binary_semaphore::V.                         *)

Monitor(w, f, v) == mon' = [mon EXCEPT ![w][f] = v]

loadEpoch(t) ==
    /\ At(t, "notify") /\ Set(t, [th[t] EXCEPT !.pc = "bump", !.ep = mon[th[t].i].epoch])
    /\ UNCHANGED <<slackVars, listVars, my_state, mon, left, endVars>>

storeEpoch(t) ==
    /\ At(t, "bump") /\ Goto(t, "signal")
    /\ Monitor(th[t].i, "epoch", th[t].ep + 1)
    /\ UNCHANGED <<slackVars, listVars, my_state, left, endVars>>

\* Fault: the flag is read and not taken.
Taken_Not(w) == TRUE

\* What notify leaves in in_wait.
Taken(w) == FALSE

signal(t) ==
    /\ At(t, "signal")
    /\ Goto(t, IF mon[th[t].i].in_wait THEN "post" ELSE th[t].after)
    /\ Monitor(th[t].i, "in_wait", mon[th[t].i].in_wait /\ Taken(th[t].i))
    /\ UNCHANGED <<slackVars, listVars, my_state, left, endVars>>

V(t) ==
    /\ At(t, "post")
    /\ Goto(t, IF mon[th[t].i].sem = 1 THEN th[t].after ELSE "wakeup")
    /\ Monitor(th[t].i, "sem", mon[th[t].i].sem - 1)
    /\ UNCHANGED <<slackVars, listVars, my_state, left, endVars>>

futex_wakeup_one(t) ==
    /\ At(t, "wakeup") /\ Goto(t, th[t].after) /\ Monitor(th[t].i, "sem", 0)
    /\ UNCHANGED <<slackVars, listVars, my_state, left, endVars>>

-----------------------------------------------------------------------------
(* A worker: binary_semaphore::P, the two-phase wait, and run.             *)

P(w) ==
    /\ At(w, "P")
    /\ IF mon[w].sem = 0
       THEN Monitor(w, "sem", 1) /\ Goto(w, th[w].after)
       ELSE Goto(w, IF mon[w].sem = 2 THEN "futex" ELSE "swap") /\ UNCHANGED mon
    /\ UNCHANGED <<slackVars, listVars, my_state, left, endVars>>

swapSem(w) ==
    /\ At(w, "swap") /\ Monitor(w, "sem", 2)
    /\ Goto(w, IF mon[w].sem = 0 THEN th[w].after ELSE "futex")
    /\ UNCHANGED <<slackVars, listVars, my_state, left, endVars>>

\* It returns when the word is no longer 2, or when it is woken after that.
futex_wait(w) ==
    /\ At(w, "futex") /\ mon[w].sem # 2 /\ Goto(w, "swap")
    /\ UNCHANGED <<slackVars, listVars, my_state, mon, left, endVars>>

prepare_wait(w) ==
    /\ At(w, "prepare")
    /\ IF mon[w].spurious
       THEN Set(w, [th[w] EXCEPT !.pc = "P", !.after = "cookie"])
            /\ Monitor(w, "spurious", FALSE)
       ELSE Goto(w, "cookie") /\ UNCHANGED mon
    /\ UNCHANGED <<slackVars, listVars, my_state, left, endVars>>

readCookie(w) ==
    /\ At(w, "cookie") /\ Set(w, [th[w] EXCEPT !.pc = "in_wait", !.ep = mon[w].epoch])
    /\ UNCHANGED <<slackVars, listVars, my_state, mon, left, endVars>>

setInWait(w) ==
    /\ At(w, "in_wait") /\ Monitor(w, "in_wait", TRUE)
    /\ IF my_state[w] = "normal"
       THEN Goto(w, "insert")
       ELSE Set(w, [th[w] EXCEPT !.pc = "cancel", !.after = "loop"])
    /\ UNCHANGED <<slackVars, listVars, my_state, left, endVars>>

\* try_insert_in_asleep_list: the mutex is held until the list is changed or
\* the slack is taken back.
try_insert_in_asleep_list(w) ==
    /\ At(w, "insert") /\ mutex = {}
    /\ my_slack' = my_slack + 1
    /\ IF my_slack + 1 <= 0
       THEN /\ my_next' = [my_next EXCEPT ![w] = my_asleep_list_root]
            /\ my_asleep_list_root' = w /\ UNCHANGED mutex
            /\ Goto(w, "commit")
       ELSE mutex' = {w} /\ Goto(w, "undo") /\ UNCHANGED list
    /\ UNCHANGED <<my_net_slack_requests, my_state, mon, left, endVars>>

undoInsert(w) ==
    /\ At(w, "undo") /\ my_slack' = my_slack - 1 /\ mutex' = {}
    /\ Set(w, [th[w] EXCEPT !.pc = "cancel", !.after = "loop"])
    /\ UNCHANGED <<my_net_slack_requests, list, my_state, mon, left, endVars>>

commit_wait(w) ==
    /\ At(w, "commit")
    /\ Set(w, [th[w] EXCEPT !.pc = IF th[w].ep = mon[w].epoch THEN "P" ELSE "cancel",
                            !.after = "root", !.then = "loop"])
    /\ UNCHANGED <<slackVars, listVars, my_state, mon, left, endVars>>

cancel_wait(w) ==
    /\ At(w, "cancel") /\ Goto(w, th[w].after)
    /\ mon' = [mon EXCEPT ![w].spurious = ~mon[w].in_wait, ![w].in_wait = FALSE]
    /\ UNCHANGED <<slackVars, listVars, my_state, left, endVars>>

startNormal(w) ==
    /\ At(w, "start")
    /\ IF my_state[w] = "starting"
       THEN my_state' = [my_state EXCEPT ![w] = "normal"] /\ Goto(w, "loop")
       ELSE Goto(w, "exit") /\ UNCHANGED my_state
    /\ UNCHANGED <<slackVars, listVars, mon, left, endVars>>

loop(w) ==
    /\ At(w, "loop")
    /\ Goto(w, CASE my_state[w] # "normal" -> "exit"
                 [] my_slack >= 0 -> "process"
                 [] OTHER -> "prepare")
    /\ UNCHANGED <<slackVars, listVars, my_state, mon, left, endVars>>

\* market::process returns when no arena needs the worker.
process(w) ==
    /\ At(w, "process") /\ Goto(w, "loop")
    /\ UNCHANGED <<slackVars, listVars, my_state, mon, left, endVars>>

exit(w) ==
    /\ At(w, "exit") /\ my_slack' = my_slack + 1 /\ Goto(w, "unref")
    /\ UNCHANGED <<my_net_slack_requests, listVars, my_state, mon, left, endVars>>

-----------------------------------------------------------------------------
(* request_close_connection.                                               *)

\* References that start_shutdown gives up in the place of the worker.
References(s) == IF s = "init" THEN 1 ELSE 0

\* The market closes its server when it has no demand any more.
request_close_connection(t) ==
    /\ At(t, "idle") /\ ~closing /\ my_net_slack_requests = 0
    /\ \A c \in Client : At(c, "idle") /\ left[c] = <<>>
    /\ closing' = TRUE /\ Set(t, [th[t] EXCEPT !.pc = "shutdown", !.i = 1])
    /\ UNCHANGED <<slackVars, my_ref_count, listVars, my_state, mon, left, acknowledged>>

start_shutdown(t) ==
    LET w == th[t].i
        s == my_state[w]
    IN  /\ At(t, "shutdown") /\ w <= n_thread
        /\ my_state' = [my_state EXCEPT ![w] = IF s = "starting" THEN "plugged" ELSE "quit"]
        /\ my_ref_count' = my_ref_count - References(s)
        /\ Set(t, [th[t] EXCEPT !.pc = IF s = "normal" THEN "notify" ELSE "next",
                                !.after = "next"])
        /\ UNCHANGED <<slackVars, listVars, mon, left, closing, acknowledged>>

nextShutdown(t) ==
    /\ At(t, "next")
    /\ Set(t, [th[t] EXCEPT !.pc = IF th[t].i = n_thread THEN "unref" ELSE "shutdown",
                            !.i = @ + 1])
    /\ UNCHANGED <<slackVars, listVars, my_state, mon, left, endVars>>

remove_server_ref(t) ==
    /\ At(t, "unref") /\ Goto(t, "ended")
    /\ my_ref_count' = my_ref_count - 1
    /\ acknowledged' = (acknowledged \/ my_ref_count = 1)
    /\ UNCHANGED <<slackVars, listVars, my_state, mon, left, closing>>

-----------------------------------------------------------------------------
\* The steps a thread takes on its own in a call or in run.
Work(t) ==
    \/ propagate_chain_reaction(t) \/ lockList(t) \/ claim(t) \/ claimed(t)
    \/ wake_or_launch(t) \/ loadEpoch(t) \/ storeEpoch(t) \/ signal(t) \/ V(t)
    \/ futex_wakeup_one(t) \/ start_shutdown(t) \/ nextShutdown(t) \/ remove_server_ref(t)

Run(w) ==
    \/ P(w) \/ swapSem(w) \/ futex_wait(w) \/ prepare_wait(w) \/ readCookie(w)
    \/ setInWait(w) \/ try_insert_in_asleep_list(w) \/ undoInsert(w) \/ commit_wait(w)
    \/ cancel_wait(w) \/ startNormal(w) \/ loop(w) \/ process(w) \/ exit(w)

Finished == /\ \A t \in Thread : th[t].pc \in {"ended", "none", "idle"}
            /\ closing /\ UNCHANGED vars

Next == \/ \E t \in Client : adjust_job_count_estimate(t) \/ request_close_connection(t)
        \/ \E t \in Thread : Work(t)
        \/ \E w \in Worker : Run(w)
        \/ Finished

-----------------------------------------------------------------------------
Processing(w) == /\ th[w].pc \in {"loop", "process"}
                 /\ my_state[w] = "normal" /\ my_slack >= 0

\* A thread that stays where it is until a client calls.
AtEase(t) == \/ th[t].pc \in {"idle", "none", "ended"}
             \/ t \in Worker /\ (Processing(t) \/ (At(t, "futex") /\ mon[t].sem = 2))

Fewer(x, y) == IF x < y THEN x ELSE y

(***************************************************************************)
(* When everybody is at ease, the jobs asked for have their workers, as    *)
(* many as there are, whoever was falling asleep or waking while the       *)
(* demand changed (wake_some, try_insert_in_asleep_list, thread_monitor);  *)
(* and a server that was closed has been deleted.  It is deleted only when *)
(* nobody is in it any more, though workers and clients give up their      *)
(* references in any order, those without a thread through the one who     *)
(* closes (remove_server_ref, start_shutdown).  A semaphore is not posted  *)
(* twice, "multiple V()'s in a row?" (semaphore.h:219), although two       *)
(* threads may notify one worker.                                          *)
(***************************************************************************)
ServerSound ==
    /\ (\A t \in Thread : AtEase(t)) =>
          IF closing THEN acknowledged
          ELSE Cardinality({w \in Worker : Processing(w)})
                  >= Fewer(my_net_slack_requests, n_thread)
    /\ acknowledged => \A t \in Thread : th[t].pc \in {"ended", "none", "idle"}
    /\ \A t \in Thread : At(t, "post") => mon[th[t].i].sem >= 1
=============================================================================
