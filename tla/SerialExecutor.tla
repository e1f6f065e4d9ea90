--------------------------- MODULE SerialExecutor ---------------------------
(***************************************************************************)
(* What a JobQueue promises to the code that posts jobs to it: the jobs of *)
(* one queue run one at a time, in the order in which they entered the     *)
(* queue, each exactly once, and every job that entered the queue is       *)
(* eventually run.  Threads, counters and the global queue do not appear   *)
(* here; module JobQueue implements this specification.                    *)
(***************************************************************************)
EXTENDS Naturals, Sequences

CONSTANTS Queues,   \* the job queues
          Jobs,     \* the jobs; a job is submitted at most once
          NoJob     \* "no job is running"

VARIABLES waiting,  \* waiting[q]: submitted to q and not started, in order
          running,  \* running[q]: the job of q that is running, or NoJob
          finished  \* finished[q]: the jobs of q that have run, in order

vars == <<waiting, running, finished>>

ToSet(s) == {s[i] : i \in DOMAIN s}

Submitted(q) == ToSet(waiting[q]) \cup {running[q]} \cup ToSet(finished[q])

Init ==
    /\ waiting = [q \in Queues |-> <<>>]
    /\ running = [q \in Queues |-> NoJob]
    /\ finished = [q \in Queues |-> <<>>]

Submit(q, j) ==
    /\ \A p \in Queues : j \notin Submitted(p)
    /\ waiting' = [waiting EXCEPT ![q] = Append(@, j)]
    /\ UNCHANGED <<running, finished>>

Start(q) ==
    /\ running[q] = NoJob
    /\ waiting[q] # <<>>
    /\ running' = [running EXCEPT ![q] = Head(waiting[q])]
    /\ waiting' = [waiting EXCEPT ![q] = Tail(@)]
    /\ UNCHANGED finished

Finish(q) ==
    /\ running[q] # NoJob
    /\ finished' = [finished EXCEPT ![q] = Append(@, running[q])]
    /\ running' = [running EXCEPT ![q] = NoJob]
    /\ UNCHANGED waiting

Next ==
    \E q \in Queues :
        \/ \E j \in Jobs : Submit(q, j)
        \/ Start(q)
        \/ Finish(q)

Fairness ==
    \A q \in Queues : WF_vars(Start(q)) /\ WF_vars(Finish(q))

Spec == Init /\ [][Next]_vars /\ Fairness
=============================================================================
