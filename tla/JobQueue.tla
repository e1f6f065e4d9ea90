------------------------------ MODULE JobQueue ------------------------------
(***************************************************************************)
(* The job machinery of ServerCore: JobQueue (push, execute), GlobalQueue, *)
(* JobTimer and the worker loop of GameServer that runs them.              *)
(*                                                                         *)
(* A step is one access to shared memory: an atomic read-modify-write on   *)
(* _jobCount or _distributing, or one critical section of a LockQueue.     *)
(* What a thread does between two such steps touches only its own locals   *)
(* and is part of the step before it.                                      *)
(*                                                                         *)
(* Clocks are not modelled: whether the 64 ms budget LEndTickCount of a    *)
(* worker is used up, and which reserved timer items are due, is a free    *)
(* choice, except that a worker that has run nothing since the top of its  *)
(* loop has only waited 10 ms and is still within its budget.              *)
(***************************************************************************)
EXTENDS Integers, Sequences, FiniteSets

CONSTANTS Workers,    \* the threads that run do_worker_job
          Outsiders,  \* other threads that post jobs: main and heartbeat
          Queues,     \* the JobQueue objects
          Jobs,       \* the jobs; each is created once
          NoQueue,    \* nullptr
          NoJob

ASSUME JobQueueAssumption ==
    /\ IsFiniteSet(Workers) /\ IsFiniteSet(Outsiders)
    /\ Workers \cap Outsiders = {}
    /\ NoQueue \notin Queues
    /\ NoJob \notin Jobs

Threads == Workers \cup Outsiders

VARIABLES
    jobs,          \* jobs[q]: _jobs, the LockQueue of q
    jobCount,      \* jobCount[q]: the atomic _jobCount
    globalQueue,   \* GGlobalQueue
    timerItems,    \* GJobTimer->_items: pairs <<owner, job>>
    distributing,  \* GJobTimer->_distributing
    alive,         \* the queues a weak_ptr can still lock
    phase,         \* phase[t]: where worker t is in its loop
    busy,          \* busy[t]: worker t has run something since the loop top
    due,           \* due[t]: timer items t took and has not pushed yet
    pushing,       \* pushing[t]: the activation of JobQueue::push, if any
    executing,     \* executing[t]: the activation of JobQueue::execute
    created,       \* jobs that were handed to push or to reserve
    ran            \* history, ran[q]: the jobs of q in the order they ended

queueVars == <<jobs, jobCount, globalQueue>>
timerVars == <<timerItems, distributing, due>>
loopVars  == <<phase, busy>>
vars == <<queueVars, timerVars, alive, loopVars, pushing, executing,
          created, ran>>

(***************************************************************************)
(* An activation of push: after fetch_add it is about to append its job;   *)
(* after appending, the thread that saw prev = 0 hands the queue over.     *)
(***************************************************************************)
PushFrame ==
    [pc: {"idle", "append", "handover"}, q: Queues \cup {NoQueue},
     job: Jobs \cup {NoJob}, only: BOOLEAN, prev: Nat]
NoPush == [pc |-> "idle", q |-> NoQueue, job |-> NoJob,
           only |-> FALSE, prev |-> 0]

(***************************************************************************)
(* An activation of execute: pop_all next, the loop over the batch, inside *)
(* a job's callback, or before the check of the time budget.  n is the     *)
(* local jobCount, batch the part of the vector jobs not finished yet.     *)
(***************************************************************************)
ExecFrame ==
    [pc: {"idle", "pop", "run", "job", "check"}, q: Queues \cup {NoQueue},
     batch: Seq(Jobs), n: Nat]
NoExec == [pc |-> "idle", q |-> NoQueue, batch |-> <<>>, n |-> 0]
StartExec(q) == [pc |-> "pop", q |-> q, batch |-> <<>>, n |-> 0]

TypeOK ==
    /\ jobs \in [Queues -> Seq(Jobs)]
    /\ jobCount \in [Queues -> Nat]
    /\ globalQueue \in Seq(Queues)
    /\ timerItems \in SUBSET (Queues \X Jobs)
    /\ distributing \in BOOLEAN
    /\ alive \in SUBSET Queues
    /\ phase \in [Threads -> {"dispatch", "timer", "take", "push", "global"}]
    /\ busy \in [Threads -> BOOLEAN]
    /\ due \in [Threads -> SUBSET (Queues \X Jobs)]
    /\ pushing \in [Threads -> PushFrame]
    /\ executing \in [Threads -> ExecFrame]
    /\ created \in SUBSET Jobs
    /\ ran \in [Queues -> Seq(Jobs)]

Init ==
    /\ jobs = [q \in Queues |-> <<>>]
    /\ jobCount = [q \in Queues |-> 0]
    /\ globalQueue = <<>>
    /\ timerItems = {}
    /\ distributing = FALSE
    /\ alive = Queues
    /\ phase = [t \in Threads |-> "dispatch"]
    /\ busy = [t \in Threads |-> FALSE]
    /\ due = [t \in Threads |-> {}]
    /\ pushing = [t \in Threads |-> NoPush]
    /\ executing = [t \in Threads |-> NoExec]
    /\ created = {}
    /\ ran = [q \in Queues |-> <<>>]

-----------------------------------------------------------------------------
(* Where a thread is *)

\* LCurrentJobQueue: set for the whole activation of execute.
LCurrentJobQueue(t) == executing[t].q

InJob(t) == executing[t].pc = "job"

\* A thread is in code that may post jobs: a completion handler, a job, or
\* the main and heartbeat threads at any time.
Posting(t) ==
    /\ pushing[t].pc = "idle"
    /\ \/ t \in Outsiders
       \/ InJob(t)
       \/ phase[t] = "dispatch"

\* A worker is at the top level of its loop, outside push and execute.
AtLoop(t, p) ==
    /\ t \in Workers
    /\ phase[t] = p
    /\ pushing[t].pc = "idle"
    /\ executing[t].pc = "idle"

-----------------------------------------------------------------------------
(* JobQueue::push *)

\* The first instruction of push: reserve a place in _jobCount.
FetchAdd(t, q, j, only) ==
    /\ pushing' = [pushing EXCEPT ![t] =
           [pc |-> "append", q |-> q, job |-> j, only |-> only,
            prev |-> jobCount[q]]]
    /\ jobCount' = [jobCount EXCEPT ![q] = @ + 1]

\* Session::queue_logic: every caller pushes with pushOnly = true.
Post(t, q, j) ==
    /\ Posting(t)
    /\ q \in alive
    /\ j \notin created
    /\ created' = created \cup {j}
    /\ FetchAdd(t, q, j, TRUE)
    /\ busy' = [busy EXCEPT ![t] = (t \in Workers)]
    /\ UNCHANGED <<jobs, globalQueue, timerVars, alive, phase, executing, ran>>

FirstPusher(prev) == prev = 0

\* _jobs.push(job); only the thread whose fetch_add returned 0 goes on.
AppendJob(t) ==
    LET f == pushing[t] IN
    /\ f.pc = "append"
    /\ jobs' = [jobs EXCEPT ![f.q] = Append(@, f.job)]
    /\ pushing' = [pushing EXCEPT ![t] =
           IF FirstPusher(f.prev) THEN [f EXCEPT !.pc = "handover"] ELSE NoPush]
    /\ UNCHANGED <<jobCount, globalQueue, timerVars, alive, loopVars,
                   executing, created, ran>>

\* A push from the timer runs the queue at once if the thread runs no queue.
ExecuteInline(t) ==
    LET f == pushing[t] IN
    /\ f.pc = "handover"
    /\ LCurrentJobQueue(t) = NoQueue /\ ~f.only
    /\ executing' = [executing EXCEPT ![t] = StartExec(f.q)]
    /\ pushing' = [pushing EXCEPT ![t] = NoPush]
    /\ UNCHANGED <<queueVars, timerVars, alive, loopVars, created, ran>>

\* Every other first pusher leaves the queue to the workers.
HandOver(t) ==
    LET f == pushing[t] IN
    /\ f.pc = "handover"
    /\ LCurrentJobQueue(t) # NoQueue \/ f.only
    /\ globalQueue' = Append(globalQueue, f.q)
    /\ pushing' = [pushing EXCEPT ![t] = NoPush]
    /\ UNCHANGED <<jobs, jobCount, timerVars, alive, loopVars, executing,
                   created, ran>>

-----------------------------------------------------------------------------
(* JobQueue::execute *)

\* Mutant: the batch is copied and left in the queue.
JobsLeft(q) == UNCHANGED jobs
JobsTaken(q) == jobs' = [jobs EXCEPT ![q] = <<>>]

PopAll(t) ==
    LET e == executing[t] IN
    /\ e.pc = "pop"
    /\ executing' = [executing EXCEPT ![t] =
           [e EXCEPT !.pc = "run", !.batch = jobs[e.q], !.n = Len(jobs[e.q])]]
    /\ JobsTaken(e.q)
    /\ UNCHANGED <<jobCount, globalQueue, timerVars, alive, loopVars, pushing,
                   created, ran>>

StartJob(t) ==
    LET e == executing[t] IN
    /\ e.pc = "run"
    /\ e.batch # <<>>
    /\ executing' = [executing EXCEPT ![t] = [e EXCEPT !.pc = "job"]]
    /\ busy' = [busy EXCEPT ![t] = TRUE]
    /\ UNCHANGED <<queueVars, timerVars, alive, phase, pushing, created, ran>>

FinishJob(t) ==
    LET e == executing[t] IN
    /\ e.pc = "job"
    /\ pushing[t].pc = "idle"
    /\ executing' = [executing EXCEPT ![t] =
           [e EXCEPT !.pc = "run", !.batch = Tail(e.batch)]]
    /\ ran' = [ran EXCEPT ![e.q] = Append(@, Head(e.batch))]
    /\ UNCHANGED <<queueVars, timerVars, alive, loopVars, pushing, created>>

CountLeft(q, n) == jobCount[q] - n

LastBatch(q, n) == jobCount[q] = n

\* _jobCount.fetch_sub(jobCount) == jobCount: nothing was added meanwhile.
FetchSub(t) ==
    LET e == executing[t] IN
    /\ e.pc = "run"
    /\ e.batch = <<>>
    /\ jobCount' = [jobCount EXCEPT ![e.q] = CountLeft(e.q, e.n)]
    /\ executing' = [executing EXCEPT ![t] =
           IF LastBatch(e.q, e.n) THEN NoExec
           ELSE [e EXCEPT !.pc = "check", !.n = 0]]
    /\ UNCHANGED <<jobs, globalQueue, timerVars, alive, loopVars, pushing,
                   created, ran>>

\* Work is left and the budget is not used up: another turn of the loop.
LoopAgain(t) ==
    /\ executing[t].pc = "check"
    /\ executing' = [executing EXCEPT ![t].pc = "pop"]
    /\ UNCHANGED <<queueVars, timerVars, alive, loopVars, pushing, created, ran>>

Dropped(q) == UNCHANGED globalQueue   \* Mutant: the queue is not handed over
HandedOver(q) == globalQueue' = Append(globalQueue, q)

\* Work is left and the budget is used up: hand the queue to the workers.
Yield(t) ==
    LET e == executing[t] IN
    /\ e.pc = "check"
    /\ HandedOver(e.q)
    /\ executing' = [executing EXCEPT ![t] = NoExec]
    /\ busy' = [busy EXCEPT ![t] = TRUE]
    /\ UNCHANGED <<jobs, jobCount, timerVars, alive, phase, pushing, created,
                   ran>>

-----------------------------------------------------------------------------
(* JobTimer *)

\* JobQueue::do_timer, called by the code that may also post.
Reserve(t, q, j) ==
    /\ Posting(t)
    /\ q \in alive
    /\ j \notin created
    /\ created' = created \cup {j}
    /\ timerItems' = timerItems \cup {<<q, j>>}
    /\ busy' = [busy EXCEPT ![t] = (t \in Workers)]
    /\ UNCHANGED <<queueVars, distributing, due, alive, phase, pushing,
                   executing, ran>>

\* _distributing.exchange(true): one thread at a time passes.
EnterDistribute(t) ==
    /\ AtLoop(t, "timer")
    /\ distributing' = TRUE
    /\ phase' = [phase EXCEPT ![t] = IF distributing THEN "global" ELSE "take"]
    /\ UNCHANGED <<queueVars, timerItems, due, alive, busy, pushing,
                   executing, created, ran>>

\* The locked loop that moves the due items out of the heap.
TakeDue(t, items) ==
    /\ AtLoop(t, "take")
    /\ timerItems' = timerItems \ items
    /\ due' = [due EXCEPT ![t] = items]
    /\ phase' = [phase EXCEPT ![t] = "push"]
    /\ UNCHANGED <<queueVars, distributing, alive, busy, pushing, executing,
                   created, ran>>

\* owner.lock() succeeds: push without pushOnly; it fails: drop the job.
DistributeItem(t, item) ==
    /\ AtLoop(t, "push")
    /\ item \in due[t]
    /\ due' = [due EXCEPT ![t] = @ \ {item}]
    /\ IF item[1] \in alive THEN FetchAdd(t, item[1], item[2], FALSE)
                            ELSE UNCHANGED <<pushing, jobCount>>
    /\ UNCHANGED <<jobs, globalQueue, timerItems, distributing, alive,
                   loopVars, executing, created, ran>>

StillDistributing == UNCHANGED distributing   \* Mutant: the flag stays set
DistributingReset == distributing' = FALSE

LeaveDistribute(t) ==
    /\ AtLoop(t, "push")
    /\ due[t] = {}
    /\ DistributingReset
    /\ phase' = [phase EXCEPT ![t] = "global"]
    /\ UNCHANGED <<queueVars, timerItems, due, alive, busy, pushing,
                   executing, created, ran>>

-----------------------------------------------------------------------------
(* The worker loop: do_worker_job and do_global_queue_work *)

\* IocpCore::dispatch(10) returned; any jobs it posted are posted.
EndDispatch(t) ==
    /\ AtLoop(t, "dispatch")
    /\ phase' = [phase EXCEPT ![t] = "timer"]
    /\ UNCHANGED <<queueVars, timerVars, alive, busy, pushing, executing,
                   created, ran>>

PopGlobal(t) ==
    /\ AtLoop(t, "global")
    /\ globalQueue # <<>>
    /\ executing' = [executing EXCEPT ![t] = StartExec(Head(globalQueue))]
    /\ globalQueue' = Tail(globalQueue)
    /\ UNCHANGED <<jobs, jobCount, timerVars, alive, loopVars, pushing,
                   created, ran>>

\* Nothing to pop, or the budget is used up: back to the top of the loop.
EndLoop(t) ==
    /\ AtLoop(t, "global")
    /\ globalQueue = <<>> \/ busy[t]
    /\ phase' = [phase EXCEPT ![t] = "dispatch"]
    /\ busy' = [busy EXCEPT ![t] = FALSE]
    /\ UNCHANGED <<queueVars, timerVars, alive, pushing, executing, created,
                   ran>>

\* The owner of q drops its reference while nothing else holds q: an entry
\* of the global queue, a push and an execute each hold a shared_ptr.
Expire(q) ==
    /\ q \in alive
    /\ jobCount[q] = 0
    /\ \A t \in Threads : pushing[t].q # q /\ executing[t].q # q
    /\ alive' = alive \ {q}
    /\ UNCHANGED <<queueVars, timerVars, loopVars, pushing, executing,
                   created, ran>>

-----------------------------------------------------------------------------
PushStep(t) == AppendJob(t) \/ ExecuteInline(t) \/ HandOver(t)

ExecuteStep(t) ==
    \/ PopAll(t) \/ StartJob(t) \/ FinishJob(t) \/ FetchSub(t)
    \/ LoopAgain(t) \/ Yield(t)

TimerStep(t) ==
    \/ EnterDistribute(t)
    \/ \E items \in SUBSET timerItems : TakeDue(t, items)
    \/ \E item \in due[t] : DistributeItem(t, item)
    \/ LeaveDistribute(t)

LoopStep(t) == EndDispatch(t) \/ PopGlobal(t) \/ EndLoop(t)

ThreadStep(t) == PushStep(t) \/ ExecuteStep(t) \/ TimerStep(t) \/ LoopStep(t)

Environment(t) ==
    \E q \in Queues, j \in Jobs : Post(t, q, j) \/ Reserve(t, q, j)

Next ==
    \/ \E t \in Threads : ThreadStep(t) \/ Environment(t)
    \/ \E q \in Queues : Expire(q)

(***************************************************************************)
(* Every thread keeps running.  Ticks grow without bound, so a worker that *)
(* reaches the heap again and again eventually finds every item due.       *)
(***************************************************************************)
Fairness ==
    /\ \A t \in Threads : WF_vars(ThreadStep(t))
    /\ SF_vars(\E t \in Workers : TakeDue(t, timerItems))

Spec == Init /\ [][Next]_vars
FairSpec == Spec /\ Fairness

-----------------------------------------------------------------------------
(* Safety *)

\* A thread that must still execute q or hand q over: it runs execute on q,
\* or its fetch_add on q returned 0.
Responsible(t, q) ==
    \/ executing[t].q = q
    \/ pushing[t].q = q /\ pushing[t].prev = 0

\* As in SequencesExt, which would bring many more modules into the proofs.
Contains(s, e) == \E i \in 1..Len(s) : s[i] = e

InGlobal(q) == Contains(globalQueue, q)

\* Threads between fetch_add and _jobs.push on q.
Appending(q) == {t \in Threads : pushing[t].pc = "append" /\ pushing[t].q = q}

(***************************************************************************)
(* Two threads never execute the same queue, so two jobs of one queue      *)
(* never overlap: JobQueue.cpp claims it by letting only the thread that   *)
(* raised _jobCount from 0 start an execution.                             *)
(***************************************************************************)
OneExecutor ==
    \A q \in Queues, t, u \in Threads :
        executing[t].q = q /\ executing[u].q = q => t = u

(***************************************************************************)
(* Exactly one party answers for a queue whose count is not 0, and none    *)
(* for a queue whose count is 0: a thread that executes it or will hand it *)
(* over, or one entry of the global queue.                                 *)
(***************************************************************************)
OneResponsibleFor(q) ==
    /\ \A t, u \in Threads : Responsible(t, q) /\ Responsible(u, q) => t = u
    /\ \A t \in Threads :
           ~(executing[t].q = q /\ pushing[t].q = q /\ pushing[t].prev = 0)
    /\ InGlobal(q) => \A t \in Threads : ~Responsible(t, q)
    /\ jobCount[q] = 0 <=>
           ~InGlobal(q) /\ \A t \in Threads : ~Responsible(t, q)

OneResponsible == \A q \in Queues : OneResponsibleFor(q)

(***************************************************************************)
(* A queue is in the global queue at most once, so the global queue never  *)
(* grows beyond the number of queues and no worker pops a queue another    *)
(* worker already executes.                                                *)
(***************************************************************************)
GlobalQueueDistinct ==
    \A i, j \in 1..Len(globalQueue) : globalQueue[i] = globalQueue[j] => i = j

(***************************************************************************)
(* _jobCount counts the jobs in _jobs, the jobs of the batch in execution  *)
(* and the pushes that have not appended yet.  It is never negative, and   *)
(* fetch_sub returns the batch size exactly when nothing else is left.     *)
(***************************************************************************)
CountExactFor(q) ==
    /\ \A t \in Threads :
           executing[t].q = q =>
               jobCount[q] = Len(jobs[q]) + Cardinality(Appending(q)) + executing[t].n
    /\ (\A t \in Threads : executing[t].q # q) =>
           jobCount[q] = Len(jobs[q]) + Cardinality(Appending(q))

CountExact == \A q \in Queues : CountExactFor(q)

\* A job in a queue always has a worker coming for it: no lost wake-up.
NoStrandedJob ==
    \A q \in Queues :
        jobs[q] # <<>> => InGlobal(q) \/ \E t \in Threads : Responsible(t, q)

-----------------------------------------------------------------------------
(* Implementation of the abstract executor *)

BatchOf(q) ==
    IF \E t \in Threads : executing[t].q = q
    THEN executing[CHOOSE t \in Threads : executing[t].q = q].batch
    ELSE <<>>

JobRunning(q) == \E t \in Threads : executing[t].q = q /\ InJob(t)

RunningJob == [q \in Queues |-> IF JobRunning(q) THEN Head(BatchOf(q)) ELSE NoJob]

WaitingJobs ==
    [q \in Queues |->
        (IF JobRunning(q) THEN Tail(BatchOf(q)) ELSE BatchOf(q)) \o jobs[q]]

Executor == INSTANCE SerialExecutor
                WITH waiting <- WaitingJobs, running <- RunningJob, finished <- ran

(***************************************************************************)
(* JobQueue implements SerialExecutor: per queue the jobs run one at a     *)
(* time, in the order they entered _jobs, each once, and every job that    *)
(* entered is run, whatever the threads do.                                *)
(***************************************************************************)
ImplementsSerialExecutor == Executor!Spec

\* A job given to do_timer runs, unless its queue is gone when it is due.
ReservedJobsRun ==
    \A q \in Queues, j \in Jobs :
        <<q, j>> \in timerItems ~> Contains(ran[q], j) \/ q \notin alive
=============================================================================
