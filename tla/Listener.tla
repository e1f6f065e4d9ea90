------------------------------ MODULE Listener ------------------------------
(***************************************************************************)
(* The accept slots of Listener, the sessions that Service creates for     *)
(* them, and the order in which main of GameServer ends the process.       *)
(*                                                                         *)
(* A slot is one AcceptEvent.  Main posts every slot, then starts the      *)
(* workers and the background threads.  A worker takes the completion of a *)
(* slot, hands the session over and posts the slot again, or leaves it to  *)
(* a timer job of _accept_retry_queue.  A step is one critical section of  *)
(* the listener's WRITE_LOCK, of _sessions_lock or of _completion_lock;    *)
(* register_accept is cut in two around AcceptEx, and holds the lock in    *)
(* between.                                                                *)
(*                                                                         *)
(* What a session does once it is handed over is module Session; here it   *)
(* is "up" until its I/O and its jobs are done.  The kernel is external.   *)
(***************************************************************************)
EXTENDS Integers, FiniteSets

CONSTANTS Slots,      \* the AcceptEvents (ACCEPT_COUNT of them)
          Workers,    \* threads that run do_worker_job
          Background, \* the heartbeat and the statistics thread
          Sessions,   \* bound: Session objects that exist at a time
          Nobody      \* no session, no slot, no thread

ASSUME ListenerAssumption ==
    /\ IsFiniteSet(Slots) /\ IsFiniteSet(Workers) /\ IsFiniteSet(Sessions)
    /\ Nobody \notin Slots \cup Workers \cup Sessions \cup {"main"}
    /\ "main" \notin Workers

Threads == Workers \cup {"main"}

VARIABLES
    acceptStopped,  \* _accept_stopped; the socket is closed with it
    lock,           \* holder of the listener's WRITE_LOCK between two steps
    slotSession,    \* slotSession[s]: AcceptEvent::_session
    slotOwner,      \* slotOwner[s]: the event holds the listener
    posted,         \* posted[s]: AcceptEx requests the kernel holds
    pendingIo,      \* the listener's _pending_io
    timer,          \* timer[s]: retry jobs of s in GJobTimer
    queued,         \* queued[s]: retry jobs of s in _accept_retry_queue
    serviceHolds,   \* ServerService::_listener is set
    destroyed,      \* ~Listener has run, the AcceptEvents are deleted
    closing,        \* Service::_closing
    sess,           \* sess[x]: state of a Session object
    snapshot,       \* the vector sessions of Service::close_service
    begun,          \* sessions on which begin_shutdown was called
    mainPc, toStart,\* main, and the slots start_accept has not posted yet
    running,        \* workers_running
    stopRequested,  \* StopSignal::_requested
    bg,             \* bg[b]: a background thread
    pc, slot, held, \* pc[t], slot[t], held[t]: thread t, its slot and session
    retrying,       \* the slot job of t runs in _accept_retry_queue
    abandoned       \* history: slots given up in register_accept

slotVars   == <<slotSession, slotOwner, posted>>
timerVars  == <<timer, queued, retrying>>
locals     == <<pc, slot, held>>
listenVars == <<acceptStopped, lock, slotVars, pendingIo, timerVars, locals, abandoned>>
svcVars    == <<closing, sess, snapshot, begun>>
mainVars   == <<mainPc, toStart, running, stopRequested, serviceHolds>>
vars       == <<listenVars, destroyed, svcVars, mainVars, bg>>

SessionStates == {"free", "new", "up", "quiet"}
MainLabels == {"start", "run", "join", "closeSocket", "waitIo", "collect", "begin",
               "wait", "reset", "stopWorkers", "joinWorkers", "clear", "exit"}
ThreadLabels == {"idle", "accept", "connect", "register", "post", "return", "finish",
                 "exited"}

TypeOK ==
    /\ acceptStopped \in BOOLEAN /\ lock \in Threads \cup {Nobody}
    /\ slotSession \in [Slots -> Sessions \cup {Nobody}]
    /\ slotOwner \in [Slots -> BOOLEAN] /\ posted \in [Slots -> Nat]
    /\ pendingIo \in Nat
    /\ timer \in [Slots -> Nat] /\ queued \in [Slots -> Nat]
    /\ retrying \in Workers \cup {Nobody}
    /\ serviceHolds \in BOOLEAN /\ destroyed \in BOOLEAN /\ closing \in BOOLEAN
    /\ sess \in [Sessions -> SessionStates]
    /\ snapshot \subseteq Sessions /\ begun \subseteq snapshot
    /\ mainPc \in MainLabels /\ toStart \subseteq Slots
    /\ running \in BOOLEAN /\ stopRequested \in BOOLEAN
    /\ bg \in [Background -> {"work", "wait", "exited"}]
    /\ pc \in [Threads -> ThreadLabels]
    /\ slot \in [Threads -> Slots \cup {Nobody}]
    /\ held \in [Threads -> Sessions \cup {Nobody}]
    /\ abandoned \subseteq Slots

Init ==
    /\ acceptStopped = FALSE /\ lock = Nobody
    /\ slotSession = [s \in Slots |-> Nobody] /\ slotOwner = [s \in Slots |-> FALSE]
    /\ posted = [s \in Slots |-> 0] /\ pendingIo = 0
    /\ timer = [s \in Slots |-> 0] /\ queued = [s \in Slots |-> 0] /\ retrying = Nobody
    /\ serviceHolds = TRUE /\ destroyed = FALSE /\ closing = FALSE
    /\ sess = [x \in Sessions |-> "free"] /\ snapshot = {} /\ begun = {}
    /\ mainPc = "start" /\ toStart = Slots
    /\ running = FALSE /\ stopRequested = FALSE
    /\ bg = [b \in Background |-> "work"]
    /\ pc = [t \in Threads |-> "idle"] /\ slot = [t \in Threads |-> Nobody]
    /\ held = [t \in Threads |-> Nobody] /\ abandoned = {}

-----------------------------------------------------------------------------
(* Control and lifetimes *)

At(t, l) == pc[t] = l
Goto(t, l) == pc' = [pc EXCEPT ![t] = l]

\* The thread leaves the listener's code with no slot and no session.
Leave(t, l) ==
    /\ Goto(t, l)
    /\ slot' = [slot EXCEPT ![t] = Nobody] /\ held' = [held EXCEPT ![t] = Nobody]

\* A worker that is free for its next completion, timer item or job.
Free(w) == w \in Workers /\ At(w, "idle") /\ running

\* Threads that hold a shared_ptr to the listener: the local of
\* IocpCore::dispatch, or the one the retry job has locked.
Users == {t \in Threads : ~ At(t, "idle") /\ ~ At(t, "exited")}

\* shared_ptr: the object goes with its last holder.
DestroyListener ==
    destroyed' = (destroyed \/ ~ (serviceHolds' \/ (\E s \in Slots : slotOwner'[s])
                                  \/ Users' # {}))

\* The session of a thread that returns before the session was handed over is
\* destroyed, and ~Session takes it out of _live_sessions.
Dispose(x) == sess' = [y \in Sessions |-> IF y = x THEN "free" ELSE sess[y]]

Reserve(s) == timer' = [timer EXCEPT ![s] = @ + 1]

-----------------------------------------------------------------------------
(* Listener::register_accept *)

\* After the session has been created or refused the lock is kept until AcceptEx
\* has answered.
CreateSession(t, x) ==
    /\ sess[x] = "free" /\ ~ closing
    /\ sess' = [sess EXCEPT ![x] = "new"]
    /\ slotSession' = [slotSession EXCEPT ![slot[t]] = x]
    /\ slotOwner' = [slotOwner EXCEPT ![slot[t]] = TRUE]
    /\ held' = [held EXCEPT ![t] = x]
    /\ pendingIo' = pendingIo + 1
    /\ lock' = t
    /\ Goto(t, "post")
    /\ UNCHANGED <<timer, slot>>

\* Where register_accept returns to.
AfterRegister(t) == IF t \in Workers /\ retrying # t THEN "finish" ELSE "return"

\* The factory, the socket or the registration fails, or the service closes.
CreateFails(t) ==
    /\ slotSession' = [slotSession EXCEPT ![slot[t]] = Nobody]
    /\ slotOwner' = [slotOwner EXCEPT ![slot[t]] = FALSE]
    /\ Reserve(slot[t])
    /\ Leave(t, AfterRegister(t))
    /\ UNCHANGED <<lock, pendingIo, sess>>

RegisterStopped(t) ==
    /\ Leave(t, AfterRegister(t))
    /\ UNCHANGED <<lock, slotSession, slotOwner, pendingIo, timer, sess>>

RegisterAccept(t) ==
    /\ At(t, "register") /\ lock = Nobody
    /\ \/ acceptStopped /\ RegisterStopped(t)
       \/ ~ acceptStopped /\ \E x \in Sessions : CreateSession(t, x)
       \/ ~ acceptStopped /\ CreateFails(t)
    /\ UNCHANGED <<acceptStopped, posted, queued, retrying, abandoned, destroyed,
                   closing, snapshot, begun, mainVars, bg>>

\* AcceptEx is pending or has succeeded: the kernel owns the event.
AcceptExPending(t) ==
    /\ posted' = [posted EXCEPT ![slot[t]] = @ + 1]
    /\ UNCHANGED <<slotSession, slotOwner, pendingIo, timer, abandoned, sess>>

\* AcceptEx fails at once: no completion will come, so the references and the
\* count are given back here.
AcceptExFails(t) ==
    /\ slotSession' = [slotSession EXCEPT ![slot[t]] = Nobody]
    /\ slotOwner' = [slotOwner EXCEPT ![slot[t]] = FALSE]
    /\ Dispose(held[t])
    /\ pendingIo' = pendingIo - 1
    /\ \/ Reserve(slot[t]) /\ UNCHANGED abandoned
       \/ abandoned' = abandoned \cup {slot[t]} /\ UNCHANGED timer
    /\ UNCHANGED posted

PostAccept(t) ==
    /\ At(t, "post")
    /\ AcceptExPending(t) \/ AcceptExFails(t)
    /\ lock' = Nobody
    /\ Leave(t, AfterRegister(t))
    /\ UNCHANGED <<acceptStopped, queued, retrying, destroyed, closing, snapshot,
                   begun, mainVars, bg>>

-----------------------------------------------------------------------------
(* The completion: IocpCore::dispatch and Listener::process_accept *)

\* The kernel completes an accept, with a client or with an error, and a worker
\* takes it; a completion whose event has no owner would be dropped.
Dispatch(w, s) ==
    /\ Free(w) /\ posted[s] > 0
    /\ posted' = [posted EXCEPT ![s] = @ - 1]
    /\ IF slotOwner[s]
       THEN Goto(w, "accept") /\ slot' = [slot EXCEPT ![w] = s]
       ELSE UNCHANGED <<pc, slot>>
    /\ UNCHANGED <<acceptStopped, lock, slotSession, slotOwner, pendingIo,
                   timerVars, held, abandoned, destroyed, svcVars, mainVars, bg>>

\* Mutant: a failed accept does not reserve the next try.
AcceptFailedForgets(w) ==
    /\ ~ acceptStopped
    /\ Dispose(slotSession[slot[w]]) /\ UNCHANGED timer
    /\ Leave(w, "finish")

\* SO_UPDATE_ACCEPT_CONTEXT or getpeername fails.
AcceptFailed(w) ==
    /\ ~ acceptStopped
    /\ Dispose(slotSession[slot[w]]) /\ Reserve(slot[w])
    /\ Leave(w, "finish")

AcceptSucceeds(w) ==
    /\ ~ acceptStopped
    /\ held' = [held EXCEPT ![w] = slotSession[slot[w]]]
    /\ Goto(w, "connect")
    /\ UNCHANGED <<timer, slot, sess>>

\* The critical section of process_accept: the event gives its references back.
ProcessAccept(w) ==
    /\ At(w, "accept") /\ lock = Nobody
    /\ slotSession' = [slotSession EXCEPT ![slot[w]] = Nobody]
    /\ slotOwner' = [slotOwner EXCEPT ![slot[w]] = FALSE]
    /\ \/ acceptStopped /\ Dispose(slotSession[slot[w]]) /\ Leave(w, "finish")
          /\ UNCHANGED timer
       \/ AcceptFailed(w)
       \/ AcceptSucceeds(w)
    /\ UNCHANGED <<acceptStopped, lock, posted, pendingIo, queued, retrying,
                   abandoned, destroyed, closing, snapshot, begun, mainVars, bg>>

\* on_connected, or reject_connection at the limit: the session has I/O of its
\* own from here on.
HandOver(w) ==
    /\ At(w, "connect")
    /\ sess' = [sess EXCEPT ![held[w]] = "up"]
    /\ held' = [held EXCEPT ![w] = Nobody]
    /\ Goto(w, "register")
    /\ UNCHANGED <<acceptStopped, lock, slotVars, pendingIo, timerVars, slot,
                   abandoned, destroyed, closing, snapshot, begun, mainVars, bg>>

\* IocpCore::dispatch calls finish_io after the callback ...
FinishIo(w) ==
    /\ At(w, "finish")
    /\ pendingIo' = pendingIo - 1
    /\ Goto(w, "return")
    /\ UNCHANGED <<acceptStopped, lock, slotVars, timerVars, slot, held, abandoned,
                   destroyed, svcVars, mainVars, bg>>

\* ... and drops its reference, as a retry job does at its end.
Return(t) ==
    /\ At(t, "return")
    /\ Goto(t, "idle")
    /\ retrying' = IF retrying = t THEN Nobody ELSE retrying
    /\ UNCHANGED <<acceptStopped, lock, slotVars, pendingIo, timer, queued, slot,
                   held, abandoned, svcVars, mainVars, bg>>
    /\ DestroyListener

-----------------------------------------------------------------------------
(* The retry job: JobTimer::distribute, then the lambda of
   reserve_accept_retry, which _accept_retry_queue runs one at a time *)

OwnerExpired == FALSE   \* Mutant: nothing keeps the retry queue alive
\* The queue of a due item still exists: it lives as long as the listener.
OwnerLocked == ~ destroyed

Distribute(w, s) ==
    /\ Free(w) /\ timer[s] > 0
    /\ timer' = [timer EXCEPT ![s] = @ - 1]
    /\ queued' = IF OwnerLocked THEN [queued EXCEPT ![s] = @ + 1] ELSE queued
    /\ UNCHANGED <<acceptStopped, lock, slotVars, pendingIo, retrying, locals,
                   abandoned, destroyed, svcVars, mainVars, bg>>

ListenerAssumed == TRUE   \* Mutant: the job captured the listener itself
\* weak_listener.lock() succeeds.
ListenerLocked == ~ destroyed

RetryJob(w, s) ==
    /\ Free(w) /\ queued[s] > 0 /\ retrying = Nobody
    /\ queued' = [queued EXCEPT ![s] = @ - 1]
    /\ IF ListenerLocked
       THEN /\ retrying' = w /\ Goto(w, "register")
            /\ slot' = [slot EXCEPT ![w] = s]
       ELSE UNCHANGED <<retrying, pc, slot>>
    /\ UNCHANGED <<acceptStopped, lock, slotVars, pendingIo, timer, held, abandoned,
                   destroyed, svcVars, mainVars, bg>>

-----------------------------------------------------------------------------
(* Sessions after the hand-over *)

\* The last completion or job of the session has run on a worker; only the
\* snapshot of close_service may still hold the object.
SessionEnds(w, x) ==
    /\ Free(w) /\ sess[x] = "up"
    /\ sess' = [sess EXCEPT ![x] = IF x \in snapshot THEN "quiet" ELSE "free"]
    /\ UNCHANGED <<listenVars, destroyed, closing, snapshot, begun, mainVars, bg>>

-----------------------------------------------------------------------------
(* The threads of main *)

WorkerExits(w) ==
    /\ w \in Workers /\ At(w, "idle") /\ ~ running /\ mainPc \notin {"start", "run"}
    /\ Goto(w, "exited")
    /\ UNCHANGED <<acceptStopped, lock, slotVars, pendingIo, timerVars, slot, held,
                   abandoned, destroyed, svcVars, mainVars, bg>>

\* StopSignal::wait: the flag is read under the lock before the thread blocks,
\* and again when it is woken.
StopSignalWait(b) ==
    /\ mainPc \notin {"start", "exit"}
    /\ \/ bg[b] = "work" /\ bg' = [bg EXCEPT ![b] = IF stopRequested THEN "exited" ELSE "wait"]
       \/ bg[b] = "wait" /\ stopRequested /\ bg' = [bg EXCEPT ![b] = "exited"]
    /\ UNCHANGED <<listenVars, destroyed, svcVars, mainVars>>

\* The interval passes without a request.
Interval(b) ==
    /\ bg[b] = "wait" /\ ~ stopRequested
    /\ bg' = [bg EXCEPT ![b] = "work"]
    /\ UNCHANGED <<listenVars, destroyed, svcVars, mainVars>>

MainGoto(l) == mainPc' = l

\* ServerService::start: the slots are posted one after the other.
StartSlot(s) ==
    /\ mainPc = "start" /\ At("main", "idle") /\ s \in toStart
    /\ toStart' = toStart \ {s}
    /\ slot' = [slot EXCEPT !["main"] = s] /\ Goto("main", "register")
    /\ UNCHANGED <<acceptStopped, lock, slotVars, pendingIo, timerVars, held,
                   abandoned, destroyed, svcVars, mainPc, running, stopRequested,
                   serviceHolds, bg>>

\* start_accept fails before its first slot: close_socket, _listener.reset(),
\* and main returns.
StartFails ==
    /\ mainPc = "start" /\ toStart = Slots
    /\ acceptStopped' = TRUE /\ serviceHolds' = FALSE /\ MainGoto("exit")
    /\ UNCHANGED <<lock, slotVars, pendingIo, timerVars, locals, abandoned, svcVars,
                   toStart, running, stopRequested, bg>>
    /\ DestroyListener

Started ==
    /\ mainPc = "start" /\ toStart = {} /\ At("main", "idle")
    /\ running' = TRUE /\ MainGoto("run")
    /\ UNCHANGED <<listenVars, destroyed, svcVars, toStart, stopRequested,
                   serviceHolds, bg>>

\* "/q" or the end of the input, then background_stop.request().
Quit ==
    /\ mainPc = "run"
    /\ stopRequested' = TRUE /\ MainGoto("join")
    /\ UNCHANGED <<listenVars, destroyed, svcVars, toStart, running, serviceHolds,
                   bg>>

\* Mutant: the workers are stopped before the service is closed.
JoinBackgroundStopsWorkers ==
    /\ mainPc = "join" /\ \A b \in Background : bg[b] = "exited"
    /\ running' = FALSE /\ MainGoto("closeSocket")

JoinBackground ==
    /\ mainPc = "join" /\ \A b \in Background : bg[b] = "exited"
    /\ MainGoto("closeSocket") /\ UNCHANGED running

Join ==
    /\ JoinBackground
    /\ UNCHANGED <<listenVars, destroyed, svcVars, toStart, stopRequested,
                   serviceHolds, bg>>

CloseSocketLocked == lock = Nobody

CloseSocket ==
    /\ mainPc = "closeSocket" /\ CloseSocketLocked
    /\ acceptStopped' = TRUE /\ MainGoto("waitIo")
    /\ UNCHANGED <<lock, slotVars, pendingIo, timerVars, locals, abandoned,
                   destroyed, svcVars, toStart, running, stopRequested,
                   serviceHolds, bg>>

IoNotAwaited == TRUE          \* Mutant: wait_for_io is left out
IoCompleted == pendingIo = 0

WaitForIo ==
    /\ mainPc = "waitIo" /\ IoCompleted
    /\ MainGoto("collect")
    /\ UNCHANGED <<listenVars, destroyed, svcVars, toStart, running, stopRequested,
                   serviceHolds, bg>>

\* Service::close_service: under _sessions_lock, every live session is taken.
Collect ==
    /\ mainPc = "collect"
    /\ closing' = TRUE /\ snapshot' = {x \in Sessions : sess[x] # "free"}
    /\ MainGoto("begin")
    /\ UNCHANGED <<listenVars, destroyed, sess, begun, toStart, running,
                   stopRequested, serviceHolds, bg>>

BeginShutdown ==
    /\ mainPc = "begin"
    /\ IF begun = snapshot
       THEN MainGoto("wait") /\ UNCHANGED begun
       ELSE \E x \in snapshot \ begun : begun' = begun \cup {x} /\ UNCHANGED mainPc
    /\ UNCHANGED <<listenVars, destroyed, closing, sess, snapshot, toStart, running,
                   stopRequested, serviceHolds, bg>>

\* wait_for_shutdown of every session; then the vector lets them go.
WaitForShutdown ==
    /\ mainPc = "wait" /\ \A x \in snapshot : sess[x] # "up"
    /\ sess' = [x \in Sessions |-> IF x \in snapshot /\ sess[x] = "quiet" THEN "free"
                                   ELSE sess[x]]
    /\ MainGoto("reset")
    /\ UNCHANGED <<listenVars, destroyed, closing, snapshot, begun, toStart,
                   running, stopRequested, serviceHolds, bg>>

ResetListener ==
    /\ mainPc = "reset"
    /\ serviceHolds' = FALSE /\ MainGoto("stopWorkers")
    /\ UNCHANGED <<listenVars, svcVars, toStart, running, stopRequested, bg>>
    /\ DestroyListener

StopWorkers ==
    /\ mainPc = "stopWorkers"
    /\ running' = FALSE /\ MainGoto("joinWorkers")
    /\ UNCHANGED <<listenVars, destroyed, svcVars, toStart, stopRequested,
                   serviceHolds, bg>>

JoinWorkers ==
    /\ mainPc = "joinWorkers" /\ \A w \in Workers : At(w, "exited")
    /\ MainGoto("clear")
    /\ UNCHANGED <<listenVars, destroyed, svcVars, toStart, running, stopRequested,
                   serviceHolds, bg>>

\* JobTimer::clear
ClearTimer == timer' = [s \in Slots |-> 0]

Exit ==
    /\ mainPc = "clear" /\ ClearTimer
    /\ MainGoto("exit")
    /\ UNCHANGED <<acceptStopped, lock, slotVars, pendingIo, queued, retrying,
                   locals, abandoned, destroyed, svcVars, toStart, running,
                   stopRequested, serviceHolds, bg>>

Exited == mainPc = "exit" /\ UNCHANGED vars

-----------------------------------------------------------------------------
Main ==
    \/ \E s \in Slots : StartSlot(s)
    \/ StartFails \/ Started \/ Join \/ CloseSocket \/ WaitForIo \/ Collect
    \/ BeginShutdown \/ WaitForShutdown \/ ResetListener \/ StopWorkers \/ JoinWorkers
    \/ Exit

\* Steps of a thread that is inside the listener's code.
Listening(t) ==
    \/ RegisterAccept(t) \/ PostAccept(t) \/ ProcessAccept(t) \/ HandOver(t)
    \/ FinishIo(t) \/ Return(t)

Next ==
    \/ Main \/ Quit \/ Exited
    \/ \E t \in Threads : Listening(t)
    \/ \E w \in Workers : WorkerExits(w)
    \/ \E w \in Workers, s \in Slots : Dispatch(w, s) \/ Distribute(w, s) \/ RetryJob(w, s)
    \/ \E w \in Workers, x \in Sessions : SessionEnds(w, x)
    \/ \E b \in Background : StopSignalWait(b) \/ Interval(b)

Spec == Init /\ [][Next]_vars

(***************************************************************************)
(* Fairness.  Threads keep running, and a worker comes round its loop      *)
(* again and again: it looks for a completion, then for due timer items,   *)
(* then for queued jobs, hence strong fairness where other work may come   *)
(* in between.  The WRITE_LOCK lets a waiting thread in at last (strong    *)
(* fairness of CloseSocket and of Listening).  Once the socket is closed   *)
(* the kernel completes the pending accepts with an error, and once        *)
(* begin_shutdown has closed a session's socket the session ends (module   *)
(* Session shows it).  Clients, "/q" and the intervals of the background   *)
(* threads are never forced.                                               *)
(***************************************************************************)
Fairness ==
    /\ WF_vars(Main)
    /\ SF_vars(CloseSocket)
    /\ \A t \in Threads : SF_vars(Listening(t))
    /\ \A w \in Workers : WF_vars(WorkerExits(w))
    /\ \A s \in Slots :
          /\ WF_vars(acceptStopped /\ \E w \in Workers : Dispatch(w, s))
          /\ SF_vars(\E w \in Workers : Distribute(w, s))
          /\ SF_vars(\E w \in Workers : RetryJob(w, s))
    /\ \A x \in Sessions : WF_vars(x \in begun /\ \E w \in Workers : SessionEnds(w, x))
    /\ \A b \in Background : WF_vars(StopSignalWait(b))

FairSpec == Spec /\ Fairness

-----------------------------------------------------------------------------
(* Properties *)

\* How many requests, callbacks and retry jobs stand for a slot.
Places(s) ==
    posted[s] + timer[s] + queued[s] + Cardinality({t \in Threads : slot[t] = s})

\* Every slot is in one place.  Over every order of completions, retry jobs and the
\* close an AcceptEvent never has two requests, two retries or one of each, which
\* would overwrite an OVERLAPPED the kernel uses (Listener.cpp:158); until the
\* listener stops a started slot that was not given up for a permanent error has
\* exactly one (Listener.cpp:111, 147, 192, 199, 212); and none is posted on the
\* closed socket (Listener.cpp:77, 99-123).
SlotPlaced ==
    /\ \A s \in Slots : Places(s) <= 1
    /\ ~ acceptStopped => \A s \in Slots \ (toStart \cup abandoned) : Places(s) = 1
    /\ acceptStopped => \A t \in Threads : pc[t] # "post"

\* The AcceptEvents, deleted by ~Listener, outlive every request and every thread
\* that uses them, although a retry job, which only holds a weak_ptr, may outlive
\* them (Listener.cpp:160-166).  When main returns the listener and the sessions
\* are destroyed and no timer item refers to them (GameServer.cpp:187-194).
NoUseAfterDestroy ==
    /\ destroyed => Users = {} /\ \A s \in Slots : posted[s] = 0
    /\ mainPc = "exit" =>
        /\ destroyed /\ \A x \in Sessions : sess[x] = "free"
        /\ \A s \in Slots : timer[s] = 0

\* A session on which begin_shutdown was called is not handed over afterwards, which
\* would bring a closed session up again (Listener.cpp:206, Service.cpp:40).
NoHandOverAfterShutdown ==
    [][\A x \in Sessions : x \in begun /\ sess'[x] = "up" => sess[x] = "up"]_vars

\* The orderly shutdown ends, whatever the workers and the clients are doing when "/q" is
\* read: README.md, server shutdown.
ShutdownEnds == (mainPc = "join") ~> (mainPc = "exit")

\* A retry that was reserved is made, unless the listener stops: whatever the
\* workers do, the timer item becomes a job and the job a new try of its slot
\* (Listener.cpp:156-171, JobTimer.cpp:19-51).
RetryMade ==
    \A s \in Slots :
        (timer[s] > 0) ~> (acceptStopped \/ \E t \in Threads : slot[t] = s)
=============================================================================
