# A TLA+ verification of the game server

The repository is a Windows IOCP game server: `ServerCore` (network sessions,
job queues, timers), `GameServer` (accounts, rooms, chat) and a load-test
client, `TestClient`. This directory holds TLA+ models of both sides, TLC
configurations that check them on small instances, and TLAPS proofs that hold
for every instance. Paths below are relative to `src/Server` unless they begin
with `TestClient`.

## The system and its parts

| part | code | module |
|---|---|---|
| job queues, global queue, worker loop, job timer | `ServerCore/Job`, `Thread/ThreadManager.cpp`, `do_worker_job` | `JobQueue`, which implements `SerialExecutor` |
| session: accept, send, receive, disconnect, shutdown | `NetWork/Session.cpp`, `IocpCore.cpp`, `IocpEvent.cpp`, `IocpObject.h` | `Session` |
| packet framing, receive buffer, send buffers | `Session::on_recv`, `Buffer/`, `MakeSendBuffer`, `SendEvent` | `Framing`, which implements `PacketChannel` |
| listener, service, process start and shutdown | `NetWork/Listener.cpp`, `Service.cpp`, `GameServer.cpp` | `Listener` |
| accounts, rooms, session maps, packet handlers | `GameServer/Login`, `Room`, `Packet`, `Main/GameSession.cpp`, `NetWork/SessionManager.cpp` | `GameState`, which implements `Presence` |
| chat delivery loops | `SessionManager::normal_chat`, `all_chat` | `Broadcast` |
| heartbeat | `SessionManager::check_heartbeat`, `GameSession::send_ping`, `CONNECT_PONG` | `Heartbeat` |
| client: login and room requests, bots, manual mode | `TestClient`: `TestSession`, `ClientPacketHandler`, `TestClient.cpp` | `ClientProtocol` |
| client: sockets, sends, completions, `ClientServer::stop` | `TestClient`: `TestSession`, `ClientServer` | `ClientIo` |

Workers loop over three things: one I/O completion, the due timer items, the
queues of `GGlobalQueue`. A completion calls the session, which parses packets
and posts one job per packet to the session's `JobQueue`. The queue runs the
jobs of one session one at a time, on whichever worker. A job calls a packet
handler, which changes the login list, the rooms and the session maps under
their locks and sends answers. A disconnect, from any thread, ends as a cleanup
job in the same queue.

The models follow this layering, and each uses what the one below shows.

* `JobQueue` shows that a queue is a serial FIFO executor. `Session`,
  `GameState` and `ClientProtocol` use it: a session runs one job at a time.
* `Session` shows that the cleanup runs once and after every handler, and that a
  session that is shut down comes to its end. `GameState` uses the first,
  `Listener` the second.
* `Framing` shows that a connection is a channel of whole packets, given one
  send and one receive at a time, which is `Session`'s subject. `ClientProtocol`
  uses the channel.
* `GameState` treats a chat as one step; `Broadcast` opens that step up.

## The modules

**JobQueue.** A step is one atomic operation on `_jobCount` or `_distributing`
or one critical section of a `LockQueue`. `pushing[t]` and `executing[t]` are
the activations of `JobQueue::push` and `execute` on thread `t`; a job may push
further jobs, so a thread can be in both. `FetchAdd`, `AppendJob`,
`ExecuteInline` and `HandOver` are `push`; `PopAll`, `StartJob`, `FinishJob`,
`FetchSub`, `LoopAgain` and `Yield` are `execute`; `Reserve`, `EnterDistribute`,
`TakeDue`, `DistributeItem` and `LeaveDistribute` are the timer; `EndDispatch`,
`PopGlobal` and `EndLoop` are the worker loop. Clocks are free choices.
`SerialExecutor` is what it promises: the jobs of a queue start in the order in
which they were appended, one at a time, and every one of them runs.

**Session.** One session object. The threads that can be inside its code are
the acceptor, up to two workers for the completions of each event, the worker
that runs its jobs, the thread in `close_service`, and `Apps`: threads that
reach it from a snapshot of `SessionManager` (chat jobs of other sessions, the
heartbeat). Each has a label `pc[a]`; a step is one atomic flag operation, one
critical section, or one system call with its bookkeeping. The kernel
(`Kernel`) completes requests, sends only a part, or fails them. The stream is
recorded in units (`wire`), so that a partial send is visible.

**Framing.** One direction of a connection: the 16-bit header size, the
position of the `SendEvent` in its buffers, the byte stream, the positions of
`RecvBuffer`, the parse loop of `on_recv` and `clean`. A byte is its position
in the stream, so a lost, doubled or moved byte shows. Server and client have
this code on both ends. `PacketChannel` is the FIFO channel it implements.

**Listener.** The accept slots, the sessions `Service` creates for them, the
retry timer with its queue, and `main` from start to the end of the process.

**GameState.** The login list, the rooms, the session set, the account and the
name map, and the fields of each `GameSession`. A step is one critical section.
A session is in at most one handler; handlers of different sessions interleave,
and a disconnect may come at any time. `Presence` is what the server promises
about an account: unknown, offline, in the lobby or in one room; a room with a
place is entered only from the lobby, and the lobby is where an account logs out.

**Broadcast.** The loops of `normal_chat` (account map filtered under the lock)
and `all_chat` (session set copied under the lock): every look at a session and
every send is a step, between which receivers move. `broad_cast` has no caller.

**Heartbeat.** Ticks in an arbitrary unit, the background thread, the ping flag
and time of each session, pings and pongs under way. What the code cannot
promise is a parameter: `Loop` (how long a round of checks takes), `Late` (how
late the thread wakes), `Delay` (how long a healthy client and the network
take). `Responsive` sessions answer within `Delay`, the others need not.

**ClientProtocol.** The state a `TestSession` believes it is in, the threads that
call it (any number of bot threads, or one manual user with its login timeout
and `/q`), the handler thread, and the server's account and room of that session.

**ClientIo.** The I/O half of the client: `_send_lock`, the send event, the
count of pending operations, the workers, the bots and `ClientServer::stop`.
Giving up a client without workers (`ClientServer.cpp:88-96`) cannot be reached
from `main`, which starts the workers before it registers a socket.

The `MC*` modules add symmetry sets and, for `Heartbeat`, a view. Ticks grow
without bound but the code only compares them, so the view keeps the distance
of each tick to `now`, and only while the tick can still be compared.

## The runs

| run | what it shows | instance |
|---|---|---|
| `job_queue` | one responsible party per queue with jobs, `SerialExecutor` is implemented, reserved jobs run | 2 workers, 1 other thread, 2 queues, 2 jobs |
| `session_safety` | one user of the send event, exact `_pending_io` and owners, no lost wake-up, the stream, failed sends disconnect, nothing after shutdown, notice before close | 1 other thread, second send worker, 2 messages of 2 units, queue of 2 |
| `session_shutdown` | cleanup once and last, a connected session receives, disconnect and shutdown end | 1 other thread, 1 message, 1 packet |
| `session_delivery` | if sends keep completing, messages leave and a rejected session is closed | 1 other thread, 2 messages, queue of 1 |
| `game_state` | logins, rooms, maps and count agree; `Presence` is implemented | 4 session objects, limit 3, 2 accounts, 2 names, 2 rooms of 1 |
| `whisper_doc` | a counterexample, see Findings | 2 sessions, 2 accounts, 2 names, 1 room of 1 |
| `listener` | every slot in one place, no use after the end, no late hand-over, retries made, shutdown ends | 2 slots, 2 workers, 1 background thread, 2 sessions |
| `heartbeat` | a session that answers is not cut, a silent one is, within a bound | period 2, timeout 5, one responsive and one silent session |
| `broadcast` | who stays gets the chat, who was never a receiver does not | 3 sessions, 2 rooms |
| `framing` | room to receive, `PacketChannel` is implemented, packets are handled | 3 packets of 2 sizes, header of 2, 16-bit size as a size below 4, a foreign header |
| `client_protocol` | client and server agree on login and room, no misplaced request, requests end | 3 threads or 1 manual user, 2 rooms |
| `client_io` | one user of the send event, exact pending count, no send after a loss, work and `stop` end | 1 session, 2 workers, 1 bot, 2 sends of 2 pieces |

Why these instances meet the hard cases: two workers and two queues let a queue
be yielded, popped and pushed at once, and a job of one queue push to the other;
a thread in `Session::send`, two completion callbacks and a disconnect compete
for the send flag (several threads in `send` at once are left to the theorem,
which has any number of them); a message of two units can be cut in the middle,
and a second message follows it; three live sessions and two accounts let one
session log in while a former session of the account is still releasing it and a
third one competes; four objects for three places reach the limit; a room of one
place is full with one member. `MaxSends`, `MaxRecvs`, `MaxPackets` and the
number of jobs bound otherwise endless behaviours. Deadlock is checked except in
`Listener` and `ClientIo`, where the process ends.

**Fairness.** `JobQueue`: each thread keeps running, and, because ticks grow, a
worker that comes back to the timer again and again finds an item due (strong
fairness on taking all items). `Session`: threads in the session's code keep
running, the kernel completes `DisconnectEx`, and completes the other requests
once the socket is closed. That sends complete on an open socket needs a peer
that reads or a connection that breaks, so `SendsComplete` is a hypothesis of
`MessagesLeave` and `RejectedIsClosed` and no part of the specification.
`Listener`: threads keep running; strong fairness where a step waits for a lock
that others take and release (closing the socket, posting a slot) or for one of
several workers to come by (timer and retry job). `Framing`: both ends keep
going while the connection is open. `ClientProtocol`: threads and server
handlers keep running; whether a user asks for anything is free. `ClientIo`:
threads keep running, completions are dispatched in the order of the port
(strong fairness per session), a send completes, a receive completes once the
socket is closed. `GameState`, `Heartbeat` and `Broadcast` are checked for
safety only; `SilenceBound` states the heartbeat's promise as a bound.

## Findings

`whisper_doc`: `Handle_REQ_CHAT` looks the whisper target up twice. When the
target logs out between the two, the answer is `CHAT_ERROR_SUCCESS` with
`target_count` 0. `docs/packet-flow.md` says that a target that is not found is
answered with `CHAT_ERROR_NOT_TARGET`.

Where the docs differ from the code without a run of its own: `send_ping` sets the
waiting flag before it sends the ping, while `docs/reliability.md:115` and
`docs/packet-flow.md:198` describe the flag as set after the ping. The order of the code
is the right one. With the other a fast answer is lost and a healthy session is cut,
which is how `NoFalseTimeout` fails when the two steps are swapped.

What a reader of the code may want to know and no line contradicts:

* The server gives its send flag back before it disconnects after a failed send,
  so another message may follow the hole in that gap (`FailureDisconnects`
  bounds it). The client keeps the flag, and sends nothing more (`NoSendAfterLoss`).
* With the period of 5 s and `PONG_TIMEOUT_MS` of 15 s the bound of `SilenceBound`
  is about 25 s plus the delays, since the timeout is only looked at once per
  period.
* The server's `MakeSendBuffer` does not check that a packet fits the 16-bit size;
  `Framing` assumes it (a chat is at most 256 bytes and a name, the room
  list some 35 bytes per room), so the wrap of the size is outside the model. The
  client checks it.
* The failure branch of a logout request is unreachable in `GameState`: only the
  session's own jobs end its login.

## The proofs

The theorems are about the modules above with their constants left open; the
assumptions are the `ASSUME` of each module: finite sets of threads, null values
that are no elements of the sets, positive limits. Each invariant is proved as
`Spec => []Inv` from a stronger one, and TLC checked the stronger one before it
was proved.

`JobQueueProofs`: one executor per queue, one responsible party
(`OneResponsible`), no duplicates in the global queue, exact count, no stranded
job. No one of these is inductive alone. That `fetch_sub` leaves the count at 0
exactly when nothing is left needs the exact count; that the count is exact
needs a single executor per queue; a single executor needs that a thread that
saw 0 is the only responsible party; and that a popped queue is executed by
nobody needs the global queue without duplicates. `IndInv` joins the type
invariant, the shape of the activation frames (`FramesOK`) and these facts.
`RunsInOrder` is the safety part of `ImplementsSerialExecutor`: every step of
`JobQueue` is a step of `SerialExecutor` or a stutter. `AppendJob` submits,
`StartJob` starts and `FinishJob` finishes a job; `pop_all` is a stutter because a
job waits in order both in `_jobs` and in the batch. That a submitted job was
never submitted before needs `JobOnce`: a job is at one place among the timer's
heap, the due items of a worker, a push and the queues.

`GameStateProofs`: `LoginExclusive`, `RoomConsistent`, `MapsConsistent`,
`CapacityRespected`, and `ChatReachesRoom` (the sessions `normal_chat` selects
from the account map are those the room lists). `IInv` says what the statement
a handler is at implies for its session (`SessionInv`): whether it is logged
in, whether it has a room, what its argument is. Who holds an account
(`LoginInv`) rests on that; the maps (`MapInv`) rest on the holder being unique
and on names being unique; the rooms (`RoomInv`, `CountInv`) on both. A step
changes one session; frame lemmas carry each conjunct over for the others.

`GameStateProofs` also shows that the handlers implement `Presence`. A step of a
handler maps to one move of one account, or to a stutter; that the room an account
enters has a place left needs `CountInv`, and that no other account moves needs
`LoginInv`.

`SessionProofs`: `SendEventExclusive`, `IoAccounted`, `SendArmed`, `RecvArmed`,
`FailureDisconnects`, `CleanupLast` and `QuietAfterShutdown`, for any number of
other threads, messages and packets, with or without second workers. `IInv`
treats the send, the receive and the disconnect event as tokens: each is with the
kernel or with one thread at a statement that uses it (`Token`). For the send
event that needs more than `_is_send_register`, because a disconnect resets the
flag while a thread may still hold it. While the session is connected the flag is
set exactly while there is one sender (`FlagInv`); once it is not, no thread
passes the check under `_io_lock`, and `_is_connect` never becomes true again,
since it is set only before anything else of the session can run (`YoungInv`,
`EndInv`). The cleanup is passed from the winner of the exchange to the job queue
to the running job (`CleanupInv`), which gives that it runs once and that no
handler follows it. What `wait_for_shutdown` has waited for stays so because
`_pending_io` and the job count are exact (`CountInv`, `JobInv`) and nothing new
is admitted after `begin_shutdown` (`CloserInv`, `ShutInv`). Most steps only move a
thread to another statement; frame lemmas and `PureMove` deal with those.

`ListenerProofs`: `SlotPlaced`, `NoUseAfterDestroy`, and that the service closes its
sessions only after every accepted one was handed over (`NoHandOverAfterShutdown`),
for any number of slots, workers, background threads and sessions. `IInv` treats a slot as a token: it is a
request of the kernel, an item of the timer, a queued retry, or in the hands of one
thread (`SlotInv`). Its event refers to the session and the listener exactly while the
request or its callback exists (`OwnerInv`), so `_pending_io` counts the owned events
and the callbacks that have just given theirs back (`CountInv`). The count is 0 when
`wait_for_io` returns and stays 0 (`PhaseInv`), hence `close_service` finds no session
between its accept and its hand-over, and `~Listener` follows the last user.

`ClientIoProofs`: `SendEventSafe`, `IoAccounted` and `NoSendAfterLoss`, for any
number of sessions, workers, bots and packets. At most one thread or the kernel uses a
session's `SendEvent`, and while the session is open that user is the one holding
`_is_send_register` (`SenderOK`). The next receive is posted by the one thread that
handles the last (`ReceiverOK`). `_pending_io` counts the operations with the kernel
and the workers in a callback (`CountOK`); a session that is not registered has
neither (`ServedOK`, `NewOK`), and one that is open is still to be closed by `stop`
(`OpenOK`). So the count, once 0 after `wait_for_io`, stays 0. `NoSendAfterLoss`
follows because a session with a lost message is closed or keeps its flag for good.

`HeartbeatProofs`: `NoFalseTimeout` for every period, timeout and delays with
`Delay + Loop` within the timeout, and `SilenceBound`. The invariant relates the waiting
flag to the ping that is on its way and its tick (`FlagMatchesPing`).

`BroadcastProofs`: `ReceiversReached` and `NoStranger` for any number of sessions.

`FramingProofs`: the packets handled are a prefix of the packets sent, a receive
always has room, only a foreign header ends a connection, and the byte path
implements `PacketChannel`. The invariant says that the bytes in the sender's
buffers, in the stream and in the receive buffer are consecutive (`Consecutive`),
so that a header found at a packet's position is that packet's own.

Only model-checked: the liveness properties, the fairness of
`ImplementsSerialExecutor` among them, which are out of the prover's reach;
`StreamIntact` and `NoticeBeforeClose` of `Session`, which need a further invariant on
the place of every byte in the stream (division and products of variables) on top of
`IInv`, and are left to TLC; and the invariants of `ClientProtocol`.

## Abstractions and limits

* `Session`: messages have equal length (`Framing` has messages of any length).
  The receive buffer is reduced to "complete packet", "no complete packet" and
  "invalid header". `StreamIntact` speaks of streams without a failed send.
* `GameState`: a request refused for the form of its text changes nothing and is
  left out; Login and BotLogin are the same handler; passwords are the choice
  between success and failure. A session refused for capacity never enters it.
* Branches without a reachable effect are left out: a rejected connection for which
  no notice can be built (`GameSession` always builds one), a login request whose
  texts have a bad size (the client checks the same sizes before it sends), and the
  `false` a client's `send` returns after a failed `register_send`, which has
  disconnected and left its caller nothing to take back.
* `ClientProtocol`: what other clients do shows as a refusal by the server. `main`
  gives each session of a load test one bot thread; the model lets several call
  it, as the session's lock is meant to allow. `_test_session_state` is written
  and never read.
* Due times of the job timer are a free choice of the items that are due.

## Not modelled

The vendored protobuf headers and the generated `.pb` files, which make up most
of the lines of the repository; the database access, which the server never
calls (handlers use an in-memory account table); the logger, the configuration
and the string and socket wrappers, which are input and output; the packet
generator, a build tool; console input and printed statistics.
