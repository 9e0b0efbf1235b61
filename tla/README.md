# LightRPC: specifications, model checking and proofs

LightRPC is an RPC library in C++17 over epoll: a one-thread event loop with a
time wheel, a TCP client and server on top of it, a length-prefixed protobuf
codec, a client that matches responses to callbacks and a server that runs
handlers in a thread pool. This directory holds TLA+ models translated from
`src/code`, the TLC configurations that check them, and TLAPS proofs.

How to run (from this directory): `tlc -config X.cfg M` for each row of the
table under "Runs"; `tlapm X.tla` for `RpcClientProofs`, `RpcServerProofs`,
`ThreadPoolProofs`, `EventLoopProofs`, `TimeWheelProofs`, `ConnectionsProofs`,
`FramingProofs` and `LogProofs`.

## 1. Inventory

State, operations and interactions of every part, what is hard about it, and what
makes it correct. The last column names the modules that model it.

| part | state | operations | what is hard, what must hold | modules |
|---|---|---|---|---|
| `ThreadPool` (`base/pool/threadpool.h`) | queue, `activeTasks`, `isClosed`, two condition variables | `AddTask`, `TryAddTask`, `WaitForTasks`, destructor; worker loop | lost wakeups, tasks that submit or throw, the drain on destruction; each accepted task once and in order | `ThreadPool`, safety proved |
| `TimeWheel` (`base/timer`) | `wheel_`, `timer_map_`, `current_slot_`, `last_tick_time_` | `AddTimer`, `RemoveTimer`, `Tick` | callbacks that change the wheel under Tick's iterator, slot and round arithmetic, reuse of ids; a timer fires once and in its slot | `TimeWheel`, proved |
| `EventLoop` (`network/core/event_loop`) | `quit_`, `pending_functors_`, the eventfd, the wheel | `Loop`, `Quit`, `RunInLoop`, `QueueInLoop`, `AddTimer`, `RemoveTimer`, `UpdateChannel`, `RemoveChannel` | queueing during the swap, sleeping on work, Quit before Loop; FIFO, exactly once, always woken | `EventLoop`, safety proved; timers in `RpcClient`, channels in `Connections` |
| `Epoller`, `Channel` | interest list; event masks and callbacks | `AddFd`, `ModFd`, `DelFd`, `Wait`; `HandleEvent`, `Enable*`, `Disable*`, `Remove` | which event reaches which callback, a channel destroyed while it is registered or running; epoll points at live channels | `Connections` (safety proved), `EventLoop` |
| `TcpConnection` | `state_`, two buffers, callbacks | `send`, `close`, `handleRead`, `handleWrite`, `handleClose`, `handleRdHup` | partial writes, order of the close callbacks, the last reference; no byte lost, one owner of each descriptor | `Framing` (bytes, proved), `Connections` (life, safety proved), `RpcServer`, `RpcClient` |
| `TcpClient` | `connection_`, `channel_`, `connected_`, `sock_fd_` | `Connect`, `Disconnect`, `Send`, `Stop` | `connection_` shared without a lock, who closes the descriptor | `RpcClient`, descriptors excepted |
| `RpcClient` (`rpc/rpc_client`) | `pending_calls_`, `stopped_`, the loop thread | `Start`, `CallRaw`, `Stop`; `onMessage`, `onConnection`, `onError`, the timeout | response, timeout, disconnect, failed encode and Stop race for each callback; each accepted call is answered exactly once | `RpcClient`, proved |
| `TcpServer`, `RpcServer`, `RpcService` | listener, `connections_`; the gate `stopped_`; the method table | `Start`, `Stop`, `StopAccepting`, `HandleAccept`; `onMessage`; `Invoke` | the graceful stop: gate, GOAWAY, WaitForTasks, close, Quit; a request is answered once as long as its connection lives, its handler does not throw what `Invoke` lets through, and its response can be encoded | `RpcServer`, `Connections`, safety proved |
| `Codec`, `Buffer` | none; two positions in a vector | `encode`, `decode`; `Append`, `Retrieve`, `ReadFd`, `makeSpace` | frames cut anywhere, size limits, growth and shift; a byte queue | `Codec`, `Buffer`, `Framing`, proved |
| `Log` | `AsyncQueue`, writer thread, file | `write`, `Init`, destructor | producers, one consumer, close; no line lost, no wait with the mutex held, no hang | `Log`, safety proved |
| generated messages (`protocol/rpc.pb.*`) | fields, presence, unknown fields | accessors, copy, merge, swap, clear, parse, serialize | a field dropped or merged wrongly, a length that is not the length written; what is written is read back | `Message`, `MessageApi`, proved |
| error codes | none | names | | the codes a response carries are constants of `RpcClient` and `RpcServer` |
| examples, tests, benchmarks, their generated messages | | | | not modelled: not the library |

Interactions. Every public call from another thread reaches the loop thread as a
functor (`RunInLoop`). The loop runs, in this order and on one thread: event
callbacks (connect, read, close), timer callbacks, functors. The client's
callbacks run on the loop thread, on the thread that calls `Stop`, or on a
caller's own thread (refusal, failed encode). The server's handlers run on pool
threads and send through the loop; a connection is shared by the server's table, by
tasks (weakly, then locked) and by queued sends.

## 2. Modules

Processes and data that are not bytes:

* `ThreadPool.tla` — the pool. One action per critical section (the code blocks
  nowhere inside one but in a condition wait); notifications after the unlock are
  actions of their own. A condition variable is the set of its sleepers; it may
  wake a thread for no reason.
* `FunctorQueue.tla` — abstract: what is posted runs once, in order, until the
  loop exits. Implemented by `EventLoop` and by the loop in `RpcClient`.
* `EventLoop.tla` — `Loop()` line by line against threads and callbacks that
  queue and quit. `GetEventFd` is 0 because `Epoller::AddFd` writes `data.fd` and
  then `data.ptr = nullptr` into one union.
* `TimeWheel.tla` — `Tick` is one step per node, so that callbacks call the wheel
  in its middle. A node's serial number stands for the list iterator in the map.
* `CallContract.tla` — abstract: a call is refused or accepted, an accepted call
  is answered once, and none is accepted after the client is closed.
* `RpcClient.tla` — the client with its `TcpClient`, `TcpConnection` and loop:
  `CallRaw` in six steps on any thread (or nested in a callback on the loop
  thread), the loop thread with all its callbacks, the owner with `Start` and
  `Stop`, and the network. `MCRpcClient.tla` gives it constants and symmetry.
* `RpcServer.tla` — the server with its `TcpServer`, `RpcService`, pool and loop:
  accepting, the gate of `onMessage` in front of the pool, `Invoke` on a worker, the
  response, which is encoded or dropped there and goes through the loop, and `Stop` step
  by step on the owner's thread against all of that. It takes what `ThreadPool` and
  `EventLoop` promise (a task is taken, a batch is swapped out, in one step).
* `Connections.tla` — the same server seen from its descriptors: `TcpServer`'s table,
  channels, epoll's interest list and batches of events, and the references that
  workers and functors hold. A connection is destroyed in the step that drops the
  last reference; its number is then free for the next `accept4`. A use of a
  destroyed channel is recorded in `dangling`.
* `Log.tla` — writers, `AsyncQueue`, the writer thread, rotation by day and by lines,
  `Init` called again and the destructor.

Data:

* `Message.tla` — `RpcRequest` and `RpcResponse` as generated: fields with their wire
  types, presence, merge, the parse loop with unknown fields, serialization and its
  computed length. `MessageApi.tla` puts two objects in the hands of a program; its
  variables and actions stand beside those of `Framing` in one proof, hence `ApiInit`,
  `ApiNext`, `ApiSpec`.
* `Codec.tla` — `encode` and `decode`. Base and digits of the length field, and
  `MAX_FRAME_SIZE`, are parameters.
* `Buffer.tla` — the vector and its two positions, with every operation of the class.
* `MessageStream.tla` — abstract: messages arrive as sent and in order until the
  connection closes, and one that is not acceptable closes it.
* `Framing.tla` — two `TcpConnection`s, the bytes between them, the sender's output
  buffer and the receiver's `onMessage`; composes the four modules above and is
  shown to implement `MessageStream`.

Proofs: a module `...Proofs.tla` for each of `ThreadPool`, `EventLoop`, `TimeWheel`,
`RpcClient`, `RpcServer`, `Connections`, `Framing` (with the theorems about `Buffer`,
`Codec` and `MessageApi`) and `Log`. The few facts about sequences and numbers that the
library lacks stand at the head of the module that uses them.

Correspondence. Variables carry the names of the members they stand for
(`stopped`, `connected`, `quit`, `functors` for `pending_functors_`, `pending`
for the keys of `pending_calls_`, `holder` for who is inside `pending_mutex_`
between two reads). Local state of a running function is a program counter
(`lpc` or `loop` for the loop thread, `cpc` callers, `spc` owner, `wpc` workers, `pc`
and `thread` in `Log`) with its locals (`batch`, `frames`, `tmpLoop`, `tmpStop`);
`retCb`, `retDrop`, `retClose` are return addresses, since one function is reached
from several places. History variables (`results`, `accepted`, `posted`, `made`,
`pushed`, `promised`, `lost`, `got`, ...) are read by properties only. The file
`PROJECT.json` maps every definition to its source lines.

In each module a definition that stands directly above another one with the same
parameters, under a similar name, is a plausible wrong variant of it (a dropped
guard, a wrong order); no specification uses it. Substituting it must break the
property `PROJECT.json` pairs it with, which shows that the property depends on
the code.

### What the models leave out, and why it is sound

* `RpcClient`: an armed timer may fire at any tick; `TimeWheel` says when. The map
  from timer ids to calls is exact as long as no id is reused (`TimeWheel`
  models what happens if one is). Request ids are unique.
* `RpcClient`: a call with a negative `timeout_ms`, which `AddTimer` never arms, is the
  fault `"untimed"`. `client_safety` and the proofs have it; `client_liveness` does not,
  so that `ContractSpec` and `TimersForgotten` are about timeouts of zero or more.
* `RpcClient`: `Wait` may return at any time, because of its timeout of 100 ms;
  therefore the eventfd is left to `EventLoop`.
* `RpcClient`: an output buffer that waits for the socket is a delay before the
  peer sees the request. The peer and the network act on the socket only while
  our side looks at it; after that nothing they do has an effect. A reset may also come
  between `Wait` and the read, which then fails and closes (`ReadFails`).
* `RpcClient`: the server's GOAWAY frame has an empty request id and finds no
  callback, so it is no frame of the model. A frame the codec rejects is
  `Corrupt`.
* `RpcClient`: callbacks of the application return, and may make further calls. Two
  things they may not do in the model: call the client from the refusal callback
  of `CallRaw` (it runs under the non-recursive `pending_mutex_`) and call `Stop`
  on the loop thread (it would join itself).
* `ThreadPool`: users are outside every call when the destructor runs, as C++
  requires of any destructor; tasks may still submit.
* `TimeWheel`: the clock goes forward, at any time, also between two nodes of one `Tick`,
  which reads it for each. Negative delays are rejected, as in the code.
* `EventLoop`: `Quit` once per thread (a second call repeats the same two writes).
* `RpcServer`: frames arrive whole (`Framing` cuts them). Handlers end in a code of
  `Outcomes`, throw something that is not a `std::exception`, or make a response that
  `Codec::encode` refuses (`"TOO_LARGE"`: protobuf serializes at most 2 GiB); they do
  not call the server. The other messages that the server sends (no such method, busy,
  shutting down, GOAWAY) hold fixed texts and strings of a request of at most 64 MiB, so
  that `encode` accepts them. Running out of memory is not a step. Registration takes
  its mutex and is one step.
* `Connections`: what a read brings is a choice (a task, an answer, a close, each or
  not); a failed `accept4`, an interrupted call and an empty event are the same step
  as doing nothing. `EPOLLERR` and `EPOLLHUP` are one flag.
* `Framing`: one direction; the other is the same code. A read finds any part of what
  was written. A write may find no room, part of it, or a reset.
* `Message`: a payload is one cell whatever its size, strings are members of a small
  set with one that is not UTF-8. `Framing` sends requests, as a response takes the
  same path; its messages have one to four fields so that frame sizes go up to one
  beyond the limit. A program sets fields; it cannot put unknown ones into a message,
  so that those sent have none (`Requests`).
* `Log`: `localtime`'s shared buffer may hand a writer another one's day; a writer that
  read the clock just before midnight can already do what that could cause.

### Not modelled

* `TcpClient` closes `sock_fd_` although `connection_` owns the same descriptor and
  closes it too (`tcp_client.cc:115`). It is a hazard of the list: whose descriptor the
  second close hits depends on every other user of descriptors in the process.
* `TcpConnection::SetKeepAlive` and the socket options: settings of the kernel.
* Reflection, arenas and descriptors of the generated messages: they belong to the
  protobuf library. `error_code` to name: a table.
* The level and the text of log lines; which directory and file name a line goes to
  beyond its day and part.
* `CallRaw`'s refusal invokes the callback with `pending_mutex_` locked
  (`rpc_client.cc:64`): a callback that calls again blocks on itself. A model would
  only restate that `std::mutex` is not recursive.


## 3. Runs

| run | module / cfg | checks | result |
|---|---|---|---|
| `client_safety` | `MCRpcClient` / `MCRpcClient_safety` | `TypeOK`, `AnsweredByOneHolder`, `StopIsClean`, `ConnectedIsSafe`, refinement of `CallContract` (safety) and of `FunctorQueue` | holds, 5.2 M states |
| `client_liveness` | `MCRpcClient` / `MCRpcClient_liveness` | refinement of `CallContract` with liveness, `StopReturns`, `TimersForgotten` | holds, 60 k states |
| `client_disconnect` | `MCRpcClient` / `MCRpcClient_disconnect` | `DisconnectAnswersAll` | violated |
| `loop` | `EventLoop` / `EventLoop` | `TypeOK`, `NeverSleepsOnWork`, refinement of `FunctorQueue`, `FunctorsRun`, `QuitEndsRunningLoop` | holds, 71 k states |
| `wheel` | `TimeWheel` / `TimeWheel` | `WheelConsistent`, `SlotsCounted`, `FiresOnce` | holds, 5.9 M states |
| `pool` | `ThreadPool` / `ThreadPool` | `TypeOK`, `FifoOnce`, `TasksAccountedFor`, `SleepersAreWoken`, `ReturnsAreSound`, `AcceptedRuns`, `EveryCallReturns` | holds, 116 k states |
| `messages` | `MessageApi` / `MessageApi` | `MessagesConsistent` (what is written is read back, of the announced length), `ConcatenationMerges` | holds, 66 k states |
| `wire` | `MCFraming` / `MCFraming` | `WireConsistent` (types of the buffers, and no byte lost or overtaken), refinement of `MessageStream` (`StreamSafety`), `StreamProgress` | holds, 375 k states |
| `server` | `MCRpcServer` / `MCRpcServer` | `ServerConsistent`, `NothingLost`, `StopDrains`, `EverythingEnds` | holds, 995 k states |
| `log` | `MCLog` / `MCLog` | `LogConsistent`, `ReturnedIsKept`, `PushNeverWaits`, `NothingWaitsInVain` | holds, 118 k states |
| `connections` | `Connections` / `Connections` | `DescriptorsConsistent`, `EpollPointsAtLive`, `DownIsDestroyed` | holds, 415 k states |
| `connections_callback` | `Connections` / `Connections_callback` | `SurvivesCallback` | violated |

Each module states its properties under its specification, with the parts of a
conjunction named and commented one by one.

Deadlock checking is off where the system may stop: a destroyed pool, a loop that
has exited, a client or server that is stopped, a log that is closed, a clock at its
bound. That nobody stops too early is what the liveness properties say.

### Bounds

* `client_safety`: two calls with a timer id each, every fault, timeouts that are never
  armed among them. Two calls are
  enough for a call to be entered while another is answered, for one nested in
  the callback of another, and for a swap to find both; the argument about one
  callback involves one call and the mutex, and the proofs cover any number. The
  two calls are interchangeable, so symmetry is used (this run has no liveness).
* `client_liveness`: one call with a timeout of zero or more, every fault of the peer, the
  network and the codec, no symmetry.
* `wheel`: two slots, ticks of two units, delays of 1 (less than a tick) and 5 (two
  ticks, a whole turn), a clock to 8, three nodes under two ids: a timer of more
  than a turn, an id reused while its old node is still listed, and a tick that
  catches up several slots all occur. `MaxTime` and `MaxAdds` bound the counters.
* `loop`: two threads, three functors, any of them posted from the loop's own
  callbacks; a second swap happens while functors of the first still run.
* `pool`: two workers, two users, three tasks, room for two: the queue is full
  while both workers are inside a task that submits.
* `messages`: one string that is neither empty nor malformed, two codes, one cell of
  payload; at most two fields of another version of the schema. All pairs of messages
  occur, so that a merge meets every combination of presence.
* `wire`: length digits in base 2 and frames of at most 4 bytes, so that both limits
  are crossed; buffers of 3 bytes with 2 in `extrabuf` and 3 in flight, so that every
  frame is cut, the buffer grows, shifts and overflows; three messages of five.
* `server`: one connection, two requests, one worker and room for one task: a request
  finds the pool full while the other one runs, and the gate race with `Stop` occurs. A
  handler answers, throws something foreign, or makes a response that cannot be encoded.
  A second connection would only double what the code keeps per connection.
* `log`: a queue of two lines, files of two lines, two days, two lines of one writer
  and one of the other, one more `Init`: the queue is full while the writer thread is
  between pop and fputs, and both writers reach the rotation together.
* `connections`: two connections over two numbers; the second one is accepted on the
  number of the first while a worker or a functor still refers to the first.

### Fairness

Weak fairness of the threads' own steps: an operating system schedules a runnable
thread, a mutex is held for a bounded time, tasks and callbacks return. In
`EventLoop` and `RpcClient` the loop thread's whole step relation is weakly fair
(one thread, so it always has at most one kind of step to do), since `Wait`
returns after its timeout at the latest. `RpcClient` adds strong fairness of
`FireTimer`: the loop reaches `Tick` again and again, and an armed timer is due at
one of those ticks. No fairness for the application (nobody has to call, start or
stop), for the peer, for faults or for spurious wakeups.
In `Framing` an event that epoll keeps reporting is handled; its condition is written
out, since the level-triggered event is what the kernel promises. In `RpcServer` the
loop, the workers and the owner inside `Stop`; in `Log` a writer inside `write`, the
writer thread and the destructor; in `Connections` the loop and the workers.

### What the violated runs show

Each states what a document of the repository says, and finds a behaviour of the
code that differs (`PROJECT.json`, "findings", has the quotes).

* `client_disconnect`: `handleClose` tells the client of the disconnect before
  `connected_` falls. A call made in between passes the gate and is answered only by
  its timeout.
* `connections_callback`: a read callback that closes the connection drops the last
  reference (the one of the server's table), and `HandleEvent` goes on to test
  `EPOLLOUT` in the destroyed channel.

Further disagreements, each kept as a property in its module and seen by giving it to
the configuration of that module's run:

* `EventLoop`, `QuitEndsLoop`: `Loop()` starts with `quit_ = false` (`event_loop.cc:21`),
  so that a `Quit()` made after the thread was created and before that line is lost and
  the join in `Stop()` never returns. `docs/architecture.md:92` shows `Quit` ending the
  loop. `QuitEndsRunningLoop` shows that this is the only way to lose one.
* `EventLoop`, `WakeupReportedOnce`: the union in `Epoller::AddFd` loses the eventfd's
  number (`epoller.cc:25`; `docs/architecture.md:120`); it is never read, and after the
  first wakeup every `Wait` returns at once.
* `TimeWheel`, `NeverEarly`: slots are counted from the last tick (`timer.cc:19`;
  `docs/error_code.md:27`), so a timer may fire early. `SlotsCounted` says what is exact.
* `TimeWheel`, `RemovedNeverFires`: a removed timer's node erases the map entry of its id
  even if the id was added again (`timer.cc:40`); the newer timer can no longer be
  removed, which `tests/base/timer/timer_test.cc:74` expects of any timer.
* `RpcClient`, `StopDisconnects`: `Quit` overtakes the queued disconnect
  (`rpc_client.cc:43`; `docs/architecture.md:158`). The callbacks have been answered all
  the same.
* `RpcClient`, `ResetNoticed`: a reset connection, or one that keep-alive has given up,
  stays `Connected`: `EPOLLERR` and `EPOLLHUP` reach no callback of a `TcpConnection`
  (`channel.cc:12`), although `tcp_connection.cc:142` sets keep-alive.
* `Log`, `FilesCutByLines`: the number of lines is tested without the mutex
  (`log.cc:102`), two writers pass the multiple of `MAX_LINES` together, and a file has
  more lines than `src/README.md:21` says of the rotation.

Seen in the models, and against no promise that the repository states:

* A write on a connection that the peer has reset raises SIGPIPE, which nothing ignores
  (`tcp_connection.cc:53`; `Killed` in `Framing`).
* `EPOLLRDHUP` is handled before `EPOLLIN`: what the peer sent before it closed is not
  read (`channel.cc:19`).
* `StopAcceptingInLoop` destroys the accept channel without `DelFd`, after the listener
  was shut down: epoll reports it at once and through the old pointer
  (`tcp_server.cc:73`). `EpollPointsAtLive` shows that it is the only such pointer.
* Requests accepted before `Stop` may remain without an answer, in the output buffer or
  among the functors that `Quit` abandons; `NothingLost` shows that this happens only
  with a closed connection.
* A response that `Codec::encode` refuses is dropped without a word on an open connection
  (`rpc_server.cc:132`), as is the request of a handler that throws something foreign
  (`rpc_service.cc:34`); the client learns of both by its timeout. `NothingLost` and
  `EverythingEnds` show that, as long as nobody calls `Stop`, these are the only requests
  lost on an open connection, and that their task ends like any other.
* The log's destructor may wait for ever if `close()` finds the writer thread between two
  waits (`log.h:70`), as `pop` looks at `closed_` only after a wait.
* Found by reading, not modelled: an exception's text that is not UTF-8 gives a response
  that the client rejects (`rpc_service.cc:34`; `MessagesConsistent` has the rule), and a
  log line that is cut at its maximal length loses its newline (`log.cc:141`).

## 4. Proofs

TLC checks instances; the theorems below hold for every value of the constants.

`RpcClientProofs.tla` assumes only `ClientAssumption` (every call has a timer id,
which calls may share; `NoCall` and `Corrupt` are no calls).

* `TypeCorrect`: `Safety => []TypeOK`. The invariant is inductive as it stands once
  the types of functors say which operations carry a call.
* `HandsInvariant`: `Safety => [](TypeOK /\ Hands)`. `HeldOnce` is not inductive. To
  know that a swap loses nothing one has to know that the local map is empty
  before it (`MapFacts`); that a call past the gate is not yet entered
  (`GateFacts`); that nobody is between the two tests of `CallRaw` once `Stop` has
  swapped, because the mutex is held between them (`GateFacts`, `StopFacts`); and
  that `HeldOnce` has a converse, nothing in anybody's hands is answered
  (`HandsDisjoint`). `Hands` is the conjunction of these. There is a lemma for the
  steps of each thread; most steps move no callback and go through `NoHandMoves`.
* `NeverAnsweredTwice`, `OneHolder`, `StopIsFinal`, `NothingLeftAfterStop` follow from
  it, and make up the properties of run `client_safety`: `OneHolderAnswersOnce`
  (`AnsweredByOneHolder`) and `StopCleansUp` (`StopIsClean`).
* `LinkInvariant`: `Safety => []LinkFacts`, about the connection. `ConnectedIsSafe` needs
  that the connect functor runs once (`ConnectFacts`: it is to come, in the queue or in
  the batch, or over), what `connected_` means at each step of `handleClose`
  (`CloseFacts`), and that only `Stop` takes `connection_` away from a `Send`
  (`TakenByStop`). `ConnectedCanBeTrusted` is the property of run `client_safety`.
* `ClientImplementsQueue`: `Safety => QueueSpec`. A functor's run ends where `handleClose`
  returns, which may be several steps of the loop after it began, with callbacks in
  between that post more; these steps map to `Post` and to stutters.
* `ImplementsContract`: `Safety => ContractSafety`, by `ContractStep`: a step answers
  one unanswered call, accepts one before the close, closes, or stutters.

`ThreadPoolProofs.tla` proves all of the safety of run `pool`, for any number of
workers (at least one, which the constructor asserts), users and tasks and any
`MaxQueueSize`. The inductive invariant is `PoolInv`. The properties are not inductive
without two more conjuncts. `Places` says what the program counters mean: the members
of a condition variable are the threads at that wait, a busy worker holds a task, a
worker has left only when the pool is closed and the queue empty, and the destructor
is past its joins only when all have left. `OfferedOnce` says that no task is accepted
twice. The argument goes through `ThreeKinds`: seen from the tasks, a step starts one,
ends one, or does neither and queues at most one.

* `TasksStartInOrder` moves the head of the queue to the end of `started` and shows
  that the concatenation stays (`HeadMoves`); `CounterIsExact` adds or removes one
  worker of a finite set; `NoTaskLost` needs that the oldest queued task was never
  started (`OldestIsNew`), which follows from the two before and `OfferedOnce`.
* `NoLostWakeup` and `NoLostWaiter` go through every action that touches the queue,
  the counter or a condition variable. `TasksAreAccountedFor`, `NobodySleepsForEver` and
  `ReturnsAreJustified` put the parts together as run `pool` has them.
* `DestructorRunsAll` and `WaitIsSound` (an action property) share `IdleMeansOver`: with
  an empty queue and nobody busy, what was accepted is what is over. In `WaitIsSound`
  the step from `activeTasks = 0` to "nobody is busy" is `CounterIsExact`.

`EventLoopProofs.tla` proves the safety of run `loop`, for any number of threads and
functors. `LoopInv` adds to the types and `QueueOrder` that a running functor is in
the batch (`InFunctor`) and what makes the two wakeup properties inductive:
`WorkOwed` says that queued work has a wakeup there or on its way unless the loop is
between its events and the swap, `QuitOwed` the same of `quit_` between the first
line of `Loop()` and the end of the events. The argument does not use that the
eventfd is never read, so it would survive the correction of
`WakeupReportedOnce`.

* `NothingLostOrReordered`, `WorkIsAnnounced` and `QuitIsAnnounced` follow;
  `NothingSleptOn` is the last two together.
* `LoopImplementsQueue`: `Safety => QueueSpec`. `QueueStep` maps a push to `Post`, the
  return of a queued functor to `RunOldest`, the last test to `Exit`, and all else,
  the swap included, to a stutter.

`TimeWheelProofs.tla` proves run `wheel` for any number of slots, length of a tick,
delays and number of timers, with callbacks that add and remove timers while `Tick`
holds its iterator. The inductive invariant `WheelInv` has, beside `OnSchedule` and
`FiresInItsSlot`:

* `Listed`: a node stands in one place of one list, and the iterator stands at a node
  while its callback runs. Erasing that node and appending to the very list it is in
  are the two delicate steps; `Erased` says which node is then where.
* `Mapped`, which is `WheelConsistent`: an entry of the map leads to an unmarked node.
  A marked node that goes may take the entry of a newer timer with it, which leaves one
  entry less to speak of.
* `Clock` and `Due`: `FiresInItsSlot` is not inductive. It needs how many slots a `Tick`
  still passes (no more than the elapsed time holds), and that a timer's `due` is never
  further away than the slots it still has to wait for; the remainder that `Tick` drops
  only moves the wheel's time forward.
* `Fired`: a timer that has fired is in no list, or is the one whose callback runs.

`WheelInvariant` is `Spec => []WheelInv`; `MapLeadsToNodes`, `NoTurnMiscounted` and
`CalledOnce` are the properties of the run.

`RpcServerProofs.tla` proves the safety of run `server`, for any connections, requests,
workers and any limit of the pool.

* `HandsAlways`: `Safety => []Hands`: every frame is on its client's connection, tasks and
  responses are of accepted connections, a worker past its queue has a task, the loop's
  batch holds what the loop does.
* `AccountedAlways`: a request is in at most one place, and in one unless there is a
  reason (`OneAnswer`, `NothingLost`): its connection was closed, its handler threw what
  `Invoke` does not catch, or `encode` refused its response. `Places` adds up counts
  over nine places. There is one lemma per move (`Kept` from one place to the next, or
  `Gone` with its reason); a count over a sequence changes by the element that came or
  went (`Times...`). `ServerIsConsistent` and `NothingIsLost` follow.
* `StopLeavesNothing`: the property speaks of the tasks alone and is not inductive. `Drain`
  counts with them the one that the loop thread is about to add (`Late`): after
  `WaitForTasks` they are at most one together, since a second request would meet
  `stopped_`. That the pool is closed when the workers have left, and the loop over when
  they are joined, gives the second half.

`ConnectionsProofs.tla` proves the descriptors and channels of run `connections`, for any
number of connections, descriptors and workers. `NetFacts` is about the record `net`:
owners and numbers match both ways, what is up is in the table, epoll points at what is
up. `BatchFacts` is about the events that are still to be dispatched: one for each
channel, and none for a connection that is not up. Both are needed: a number goes to the
next connection as soon as it is free (`LowestIsFree`), and an event of the same batch
must not find the new owner. There is a lemma for what each operator on `net` does, and
one for each action.

* `DescriptorsHaveOneOwner` and `EventsFindTheirConnection` are the two invariants of the
  run. `DownIsDestroyed` is liveness.

`FramingProofs.tla` goes from the generated messages over buffer and codec to the
refinement of `MessageStream`: the safety of runs `messages` and `wire`, for any
strings and codes, frame limit, byte base, sizes of buffers and pipe, and number of
messages. Its assumptions: the byte base is at least 2, `MAX_FRAME_SIZE` fits its four
digits, and what is sent is a request whose fields a program has set.

* The parser is a loop over the wire, written as a recursive function (`Run`). That it
  exists and is unique is shown with the least counterexample in `Nat` (`AllNumbers`,
  from the library's `WFMin`), as its induction theorems take an operator. `RunConcat`
  then takes a wire apart: reading `u \o v` is reading `v` from where `u` ended. Field by
  field, `SerializedRead` gives what a parser makes of a serialized message: the merge of
  both, or, from the first string that is not UTF-8 on, a failure.
* `MessagesInvariant`: `ApiSpec => []ObjectsInv`. Types are not enough, since a message
  also holds what the parser did not know. The invariant says what such cells have in
  common instead of listing them: any parse of the class keeps them as they are, whatever
  it holds already (`Kept`). Two such sequences make one (`KeptConcat`), which merging
  and parsing need. `MessagesRoundTrip` and `MessagesConcatenate` are the two properties of
  the run; the first has `ByteSizeLong`, too, which counts fields where the serializer
  writes them (`SizeIs`).
* The buffer is a byte queue, for any contents and sizes, with cells of the wire for
  bytes. `Readable(b)` is the queue. `RetrieveConsumes` and `FrontIsHandedOut` take from
  its front, `AppendAppends` and `ReadFdAppends` put at its end, `EnsureWritableMakesRoom`
  moves or grows the vector and leaves it as it is, and each gives a well-formed buffer
  back. The argument compares elements: a buffer with the right number of readable bytes,
  each in its place, has the right `Readable` (`ReadableByElements`); `GrownKeeps` and
  `ShiftedKeeps` are the two ways of `makeSpace`.
* `WireInvariant`: `WireConsistent` is `TypeOK` and `BytesConserved`: what was encoded is
  what was decoded, the receiver's buffer, the pipe and the sender's buffer, in this order.
  Neither is inductive alone, since the buffer's operations keep its bytes only if its
  positions are in order. Every step moves a piece from one part to the next: `Split` cuts
  it off and associativity of `\o` regroups.
* `DecodeStaysInside`: a frame that `decode` accepts is no longer than what there is,
  for any cells in its length field. `DecodesTheFrame`: if what waits begins as a frame
  does, a message that `decode` returns is the one of the frame, it is acceptable, and
  exactly the frame is consumed. It needs that `ntohl` of `htonl` is the number
  (`LengthRoundTrip`: four digits in any base, by `Euclid` and `DivDiv`) and that a
  request is read back (`RequestRoundTrip`).
* `StreamInvariant`: conservation speaks of bytes, the abstract stream of messages.
  `FramesInv` ties them: there are cuts in what was written, one frame of `sent` between
  each two, and what was taken ends at the cut of `Len(delivered)`. What waits behind it
  therefore begins as the next frame does (`WaitsBehindTaken`), so that a turn of
  `onMessage` delivers the next message (`NextIsDelivered`).
* `ImplementsStream`: `Safety => StreamSafety`. A send maps to `Send`, a turn that
  delivers to `Deliver`, the end of either side to `Close`, and all else, a write and a
  read of any size included, to a stutter.

`LogProofs.tla` proves the safety of run `log`, for any writers, lines, days, lengths of
files and capacity of the queue. The inductive invariant `LogInv` has, beside the types
and `QueueKeepsOrder`:

* `Distinct` and `Accounted`: a line of a call that has returned is in one place of disk,
  hand, queue and what was lost, and no other line is anywhere. The next line of a writer
  is therefore new (`FreshLine`), and there is a lemma for each of the six steps that
  move a line (`PopMoves`, `WriteLineMoves`, ...). `ReturnedIsKept` counts a line's entries
  on disk, and needs both.
* `Late`: what is in the queue when the destructor has found it empty, and has not closed
  it yet, came after `~Log` had begun. So what `close()` clears was not promised.
* `Room`: one writer at a time is between `full()` and `push()`, so that what `full()` said
  is still true; closing and taking only make room. It gives `PushAlwaysHasRoom`.
* The order of the queue is stated by counting: `Taken(i)` of the first `i` entries went
  through the queue, and the next one must be line `Taken(i) + 1` of those pushed.
  `TakenNext` says how it grows.

Only model-checked: what says that something happens, since fairness and ENABLED are
beyond the proof system. These are `StopReturns`, `TimersForgotten` and the liveness of
`CallContract` (`RpcClient`), `FunctorsRun` and `QuitEndsRunningLoop` (`EventLoop`),
`AcceptedRuns` and `EveryCallReturns` (`ThreadPool`), `StreamProgress` (`Framing`),
`EverythingEnds` (`RpcServer`), `NothingWaitsInVain` (`Log`) and `DownIsDestroyed`
(`Connections`). Every invariant and action property of the passing runs is proved.

## 5. Plan

Every part of the plan that was made for single components is done. What is left is one
module with client and server over one network, for a request that crosses a graceful
stop. Each side is checked against every behaviour of the other now, so that it would
add the composition and not a new fault.
