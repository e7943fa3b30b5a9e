# TLA+ models of tesla's reactor and connections

This directory holds TLA+ models of the `tesla` network library (`src/tesla`)
and the TLC configurations that check them. `PROJECT.json` lists the components,
the runs, the mutants that show each property can fail, the map from each TLA+
definition to the source lines it translates, the findings and the hazards.

## The system

`tesla` follows the reactor pattern. The library has these parts:

| Part | Source | State | Operations |
|---|---|---|---|
| EventLoop | `net/EventLoop.cc` | `looping_`, `quit_`, `callingPendingFunctors_`, `pendingFunctors_` (under `mutex_`), the eventfd behind `wakeupChannel_`, `activeChannels_` | `loop`, `quit`, `runInLoop`, `queueInLoop`, `wakeup`, `handleRead`, `doPendingFunctors`, `runAt/After/Every`, `cancel`, `updateChannel`, `removeChannel` |
| Channel | `net/Channel.cc/.h` | `events_`, `revents_`, `index_`, `tie_` | `enableReading/Writing`, `disableWriting/All`, `update`, `remove`, `handleEvent` |
| Backends | `net/backend/*.cc` | poll: `pollfds_` + `channels_`; epoll: `channels_` + index states kNew/kAdded/kDeleted | `run`, `fillActiveChannels`, `updateChannel`, `removeChannel` |
| Timers | `net/Timer.cc`, `TimerQueue.h` | ordered timer set, active set, cancelling set | `addTimer`, `cancel`, `handleRead`, `reset` (TimerQueue.cc is not in the repository) |
| TcpConnection | `net/TcpConnection.cc` | `state_` ∈ {Connecting, Connected, Disconnecting, Disconnected}, channel interest, input/output `Buffer`s | `connectEstablished`, `send`, `sendInLoop`, `shutdown(InLoop)`, `forceClose(InLoop/WithDelay)`, `handleRead/Write/Close/Error`, `connectDestroyed` |
| Connector | `net/Connector.cc` | `state_`, `connect_`, `channel_`, `retryDelayMs_` | `start/startInLoop`, `stop/stopInLoop`, `connect`, `connecting`, `handleWrite/Error`, `retry`, `restart` |
| TcpClient | `net/TcpClient.cc` | `connection_` (under `mutex_`), `connect_`, `retry_` | `connect`, `disconnect`, `stop`, `newConnection`, `removeConnection`, destructor |
| TcpServer, Acceptor | headers only | — | — |
| EventLoopThread(pool) | `net/EventLoopThread*.cc` | `loop_`, `exiting_`, `next_` | `startLoop`, `threadFunc`, destructor, `getNextLoop` |
| base | `base/Threadpool.cc`, `BlockingQueue.hpp`, `BoundedBlockingQueue.hpp`, `CountdownLatch.cc`, `AsyncLogger.cc`, `Thread.cc` | queues, `running_`, buffers | `run`, `take`, `stop`, `put`, `countDown`, `append`, `threadFunc` |

How they interact: every Channel, TcpConnection and Connector belongs to one
EventLoop and runs its handlers on that loop's thread. Other threads reach the
loop only through `runInLoop`/`queueInLoop`, which append to
`pendingFunctors_` under the mutex and write the eventfd. The loop runs one
iteration at a time: wait in the backend, dispatch each active channel's
`handleEvent`, then run the functors swapped out of the queue. A
TcpConnection's close callback belongs to its owner (`TcpClient::removeConnection`),
which queues `connectDestroyed` back onto the loop.

What makes the code hard:

- Several public methods are called from any thread, but they read and write
  plain fields without a lock: `quit_`, `TcpConnection::state_` (marked
  "FIXME: use compare and swap") and `TcpClient::connect_`.
- Work is deferred through the functor queue. A check is made when a call is
  queued and the action happens one or more iterations later.
- `revents_` is a snapshot. The write callback runs after the read callback
  has already closed the connection or queued more output.
- Connector's retry timer is not cancelled by `stop()`. Its channel is reset
  by a queued functor.

## Modules

| Module | Models | Status |
|---|---|---|
| `EventLoop.tla` | `EventLoop::loop`, `quit`, `runInLoop`/`queueInLoop`, `wakeup`, `handleRead`, `doPendingFunctors`, `runAt`/`runAfter`/`runEvery`/`cancel`; foreign threads queue functors and timers and call `quit`; the loop's TimerQueue (`INSTANCE`) is dispatched through its timerfd channel | built |
| `TcpConnection.tla` | one connection on its loop: the whole TcpConnection state machine, Channel dispatch order, the functor queue, loop-thread and foreign-thread callers, the peer and the kernel socket | built |
| `Connector.tla` | Connector with TcpClient's connect/stop/disconnect/newConnection/removeConnection and destructor, the retry timer and its back-off, the deferred channel reset, and the lifetimes of the Connector and the TcpClient | built |
| `ChannelBackend.tla` | the Backend contract: Channels' interest calls, `updateChannel`, `removeChannel` and `run()` over an abstract registered set | built |
| `PollBackend.tla`, `EpollBackend.tla` | the two backends' bookkeeping under the same Channel calls, each shown to implement `ChannelBackend` (`INSTANCE ... WITH`) | built |
| `Backends.tla` | `newDefaultBackend`'s two choices run side by side: every Channel call and wait is made on a PollBackend and an EpollBackend at once (`INSTANCE ... WITH` renamed variables) | built |
| `EventLoopThread.tla` | `EventLoopThread` constructor, `startLoop`, `threadFunc` and destructor with `Thread::start/join`, composed with `EventLoop` (`INSTANCE`) | built |
| `EventLoopThreadPool.tla` | `EventLoopThreadPool` constructor, `setThreadNum`, `start`, `getNextLoop` and destructor on the base loop's thread, composed with `EventLoopThread` (`INSTANCE`); the round-robin step as a recursive operator | built |
| `AsyncLogger.tla` | `AsyncLogger::start/stop/append` and the writer thread's `threadFunc`: double buffering, swap, drop, refill, `CountdownLatch` | built |
| `TimerQueue.tla` | `Timer` (constructor, `run`, `restart`) from the code; `addTimerInLoop`/`insert`, `cancelInLoop`, `handleRead`/`getExpired`, `reset` from the spec, because TimerQueue.cc is absent | built |
| `ThreadPool.tla` | `ThreadPool::start/stop/run/take/runInThread` with a bounded queue, worker and producer threads, Condition wait sets, and `MutexLock` acquisition with its `holder_` | built |
| `LengthHeaderCodec.tla` | the chat example's codec: `send`'s framing and `onMessage`'s decoding loop as a recursive operator | built |
| `ChatServer.tla` | `server_threaded_efficient.cc`: `onConnection`'s copy-on-write of `connections_`, `onStringMessage`'s snapshot and broadcast, per-connection reads decoded by `LengthHeaderCodec` (`EXTENDS`) | built |

`MCEventLoopThreadPool.tla` and `MCEventLoopThread.tla` instantiate
`EventLoopThreadPool` and `EventLoopThread` (and through them `EventLoop`)
with model values for the threads, `MCAsyncLogger.tla`
instantiates `AsyncLogger` with model values for the front ends, and
`MCConnector.tla` instantiates `Connector` with model values for the
Channel objects, and `MCChatServer.tla` gives `ChatServer` three
connections as model values and what each one's peer says.
`TcpConnection` has only scalar constants, so its cfgs give them values
directly.

### EventLoop.tla

- **Variables.**
  - `lpc` is the loop thread's position in `loop()`. `looping` and `quit`
    are `looping_` and `quit_`.
  - `wakeupReadable` is the eventfd's counter being non-zero. `ioReady`
    stands for one I/O channel.
  - `pending`, `functors` and `callingPending` are the queue, the swapped
    batch and `callingPendingFunctors_`. Functors carry their source thread
    and a sequence number.
  - `tpc` is each foreign thread's position: whether it still owes the
    `wakeup()` that `queueInLoop` or `quit` performs after unlocking.
- **Actions.** There is one action per step of `loop()`:
  - `LoopStart` is the start of `loop()`, `quit_ = false` included. `LoopCheck` is the `while (!quit_)` test.
  - `PollReturn` and `PollTimeout` are the backend wait.
  - `DispatchWakeup` is the eventfd's read callback. `DispatchIo` is any other channel's callback, which may itself queue a functor.
  - `BeginPending`, `RunFunctor` and `EndPending` are the three parts of `doPendingFunctors`.
  - A functor is either plain, one that queues another functor, or one that calls `quit()`.
- **Foreign threads.**
  - `QueueInLoop` is the locked append.
  - `Wakeup` is the eventfd write that follows the append.
  - `Quit` sets `quit_` and owes a wakeup.
- **Timers.** The loop owns a TimerQueue (`TimerQueue.tla`, below).
  - Its timerfd is a third channel. The wait reports it once the clock `now` has reached the timerfd's deadline `tfd`.
  - `DispatchTimer` is `TimerQueue::handleRead` up to the callbacks. `RunTimer` runs one expired callback, which may cancel its own timer. `ResetTimers` is the closing `reset()`. While a batch runs, no other dispatch step can happen.
  - `RunAfter`, `RunEvery` and `Cancel` are a foreign thread's `runAfter`/`runEvery`/`cancel`. The Timer is built on the caller, with its expiry taken from the caller's clock. Then `addTimerInLoop` or `cancelInLoop` is queued as a functor through `runInLoop`.
  - `RunFunctor` runs those functors against the TimerQueue.
  - `Tick` is time passing.
- **Fairness.** Weak fairness on the loop thread's steps (it runs whenever it
  can), and on each foreign thread's pending `wakeup()` (a thread that
  unlocked finishes its call). There is none on `PollTimeout`, on queueing, on
  `quit`, on I/O arrival or on the clock, because those are the environment's choices.

### TimerQueue.tla

TimerQueue.cc is not in the repository. Its operations are modelled from the
members declared in `TimerQueue.h` and from spec section 4.4. `Timer`'s
constructor, `run()` and `restart()` are modelled from `Timer.h` and `Timer.cc`.

- **Variables.**
  - `timers` is `timers_`, as (expiry, sequence) entries. `activeTimers` is `activeTimers_`, keyed by sequence. `canceling` is `cancelingTimers_` and `callingExpired` is `callingExpiredTimers_`.
  - `expired` and `nrun` are handleRead's vector of expired entries and how many of them have run.
  - `intervals` and `expiration` are each Timer's `interval_` and `expiration_`. `tfd` is the timerfd's deadline, with `Invalid` meaning disarmed.
  - `cancelled` is a history of the timers cancelInLoop has handled.
- **Operations.**
  - `NewTimer` is the Timer constructor.
  - `AddTimerInLoop` inserts a timer and re-arms the timerfd when the timer becomes the earliest.
  - `CancelInLoop` erases a live timer. A timer whose batch is running is added to `cancelingTimers_` instead.
  - `HandleRead` reads the timerfd and moves every entry with expiry <= now into `expired`.
  - `RunExpired` runs one callback.
  - `Reset` restarts each repeating timer that was not cancelled, at now + interval (`Timer::restart`), and arms the timerfd for the first entry left.
  - `cancel` does not re-arm the timerfd, so the timerfd can fire with nothing due.
- **Clock.** The clock moves once a Timer has been created (also while its `addTimerInLoop` is still queued) and outside a handleRead batch. So a timer built by a foreign `runAfter` can expire before the loop inserts it. Time is only observed against timers, and handleRead reads the clock once for its whole batch.
- **Tie order.** Ties in expiry are ordered by sequence, as the spec says. The header's `std::pair<Timestamp, Timer*>` orders them by address. The checked bound of one timer cannot tell the two apart.

### TcpConnection.tla

- **Variables.**
  - `state` is `state_`. `events` is the channel's interest ({R, W}),
    changed only through Channel's own operations (`EnableReading`,
    `EnableWriting`, `DisableWriting`, `DisableAll`, tested by `IsWriting`
    and `IsNoneEvent`). `out` is the output buffer's length.
  - `removed` records `channel_->remove()`.
  - The socket is `rx` (peer data unread), `peerFin` (EOF readable), `err`
    (pending SO_ERROR), `space` (free send-buffer space) and `wrShut`
    (`shutdownWrite` done).
  - The loop is `lpc` (poll, read, write or drain), `revents`, `pending` and
    `functors`. `timers` counts the `forceCloseWithDelay` timers.
  - The foreign thread is `fpc`. Histories are `connCbs`, `closeCbs`,
    `removes`, `accepted`, `wired` and `fcloses` (the foreign thread's
    shutdown/forceClose calls). The properties named `...IfForeignSends`
    hold in the behaviours where `fcloses` stays 0, which are the
    behaviours of a program that closes only from the loop thread.
- **Loop thread.**
  - `Poll` is the backend wait. It reports IN/OUT as far as the interest asks, and HUP/ERR always.
  - `HandleEventRead` is `handleEventWithGuard` up to the read callback: the error callback clears SO_ERROR, then `HandleRead`, which is `TcpConnection::handleRead` with its three `readFd` outcomes.
  - `HandleEventWrite` is the write callback (`handleWrite`) on the stale `revents`, followed by the swap of `doPendingFunctors`.
  - `RunFunctor` runs one queued `connectEstablished`, `sendInLoop`, `shutdownInLoop`, `forceCloseInLoop` or `connectDestroyed`.
- **User code on the loop thread** (a callback or timer): `UserSend`,
  `UserShutdown`, `UserForceClose` and `UserForceCloseWithDelay`. The timer
  then fires `forceClose` through a weak callback in `TimerFire`.
- **Foreign thread.**
  - `ForeignCheck` is the read of `state_`.
  - `ForeignSend` is the queued `sendInLoop`.
  - `ForeignClose` is `setState(Disconnecting)` plus the queued in-loop half.
- **Peer.** `PeerSend`, `PeerClose`, `PeerReset` and `PeerRead` (which frees
  send-buffer space).
- **Fairness.** Weak fairness on the loop thread, on the foreign thread's
  second step, and on `PeerRead`. The output-draining properties are
  conditional on a reading peer.
- **Abstraction.** Bytes are counted, not carried. The write-complete and
  high-water-mark callbacks only queue user functors, so they are omitted.
  `SockOps::write` is modelled by its result: EPIPE after shutdown or reset,
  EAGAIN when the buffer is full, and otherwise a short write.

### Connector.tla

- **Variables.**
  - `cstate`, `cconnect`, `channel` and `retryDelay` are Connector's
    `state_`, `connect_`, `channel_` and `retryDelayMs_`.
  - `alive` is the set of Channel objects not yet destroyed. `registered` is
    the set the backend holds. Channels are model values that are reused once
    destroyed, like heap addresses.
  - `dueTimers` and `freshTimers` count retry timers armed in earlier
    iterations and in this one.
  - `lpc`, `pending` and `functors` are the loop's dispatch/drain phase, the
    functor queue and the swapped batch.
  - `clientConnect` and `connection` are TcpClient's `connect_` and
    `connection_`. `open` and `fresh` are the connections not yet closed and
    those established in this iteration.
  - `failed` records the assertions that would fire. `gaveUp` records a
    non-retryable connect error.
  - `destroyer` records which thread ran `~TcpClient`, if any. `rebound`
    holds the connections whose close callback has been rebound to the
    free function `detail::removeConnection`. `cbConn` is the connection
    the queued `setCloseCallback` functor captured. `hackTimer` is the 1 s
    `removeConnector` timer of the destructor's other branch. `freed`
    records code that ran on a deleted object: Connector member functions,
    or `TcpClient::removeConnection`/`newConnection`.
- **Operators.** These are the member functions, as operators that the
  actions compose:
  - `Retry_` is `retry`.
  - `RemoveAndResetChannel` is `removeAndResetChannel`.
  - `Connect` is `connect` plus `connecting`. Its three outcomes are
    EINPROGRESS, a retryable error and a permanent error.
  - `StartInLoop`, `StopInLoop`, `ResetChannel` and `Restart` are the
    functions of the same names.
- **Loop-thread actions.**
  - `ConnectFailed` is `handleError` or `handleWrite`'s error or self-connect
    branch.
  - `ConnectSucceeded` is `handleWrite` followed by `TcpClient::newConnection`.
  - `TimerFire` is a retry timer expiring.
  - `ConnClose` is a connection's close reaching
    `TcpClient::removeConnection`.
  - `Swap`, `RunFunctor` and `EndDrain` are `doPendingFunctors`.
  - `HackTimerFire` is the `removeConnector` timer. It releases the last
    reference to the Connector. The model lets it fire only once the functor
    queue is empty. This is the 1 s delay the code relies on ("FIXME:
    HACK") to let the queued `stopInLoop` run first.
- **Lifetimes.** `ConnectorAlive` says the Connector object still exists:
  the TcpClient still holds it, or a retry timer or the hack timer holds a
  `shared_ptr` to it. `ChannelsAlive` adds that a Connector's `channel_`
  dies with the Connector. `ClientDestroy` is `~TcpClient`. With a
  connection, on the loop thread it rebinds the close callback at once;
  on another thread it queues `setCloseCallback`. Without one it calls
  `connector_->stop()` and arms the hack timer. Either way the TcpClient is
  gone after the call, and the Connector with it unless a timer holds it.
- **Users.** `UserConnect`, `UserStop` and `UserDisconnect` run on the loop
  thread or on another thread. `UserConnect` and `UserStop` set the
  client's `connect_` and call `ConnectorStart` and `ConnectorStop`
  (`Connector::start/stop`). On the loop thread, `runInLoop(startInLoop)`
  runs at once; `stop()` always queues `stopInLoop`.
- **Fairness.**
  - Weak fairness on the loop thread's steps and on the kernel reporting an
    in-flight connect.
  - Strong fairness on a timer-started attempt reaching Connecting. This
    assumes the network is not unreachable forever. Without it, a
    transient-error retry loop is a legal behaviour and `KeepsTrying` cannot
    hold.

### ChannelBackend.tla, PollBackend.tla, EpollBackend.tla

- **Abstract contract (`ChannelBackend`).**
  - The state is the live Channels (named by their descriptors) and their
    masks (`events_`), the registered set (`channels_`'s keys), the kernel's
    readiness of each descriptor, and the last `run()`'s active list.
  - `Update` is `Channel::update()`. The four interest calls are `Update`
    with the new mask.
  - `Remove` is `Channel::remove()`, which requires an empty mask. The owner
    then destroys the Channel, and the descriptor may come back in a new
    Channel (`NewChannel`).
  - `Run` reports every registered descriptor whose mask meets its
    readiness, with those events.
  - `ReEnable` says whether an emptied Channel may be enabled again. The
    library's owners (TcpConnection, Connector) never do that; the Channel
    interface allows it.
- **PollBackend.**
  - `pollfds` is `pollfds_` as records `[fd, events]`, with a negated fd for
    an ignored entry. `index` is each Channel's `index_`.
  - `UpdateChannel` is `updateChannel`: `AddNew` for a new Channel and
    `UpdateExisting` otherwise. `Remove` includes the swap-with-last.
  - `Run` is `poll(2)` plus `fillActiveChannels`.
- **EpollBackend.**
  - `index` is `INDEX_NEW`/`ADDED`/`DELETED`. `kernel` and `kevents` are the
    epoll instance's interest list.
  - `EpollCtl` is `update()` together with `epoll_ctl(2)`'s EEXIST and
    ENOENT failures. A failed ADD or MOD sets `aborted` (`LOG_SYSFATAL`).
  - A reused descriptor has been closed, and close(2) removes it from the
    interest list.
- **Refinement.** Each backend instantiates `ChannelBackend` with
  `mask <- events` and `reg <- channels`. Readiness is a shared state
  variable, so the abstract `Run` cannot hide a Channel the backend fails to
  watch.

### ThreadPool.tla

`ThreadPool` (base/Threadpool.cc) with `setMaxQueueSize(n > 0)`. The
owning thread calls `start()` and `stop()`, each worker loops in
`runInThread`, and producer threads call `run(task)`.

- **State:**
  - `running`, `queue`: `running_` and `queue_`. A task is `<<producer, i>>`.
  - `wpc`: each worker's place: `check` (the unlocked `while (running_)`),
    `take` (about to lock), `locked` (holding `mutex_` at its while-test),
    `waitEmpty` (waiting on `notEmpty_`), `woken` (back from the wait, not
    yet holding the mutex), `run` or `exit`.
  - `ppc`: each producer's place: `idle`, `call` (about to lock), `locked`,
    `waitFull` (waiting on `notFull_`), `woken` or `done`.
  - `owner`: the thread the pthread mutex is granted to; `holder`: what
    `MutexLock::holder_` records (`NoThread` is `0`).
  - `mpc`: the owner: `init`, `started`, `joining` (in the join loop) or `joined`.
  - `executed`: a history of the tasks that ran.
- **Mutex.** `WorkerAcquire` and `ProducerAcquire` are the step in which
  a thread is granted the free mutex: by `MutexLock::lock()` (`Lock`,
  which assigns `holder_`), or on return from `pthread_cond_wait`, where
  `~UnassignGuard` assigns `holder_` again (`Reacquire`). `Wait` is
  `Condition::wait()`: the `UnassignGuard` clears `holder_` and the wait
  releases the mutex. `Unlock` is `MutexLock::unlock()`.
- **Steps.** The rest of each critical section of `mutex_` is one step:
  - `Take` is `take()` from the while-test to the notify and unlock;
  - `Push` is `run()` from the while-test to the notify and unlock;
  - `Stop` is `stop()`'s locked block, and `Joined` is its join loop.
- **Conditions.** A Condition is the set of threads whose pc is its wait.
  `NotifyOne` (`pthread_cond_signal`) wakes one arbitrary waiter and
  `NotifyAll` wakes all of them. A woken thread goes back to its while-test.
  `SpuriousWakeup` lets a waiter return without a notify.
- **Fairness.** Workers, producers in `run()`, and the joining owner are
  weakly fair, since they are runnable threads. Acquiring the mutex is
  strongly fair: a thread blocked on a mutex that is free again and again
  is granted it (the pthread mutex does not starve a waiter forever; with
  weak fairness alone, spurious wakeups of other threads could take the
  mutex every time). `Start`, `Stop` and `Call` are the program's choices
  and are not forced.
- **Not in the checked configuration:**
  - `run()` on a pool with no threads, which runs the task inline;
  - `maxQueueSize_ = 0`, an unbounded queue where `isFull()` is always false.
- **Tasks queued at `stop()`.** Tasks still queued when `stop()` runs are
  dropped: each worker takes at most one more and leaves.
- **Producer blocked at `stop()`.** `stop()` notifies only `notEmpty_`. A
  producer blocked on `notFull_` after the workers have exited therefore
  waits forever (Threadpool.cc:57). `ProducerProceeds` is stated only while
  the pool runs.

### Backends.tla

`Backend::newDefaultBackend` (backend/DefaultBackend.cc) gives a loop a
PollBackend or an EpollBackend. `Backends` instantiates both, renaming each
one's `index`, `channels` and `active`. Every Channel call and every wait is
the conjunction of the two modules' actions, and the Channels' masks and
readiness are shared. It checks each backend's own invariant and its
refinement of `ChannelBackend` in one run. The run uses `ReEnable = FALSE`:
with re-enabling, PollBackend breaks its contract (the violation run
`poll_backend_reenable`). EpollBackend's re-enable path (a `DELETED` Channel
ADDed again) is therefore exercised only by its own module's actions under
that cfg, not by a passing run.

### EventLoopThread.tla

`EventLoopThread` (net/EventLoopThread.cc) composed with the `EventLoop` it
runs (`L == INSTANCE EventLoop`, the same variables).

- **State.**
  - `opc` is the owner thread: `init`, `check`/`wait`/`woken` in startLoop's
    `while (loop_ == NULL) cond_.wait()`, `started`, then `quit` and `join`
    in the destructor, then `done`.
  - `thpc` is the new thread: `created` by `pthread_create`, then in
    `ThreadData::runInThread` (`RunInThread`), then in `threadFunc`. `loopSet` is `loop_ != NULL`,
    `loopAlive` is the stack `EventLoop` existing, and `exiting` and `joined`
    are `exiting_` and `Thread::joined_`.
- **Steps.** `Publish` is the locked block that sets `loop_` and notifies.
  A notify with nobody waiting is lost, and `SpuriousWakeup` lets the wait
  return. `Loop(A)` runs EventLoop's loop-thread actions while the thread is
  in `loop.loop()`. `User(A)` lets threads queue functors once startLoop has
  returned. `Destroy` reads `loop_` without the mutex, as the code does.
- **Use after free.** If threadFunc returns between `Destroy` and
  `DestroyQuit`, quit() writes a destroyed loop (EventLoopThread.cc:31, which
  the code's comment admits). The model lets that quit() change nothing and
  checks no property about it.
- **Fairness.** Both threads are runnable, so their steps inside startLoop,
  threadFunc, loop() and the destructor are weakly fair. So are owed
  wakeups. Calling startLoop, destroying and queueing are choices.

### EventLoopThreadPool.tla

`EventLoopThreadPool` (net/EventLoopThreadpool.cc) composed with the
`EventLoopThread` it starts (`T == INSTANCE EventLoopThread`, the same
variables). The base loop's thread is the EventLoopThread's owner.

- **State.** `nThreads`, `loops` and `next` are `nThreads_`, `loops_` and
  `next_`. `ppc` is `started_` plus where `start()` is: `init`, `starting`
  (inside `startLoop()`), `ready`, then `destroyed`. `handed` is the loops
  `getNextLoop()` returned.
- **Steps.**
  - `SetThreadNum(n)` for n in 0..1; the model holds one EventLoopThread.
  - `Start` with no threads is the callback on the base loop. With one it
    is the EventLoopThread's `StartLoop`.
  - `PushLoop` is `loops_.push_back(t->startLoop())` once startLoop returns.
  - `GetNextLoop` is `getNextLoop()`.
  - `PoolDestroy` is the destructor: deleting `threads_` runs
    `~EventLoopThread`.
  - Every other step is EventLoopThread's, with the pool unchanged
    (`Thread(A)`).
  - Users queue functors, and add and cancel timers, only on a loop they
    were handed. They never queue a `quit()`: the library's own user of the
    pool, TcpServer, does not.
- **Round robin.** `NextIndex` is the step `++next_; if (next_ >= size)
  next_ = 0`. `NextAfterCalls` (RECURSIVE) applies it k times, and
  `RoundRobin` compares the result with k mod n for pools of up to
  `MaxPoolSize` loops.
- **Fairness.** EventLoopThread's fairness, plus weak fairness on the push
  after startLoop returns, since that is the same thread continuing.

### LengthHeaderCodec.tla and ChatServer.tla

`LengthHeaderCodec` (examples/chat/codec.h) is pure: a Buffer is a sequence
of byte values. `Encode` is `send` (the 4-byte big-endian length, then the
bytes). `NetworkToHost32` reads the header as an `int32_t`, sign included,
so a top byte of 128 or more gives a negative length. `OnMessage` is the
`while` loop of `onMessage` as a recursive operator: it returns the
messages handed on in order, the bytes left in the Buffer, and whether
`shutdown()` ran on an invalid length.

`ChatServer` (examples/chat/server_threaded_efficient.cc) gives each
connection its own loop thread.

- **Heap.** `connections_` is a `shared_ptr<std::set>`. The model keeps a
  small heap of set ids: `lists[i]` is the members of set `i` and `refs[i]`
  its use count (0: deleted, the id free for the next `new ConnectionList`).
  `connections` is the id `connections_` points to.
- **onConnection** (`ConnectionUp`, `ConnectionDown`, through
  `OnConnection`): under `mutex_`, if `!unique()` a copy is made into a free
  id and the old count drops; then insert or erase on the unique set.
- **Reads.** `Read(c, k)` delivers the next `k` bytes of the peer's frames,
  in any segmentation, and runs `OnMessage` on what is buffered. The
  decoded messages wait in `inbox` for `onStringMessage`.
- **onStringMessage** (`Broadcast`): `GetConnectionList` copies the
  pointer under the mutex (count + 1); `SendTo` sends to one member at a
  time, without the lock; `EndBroadcast` drops the local pointer and
  deletes the set if it was the last owner.
- **Fairness.** Each loop thread finishes its callbacks, and a connected
  peer's bytes keep arriving (weak fairness on `Broadcast(c)` and on the
  reads). Connects and disconnects are the peers' choice.
- **Abstraction.** A message is its bytes (values 0..255, so the codec
  runs on real headers); `codec_.send` to a member is recorded, not
  carried to its peer.

### AsyncLogger.tla

`AsyncLogger` (base/AsyncLogger.cc, .h) with front-end threads calling
`append()` and the writer thread in `threadFunc`.

- **State.**
  - A line is `<<frontend, i>>`. A buffer is the sequence of its lines.
  - `cur` and `hasNext` are `currentBuffer_` and whether `nextBuffer_` is
    held. `bufs` is `buffers_`. `new1` and `new2` say whether the writer
    holds `newBuffer1`/`newBuffer2`. `toWrite` is `buffersToWrite`.
  - `written` is the file's lines in order and `dropped` the lines discarded
    by the 25-buffer limit. `failed` records a failed `assert`.
  - `opc` is the owner in `start()` (the latch wait) and `stop()` (the join).
    `wpc` is the writer.
- **Buffers.** A buffer of `BufferSize` slots takes a line only while
  `available() > len` (`Available`, and `BufAppend` for
  `FixedBuffer::append`, which copies nothing otherwise), so it holds at
  most `BufferSize - 1` lines, as the code's strict test allows. The writer
  counts the latch down with `CountDown`.
- **Wait.** `cond_.waitForSeconds(flushInterval_)` always returns, at the
  latest on the timeout, so `WriterWait` needs no notify. A lost notify
  only delays a write.
- **Fairness.** The writer's steps and the owner's latch wait and join are
  weakly fair. Appends, `start()` and `stop()` are choices.
- **Lines lost at stop().** `stop()` sets `running_` false. A writer that
  then tests `while (running_)` (AsyncLogger.cc:68) leaves without a last
  swap, so lines appended before stop() are never written. `LineWritten`
  allows that exit. Nothing in the spec or comments promises a flush at
  stop(), so this is a hazard, not a violation run.

## Runs

| Run | Config | Expect | What it shows |
|---|---|---|---|
| `event_loop_thread_pool` | `MCEventLoopThreadPool.cfg` | pass | A pool of zero or one thread. `TypeOK` includes that `next_` stays an index of `loops_` (the `>=` of the wrap). `RoundRobin`: the round-robin step hands out every loop in turn, for pools of up to four. `StartLoopReturns`: startLoop() returns, the cond_ handshake loses no notify, and it returns only a published, live loop, however its wait is woken. `NoLostWakeup` and `QueuedFunctorRuns`: a functor queued into the loop from any thread, including from inside `doPendingFunctors`, runs. `QuitWhileLoopingStops`: a quit() made while the loop runs stops it. `TimerFdArmed`: outside handleRead, the timerfd is armed no later than any timer in `timers_`, also when a timer added from another thread is already due by the time its addTimerInLoop runs (the run reaches that case). `CancelledNotRescheduled`: a timer whose cancelInLoop has run, from its own callback or from another thread's queued cancel, is never put back by reset(). `DueTimerRuns`: a timer whose expiry has passed is taken out and run unless loop() has returned. |
| `event_loop_thread_quit_lost` | `MCEventLoopThreadQuit.cfg` | violation | `DestructorReturns`: an EventLoopThread destroyed right after startLoop() quits its loop before `loop()` starts; `quit_ = false` (EventLoop.cc:105) erases it and join() hangs. |
| `tcp_connection` | `MCTcpConnection.cfg` | pass | Close calls made on the loop thread, plus a foreign thread that calls send(), shutdown() or forceClose() once. `LifecycleIfForeignSends`: while the foreign thread only sends, handleClose runs at most once. `DrainedShutdownIfForeignSends`: in those behaviours the FIN never cuts off queued output. `OutputDrainsIfForeignSends`: there, queued output drains to a reading peer. `DisconnectingResolves`: Disconnecting ends shut or closed, whoever called shutdown/forceClose. `ClosedIsRemoved`: a closed connection is removed. (A foreign shutdown/forceClose breaks the first three; the violation runs below show how.) |
| `tcp_close_race` | `MCTcpConnectionCloseRace.cfg` | violation | `ConnectionLifecycle`: a foreign forceClose() overwrites Disconnected and handleClose runs twice (TcpConnection.cc:204). |
| `connector` | `MCConnector.cfg` | pass | One connect() and up to two stop()/disconnect() calls from either thread, with retry on. `NoDanglingChannel`: no Channel is destroyed while registered. `AssertionsHold`: Connector's and removeConnection's assertions hold. `ClientNotUsedAfterFree`: once `~TcpClient` has run on the loop thread, no close or connect callback reaches the deleted TcpClient, however the destructor interleaves with pending closes and stop()s. `ConnectingResolves`: an attempt in flight ends. `KeepsTrying`: a client that wants a connection keeps trying. |
| `connector_double_connect` | `MCConnectorRace.cfg` | violation | `NoDanglingChannel`: a second connect() while Connecting destroys the registered Channel (TcpClient.cc:80, "FIXME: check state"). |
| `backends` | `MCBackends.cfg` | pass | Both backends under the same Channel calls, used as the library uses them. `IndexConsistent`: the pollfd array, `channels_` and every `index_` stay consistent through the swap-with-last. `EpollInSync`: no epoll_ctl fails and `index_` matches the kernel. `PollRefinesBackend`, `EpollRefinesBackend`: each implements the contract, so both report the same Channels. |
| `poll_backend_reenable` | `MCPollBackendReEnable.cfg` | violation | `PollRefinesBackend`: enableWriting, disableWriting, enableWriting leaves the pollfd negated, and the writable Channel is never reported (PollBackend.cc:100). |
| `tcp_send_shutdown_race` | `MCTcpConnectionSendRace.cfg` | violation | `AcceptedBytesWritten`: a foreign send() accepted before the loop's shutdown() is dropped with EPIPE after the FIN (TcpConnection.cc:92). |
| `thread_pool` | `MCThreadPool.cfg` | pass | Two workers, two producers with two tasks each, and a one-slot queue. `TypeOK` includes the queue bound (`isFull`). `AssertLockedHolds`: the `mutex_.assertLocked()` in `isFull()` holds for a producer at its while-test, also when it came back from a wait on `notFull_` after other threads took and released the mutex (`~UnassignGuard` assigns `holder_` again). `StopJoins`: stop() always joins every worker. `QueuedTaskRuns`: a task queued while running is run. `ProducerProceeds`: a producer blocked on a full queue gets to push while the pool runs. |
| `async_logger` | `MCAsyncLogger.cfg` | pass | Two front ends with two lines each, buffers of one line, a drop limit of two buffers. `TypeOK` includes that `append()` never fills a buffer. `AssertionsHold`: the writer's refill assertions hold. `LinesInOrder`: each front end's lines are written in order, less the dropped ones. `LineWritten`: every appended line is written or dropped unless stop() ends the writer first. |

| `chat_server` | `MCChatServer.cfg` | pass | Three connections of the multi-threaded chat server, whose peers send two messages, one and none. `SnapshotStable`: the set a broadcast iterates is never written while it does, however others connect and disconnect (copy-on-write). `MessagesFramed`: the codec decodes only a prefix of the messages sent, in order, whatever the TCP segmentation, and all of them while the connection stays up (a leads-to TLC checks under the loops' fairness). The use counts are `shared_ptr`'s own bookkeeping, so no property restates them, and the module has no separate type invariant. |
Bounds, and why they are enough:

- **EventLoop (inside `event_loop_thread_pool`):**
  - Two threads besides the loop thread: the owner and one user. That is enough for one to append while the other is between append and wakeup.
  - One functor per thread and one functor queued from the loop thread. The lost-wakeup case needs only one, queued during the drain.
  - One I/O event.
  - One timer, of delay or interval 1, and a clock over 0..1. The functor budget lets the owner add the timer while the other thread cancels it. The timer may be one-shot or repeating, and its callback may cancel itself. So self-cancel, a foreign cancel queued during the callback, reset's reinsertion, and an expiry reached before addTimerInLoop runs are all covered.
  - With the functor bounds at 2, or the clock at 0..2, the run takes more than 7 minutes.
- **TcpConnection:**
  - Two sends of 1 or 2 bytes against a 1-byte send buffer. That gives direct, short and EAGAIN writes.
  - Two loop-thread close calls, so that a forceClose can follow a shutdown.
  - One foreign call, one peer message, and a peer FIN or reset. Each race needs a single foreign call.

- **Connector:**
  - Three Channel identities. That is enough for an old channel, a new one and a reused one.
  - One connect() in the pass run, since a second one is the defect the violation run shows.
  - Two stop()/disconnect() calls.
  - Retry delays scaled to 2 and 5. The doubling then meets the cap at a value that is not a power of two, as 500 ms and 30 s do.

- **Backends:**
  - Two descriptors, each with R and W readiness.
  - Removing the first of two entries exercises the swap-with-last, with the moved entry plain or negated.
  - Three descriptors (6.9M states, 10 min) add only the removal of a middle entry, which takes the same branch.
- **EventLoopThreadPool:** pools of zero and one thread, one
  `getNextLoop()` call (with one loop every call hands out the same loop),
  and `MaxPoolSize = 4` for the operator check of the round-robin step.
  The run has 118k states and takes about 2 minutes.
- **EventLoopThread:** the EventLoop bounds above. The owner's own
  queueing, a foreign `Wakeup` racing the destructor, and a spurious wakeup
  in startLoop are all reached (28k states).
- **AsyncLogger:** two front ends with two lines each, buffers of one line
  (`BufferSize = 2`), and a drop limit of two buffers (`MaxToWrite = 2`).
  Four lines can fill three buffers before a swap, so the drop branch runs;
  a refill from the back and every `append` branch occur.
- **ThreadPool:**
  - Two workers and two producers. That is enough for a notify() to choose between waiters and for a producer to wait while another pushes.
  - A one-slot queue, so every second push blocks.
  - Two tasks per producer, so a producer returns to `run()` after having waited.
- **ChatServer:**
  - Three connections and four set ids: `connections_`, a snapshot for each of the two talkers, and the copy being made. A copy is made while a snapshot holds the current set, and a freed id is handed out again.
  - The peers send two messages (an empty one and `<<7>>`), one, and none. The silent connection still joins and leaves the set, and reads may split a header or deliver two frames at once.
  - Three talkers with two messages each ran longer than 30 minutes.

Deadlock checking is off for the loop models: `loop()` returns after
`quit()`, and a connection's loop blocks in its wait once every budget is
used. The backend runs check it, since readiness can always change.
EventLoopThreadPool and EventLoopThread turn it off because the owner ends at `done`, and
AsyncLogger because the writer ends at `exit` once joined. The
ThreadPool run turns it off: the program ends once the pool is joined and
the producers are done. The ChatServer run turns it off because the server
idles once every peer has gone.

## Not modelled, and why

- SockOps, InetAddress: system-call wrappers. They appear as nondeterministic results.
- Buffer: its source is absent. It is modelled by its length.
- TcpServer and Acceptor: only headers exist.
- BlockingQueue and BoundedBlockingQueue: header-only and used by nothing under `src/` (AsyncLogger.h only includes them); ThreadPool checks the same mutex/condition pattern.
- Logging, Date/Time, FileUtils, GzipFile, Singleton and ThreadLocal: formatting and I/O with no concurrent protocol.
- Examples other than the threaded chat server: `server.cc` (chat) and the echo server run every callback on one loop thread, so they have no interleaving beyond what `TcpConnection.tla` already checks; the chat client is the same codec on `TcpClient`.
- `EventLoop::updateChannel`/`removeChannel` only forward to the backend. The backend's behaviour is modelled in `Backends.tla`.
- `~TcpClient` from a thread other than the loop thread, and the
  Connector's own destruction on the loop thread. Both are real defects,
  found while modelling. They are recorded as hazards rather than as
  violation runs, and `ClientNotUsedAfterFree` is stated for the
  loop-thread destroy that the code's FIXME implies is the supported use.
  TLC finds these traces with the same module:
  - Foreign thread: connect(), the connect succeeds, the loop drains, the
    TcpClient is destroyed on another thread and queues `setCloseCallback`,
    and the connection closes before that functor runs.
    `TcpClient::removeConnection` then runs on the deleted TcpClient
    (TcpClient.cc:65).
  - Loop thread: connect(), the connect succeeds (which queues
    `resetChannel`), and the TcpClient is destroyed on the loop thread in
    that same iteration. The Connector is released with `channel_` still
    set, so `~Connector`'s `assert(!channel_)` fails. If the destroy runs
    during the drain before `resetChannel`, `resetChannel` then runs on the
    freed Connector (TcpClient.cc:76).
- `EventLoop::quit_` is a plain bool written from other threads. The model
  treats the write as atomic and seen at the loop's next `while (!quit_)`
  test, which is what x86 gives in practice. `QuitWhileLoopingStops`
  checks the protocol under that reading.
- PROJECT.json's hazards name the source line each one is for.
