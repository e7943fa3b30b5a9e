----------------------------- MODULE EventLoop -----------------------------
(***************************************************************************)
(* The reactor of src/tesla/net/EventLoop.cc: one loop thread running      *)
(* loop() (wait in the backend, dispatch the active channels, drain the    *)
(* pending-functor queue) and foreign threads that call queueInLoop /      *)
(* runInLoop and quit().  The wakeup descriptor is an eventfd: a write    *)
(* makes it readable until the loop thread's handleRead() reads it.        *)
(*                                                                         *)
(* The wait is the only place the loop thread blocks.  It returns when a   *)
(* registered descriptor is ready or, after POLL_TIME_MS, by timeout; the  *)
(* timeout is an action without fairness, so the liveness properties say   *)
(* what happens without relying on the 10 s timer.                         *)
(*                                                                         *)
(* The loop owns a TimerQueue (TimerQueue.tla) whose timerfd Channel is    *)
(* always registered: the wait reports it once the clock reaches the      *)
(* timerfd's deadline, and its handleRead runs the expired callbacks.     *)
(* runAt / runAfter / runEvery and cancel from other threads reach it as   *)
(* functors through runInLoop.                                             *)
(***************************************************************************)
EXTENDS Integers, Sequences, FiniteSets

CONSTANTS
    Threads,        \* foreign threads calling queueInLoop / quit
    LoopThread,     \* the loop's own thread, as the source of a functor
    MaxQueued,      \* functors each foreign thread queues
    MaxLoopQueued,  \* functors the loop thread queues to itself
    MaxIoEvents,    \* readiness events of one I/O channel
    MaxTime, MaxTimers, Delays  \* the TimerQueue's bounds (TimerQueue.tla)

ASSUME LoopThread \notin Threads
ASSUME MaxQueued \in Nat /\ MaxLoopQueued \in Nat /\ MaxIoEvents \in Nat

Sources == Threads \cup {LoopThread}

\* What a functor does when the loop thread runs it: nothing observable,
\* queueInLoop another functor (re-entrant queueing), or quit() in-thread.
Kinds == {"plain", "requeue", "quit"}

\* The functors the timer calls queue: addTimerInLoop and cancelInLoop.
TimerKinds == {"addTimer", "cancel"}

\* The channels the backend may report: the wakeup eventfd, the timerfd
\* and one socket.
Channels == {"wakeup", "timer", "io"}

VARIABLES
    lpc,             \* where the loop thread is in loop()
    looping,         \* looping_
    quit,            \* quit_
    wakeupReadable,  \* the eventfd counter is non-zero
    ioReady,         \* the socket channel has an event pending
    ioEvents,        \* events delivered so far on the socket (bounded)
    active,          \* activeChannels_ not yet dispatched this iteration
    pending,         \* pendingFunctors_ (guarded by mutex_)
    functors,        \* the local copy being run by doPendingFunctors
    callingPending,  \* callingPendingFunctors_
    tpc,             \* per foreign thread: "ready", or owes a wakeup()
    queued,          \* history: ids of functors ever queued
    ran,             \* history: ids of functors run
    quitRequested,   \* history: quit() has been called
    quitWhileLooping,\* history: quit() was called while looping_ was set
    \* timerQueue_ (see TimerQueue.tla)
    now, intervals, expiration, timers, activeTimers, canceling,
    callingExpired, expired, nrun, tfd, cancelled

TQ == INSTANCE TimerQueue

tqVars == <<now, intervals, expiration, timers, activeTimers, canceling,
            callingExpired, expired, nrun, tfd, cancelled>>
vars == <<lpc, looping, quit, wakeupReadable, ioReady, ioEvents, active,
          pending, functors, callingPending, tpc, queued, ran,
          quitRequested, quitWhileLooping, tqVars>>

\* A functor, with the Timer an addTimerInLoop / cancelInLoop is about.
Functor == [src : Sources, n : Nat, kind : Kinds \cup TimerKinds,
            timer : 0..MaxTimers]
Id(f) == [src |-> f.src, n |-> f.n]

\* Number of functors a source has queued so far.
Count(s) == Cardinality({q \in queued : q.src = s})

TypeOK ==
    /\ lpc \in {"idle", "check", "poll", "dispatch", "pending", "done"}
    /\ looping \in BOOLEAN /\ quit \in BOOLEAN
    /\ wakeupReadable \in BOOLEAN /\ ioReady \in BOOLEAN
    /\ ioEvents \in 0..MaxIoEvents
    /\ active \subseteq Channels
    /\ pending \in Seq(Functor) /\ functors \in Seq(Functor)
    /\ callingPending \in BOOLEAN
    /\ tpc \in [Threads -> {"ready", "wake"}]
    /\ quitRequested \in BOOLEAN /\ quitWhileLooping \in BOOLEAN
    /\ TQ!TypeOK

Init ==
    /\ lpc = "idle"
    /\ looping = FALSE /\ quit = FALSE
    /\ wakeupReadable = FALSE
    /\ ioReady = FALSE /\ ioEvents = 0
    /\ active = {}
    /\ pending = <<>> /\ functors = <<>>
    /\ callingPending = FALSE
    /\ tpc = [t \in Threads |-> "ready"]
    /\ queued = {} /\ ran = {}
    /\ quitRequested = FALSE /\ quitWhileLooping = FALSE
    /\ TQ!Init

----------------------------------------------------------------------------
(* Loop thread                                                             *)

\* loop(): looping_ = true; quit_ = false  (the FIXME: a quit() issued
\* before loop() starts is forgotten here).
LoopStart ==
    /\ lpc = "idle"
    /\ looping' = TRUE /\ quit' = FALSE
    /\ lpc' = "check"
    /\ UNCHANGED <<wakeupReadable, ioReady, ioEvents, active, pending,
                   functors, callingPending, tpc, queued, ran,
                   quitRequested, quitWhileLooping>>
    /\ UNCHANGED tqVars

\* while (!quit_): either leave loop() or enter the backend wait.
LoopCheck ==
    /\ lpc = "check"
    /\ IF quit THEN lpc' = "done" /\ looping' = FALSE
               ELSE lpc' = "poll" /\ UNCHANGED looping
    /\ UNCHANGED <<quit, wakeupReadable, ioReady, ioEvents, active, pending,
                   functors, callingPending, tpc, queued, ran,
                   quitRequested, quitWhileLooping>>
    /\ UNCHANGED tqVars

\* The channels the backend reports when the wait returns.
Ready == {c \in Channels : \/ c = "wakeup" /\ wakeupReadable
                           \/ c = "timer" /\ TQ!TimerFdReadable
                           \/ c = "io" /\ ioReady}

\* backend_->run(POLL_TIME_MS, &activeChannels_) returns because a
\* registered descriptor is ready.
PollReturn ==
    /\ lpc = "poll"
    /\ Ready # {}
    /\ active' = Ready
    /\ lpc' = "dispatch"
    /\ UNCHANGED <<looping, quit, wakeupReadable, ioReady, ioEvents, pending,
                   functors, callingPending, tpc, queued, ran,
                   quitRequested, quitWhileLooping>>
    /\ UNCHANGED tqVars

\* The wait times out with nothing ready: an empty active list.
PollTimeout ==
    /\ lpc = "poll"
    /\ Ready = {}
    /\ active' = {}
    /\ lpc' = "dispatch"
    /\ UNCHANGED <<looping, quit, wakeupReadable, ioReady, ioEvents, pending,
                   functors, callingPending, tpc, queued, ran,
                   quitRequested, quitWhileLooping>>
    /\ UNCHANGED tqVars

\* Mutant: queueInLoop on the loop thread never calls wakeup() (the
\* "|| callingPendingFunctors_" dropped).
QueueInLoopFromLoopNoFlag(kind) ==
    LET f == [src |-> LoopThread, n |-> Count(LoopThread) + 1, kind |-> kind,
                timer |-> 0]
    IN /\ Count(LoopThread) < MaxLoopQueued
       /\ pending' = Append(pending, f)
       /\ queued' = queued \cup {Id(f)}
       /\ UNCHANGED wakeupReadable

\* queueInLoop(cb) called on the loop thread: push under the mutex, and
\* wakeup() only while callingPendingFunctors_ is set.
QueueInLoopFromLoop(kind) ==
    LET f == [src |-> LoopThread, n |-> Count(LoopThread) + 1, kind |-> kind,
                timer |-> 0]
    IN /\ Count(LoopThread) < MaxLoopQueued
       /\ pending' = Append(pending, f)
       /\ queued' = queued \cup {Id(f)}
       /\ wakeupReadable' = (wakeupReadable \/ callingPending)

\* handleEvent on the wakeup channel: EventLoop::handleRead reads the
\* eventfd, which resets its counter.
DispatchWakeup ==
    /\ lpc = "dispatch"
    /\ ~callingExpired
    /\ "wakeup" \in active
    /\ active' = active \ {"wakeup"}
    /\ wakeupReadable' = FALSE
    /\ UNCHANGED <<lpc, looping, quit, ioReady, ioEvents, pending, functors,
                   callingPending, tpc, queued, ran, quitRequested,
                   quitWhileLooping>>
    /\ UNCHANGED tqVars

\* handleEvent on the socket channel; its handler may queueInLoop a
\* functor (as TcpConnection's write-complete and close paths do).
DispatchIo ==
    /\ lpc = "dispatch"
    /\ ~callingExpired
    /\ "io" \in active
    /\ active' = active \ {"io"}
    /\ ioReady' = FALSE
    /\ \/ UNCHANGED <<pending, queued, wakeupReadable>>
       \/ QueueInLoopFromLoop("plain")
    /\ UNCHANGED <<lpc, looping, quit, ioEvents, functors, callingPending,
                   tpc, ran, quitRequested, quitWhileLooping>>
    /\ UNCHANGED tqVars

\* handleEvent on the timerfd channel: TimerQueue::handleRead up to its
\* callbacks.  Until reset() the loop thread stays in handleRead.
DispatchTimer ==
    /\ lpc = "dispatch"
    /\ "timer" \in active /\ ~callingExpired
    /\ active' = active \ {"timer"}
    /\ TQ!HandleRead
    /\ UNCHANGED <<lpc, looping, quit, wakeupReadable, ioReady, ioEvents,
                   pending, functors, callingPending, tpc, queued, ran,
                   quitRequested, quitWhileLooping>>

\* An expired timer's callback, inside handleRead; it may cancel itself.
RunTimer(selfCancel) ==
    /\ TQ!RunExpired(selfCancel)
    /\ UNCHANGED <<lpc, looping, quit, wakeupReadable, ioReady, ioEvents,
                   active, pending, functors, callingPending, tpc, queued,
                   ran, quitRequested, quitWhileLooping>>

\* The end of handleRead: reset() the expired timers.
ResetTimers ==
    /\ TQ!HandleReadEnd
    /\ UNCHANGED <<lpc, looping, quit, wakeupReadable, ioReady, ioEvents,
                   active, pending, functors, callingPending, tpc, queued,
                   ran, quitRequested, quitWhileLooping>>

\* End of the dispatch pass, then doPendingFunctors(): set
\* callingPendingFunctors_ and swap the queue out under the mutex.
BeginPending ==
    /\ lpc = "dispatch"
    /\ ~callingExpired
    /\ active = {}
    /\ callingPending' = TRUE
    /\ functors' = pending
    /\ pending' = <<>>
    /\ lpc' = "pending"
    /\ UNCHANGED <<looping, quit, wakeupReadable, ioReady, ioEvents, active,
                   tpc, queued, ran, quitRequested, quitWhileLooping>>
    /\ UNCHANGED tqVars

\* Run the next swapped-out functor.
RunFunctor ==
    LET f == Head(functors) IN
    /\ lpc = "pending"
    /\ functors # <<>>
    /\ functors' = Tail(functors)
    /\ ran' = ran \cup {Id(f)}
    /\ CASE f.kind = "plain" ->
              UNCHANGED <<pending, queued, wakeupReadable, quit>>
         [] f.kind = "requeue" ->
              \/ /\ QueueInLoopFromLoop("plain")
                 /\ UNCHANGED quit
              \/ /\ Count(LoopThread) = MaxLoopQueued
                 /\ UNCHANGED <<pending, queued, wakeupReadable, quit>>
         [] f.kind = "quit" ->
              \* quit() on the loop thread: no wakeup
              /\ quit' = TRUE
              /\ UNCHANGED <<pending, queued, wakeupReadable>>
         [] f.kind \in TimerKinds ->
              UNCHANGED <<pending, queued, wakeupReadable, quit>>
    /\ CASE f.kind = "addTimer" -> TQ!AddTimerInLoop(f.timer)
         [] f.kind = "cancel" -> TQ!CancelInLoop(f.timer)
         [] OTHER -> UNCHANGED tqVars
    /\ UNCHANGED <<lpc, looping, ioReady, ioEvents, active, callingPending,
                   tpc, quitRequested, quitWhileLooping>>

EndPending ==
    /\ lpc = "pending"
    /\ functors = <<>>
    /\ callingPending' = FALSE
    /\ lpc' = "check"
    /\ UNCHANGED <<looping, quit, wakeupReadable, ioReady, ioEvents, active,
                   pending, functors, tpc, queued, ran, quitRequested,
                   quitWhileLooping>>
    /\ UNCHANGED tqVars

----------------------------------------------------------------------------
(* Foreign threads                                                         *)

\* queueInLoop from another thread: push under the mutex; the wakeup()
\* that follows is a separate step.
Enqueue(t, kind, timer) ==
    LET f == [src |-> t, n |-> Count(t) + 1, kind |-> kind, timer |-> timer]
    IN /\ tpc[t] = "ready"
       /\ Count(t) < MaxQueued
       /\ pending' = Append(pending, f)
       /\ queued' = queued \cup {Id(f)}
       /\ tpc' = [tpc EXCEPT ![t] = "wake"]
       /\ UNCHANGED <<lpc, looping, quit, wakeupReadable, ioReady, ioEvents,
                      active, functors, callingPending, ran, quitRequested,
                      quitWhileLooping>>

\* runInLoop / queueInLoop of a user functor from another thread.
QueueInLoop(t, kind) == Enqueue(t, kind, 0) /\ UNCHANGED tqVars

\* runAt(now + delay, cb) from another thread (runAfter): the Timer is
\* built with an expiry from this thread's clock, and TimerQueue::addTimer
\* runInLoop()s addTimerInLoop.
RunAfter(t, delay) ==
    /\ TQ!NewTimer(now + delay, 0)
    /\ Enqueue(t, "addTimer", Len(intervals) + 1)

\* runEvery(interval, cb): first expiry now + interval, then repeating.
RunEvery(t, interval) ==
    /\ TQ!NewTimer(now + interval, interval)
    /\ Enqueue(t, "addTimer", Len(intervals) + 1)

\* cancel(timerId) from another thread: TimerQueue::cancel runInLoop()s
\* cancelInLoop.  Any thread that was given the TimerId may call it.
Cancel(t, s) ==
    /\ s \in 1..Len(intervals)
    /\ Enqueue(t, "cancel", s)
    /\ UNCHANGED tqVars
    /\ UNCHANGED tqVars

\* Mutant: the off-thread wakeup is skipped while the loop thread is
\* running pending functors (condition inverted).
WakeupSkipWhileCalling(t) ==
    /\ tpc[t] = "wake"
    /\ wakeupReadable' = (wakeupReadable \/ ~callingPending)
    /\ tpc' = [tpc EXCEPT ![t] = "ready"]
    /\ UNCHANGED <<lpc, looping, quit, ioReady, ioEvents, active, pending,
                   functors, callingPending, queued, ran, quitRequested,
                   quitWhileLooping>>
    /\ UNCHANGED tqVars

\* wakeup(): write 8 bytes to the eventfd.
Wakeup(t) ==
    /\ tpc[t] = "wake"
    /\ wakeupReadable' = TRUE
    /\ tpc' = [tpc EXCEPT ![t] = "ready"]
    /\ UNCHANGED <<lpc, looping, quit, ioReady, ioEvents, active, pending,
                   functors, callingPending, queued, ran, quitRequested,
                   quitWhileLooping>>
    /\ UNCHANGED tqVars

\* Mutant: quit() sets quit_ but never wakes the loop.
QuitNoWakeup(t) ==
    /\ tpc[t] = "ready"
    /\ ~quitRequested
    /\ quit' = TRUE
    /\ quitRequested' = TRUE
    /\ quitWhileLooping' = looping
    /\ UNCHANGED <<lpc, looping, wakeupReadable, ioReady, ioEvents, active,
                   pending, functors, callingPending, queued, ran, tpc>>
    /\ UNCHANGED tqVars

\* quit() from another thread: quit_ = true, then wakeup().
Quit(t) ==
    /\ tpc[t] = "ready"
    /\ ~quitRequested
    /\ quit' = TRUE
    /\ quitRequested' = TRUE
    /\ quitWhileLooping' = looping
    /\ tpc' = [tpc EXCEPT ![t] = "wake"]
    /\ UNCHANGED <<lpc, looping, wakeupReadable, ioReady, ioEvents, active,
                   pending, functors, callingPending, queued, ran>>
    /\ UNCHANGED tqVars

----------------------------------------------------------------------------
(* Environment                                                             *)

\* The peer makes the socket readable or writable.
IoArrive ==
    /\ ~ioReady
    /\ ioEvents < MaxIoEvents
    /\ ioReady' = TRUE
    /\ ioEvents' = ioEvents + 1
    /\ UNCHANGED <<lpc, looping, quit, wakeupReadable, active, pending,
                   functors, callingPending, tpc, queued, ran,
                   quitRequested, quitWhileLooping>>
    /\ UNCHANGED tqVars

\* The clock advances.
Tick == TQ!Tick /\ UNCHANGED <<lpc, looping, quit, wakeupReadable, ioReady,
                               ioEvents, active, pending, functors,
                               callingPending, tpc, queued, ran,
                               quitRequested, quitWhileLooping>>

LoopStep ==
    \/ LoopStart \/ LoopCheck \/ PollReturn \/ PollTimeout
    \/ DispatchWakeup \/ DispatchTimer \/ DispatchIo
    \/ \E b \in BOOLEAN : RunTimer(b)
    \/ ResetTimers \/ BeginPending \/ RunFunctor \/ EndPending

\* A foreign thread's timer calls.
TimerCall(t) ==
    \/ \E d \in Delays : RunAfter(t, d) \/ RunEvery(t, d)
    \/ \E s \in 1..MaxTimers : Cancel(t, s)

Next ==
    \/ LoopStep
    \/ \E t \in Threads, k \in Kinds : QueueInLoop(t, k)
    \/ \E t \in Threads : TimerCall(t)
    \/ \E t \in Threads : Wakeup(t) \/ Quit(t)
    \/ IoArrive \/ Tick

\* The OS schedules both threads: every loop-thread step except the
\* timeout, and every owed wakeup(), is weakly fair.  Users (queueing,
\* quitting) and the peer are not.
Fairness ==
    /\ WF_vars(LoopStart) /\ WF_vars(LoopCheck) /\ WF_vars(PollReturn)
    /\ WF_vars(DispatchWakeup) /\ WF_vars(DispatchIo)
    /\ WF_vars(DispatchTimer) /\ WF_vars(\E b \in BOOLEAN : RunTimer(b))
    /\ WF_vars(ResetTimers)
    /\ WF_vars(BeginPending) /\ WF_vars(RunFunctor) /\ WF_vars(EndPending)
    /\ \A t \in Threads : WF_vars(Wakeup(t))

Spec == Init /\ [][Next]_vars /\ Fairness

----------------------------------------------------------------------------
(* Properties                                                              *)

\* No lost wakeup (queueInLoop / wakeup / callingPendingFunctors_): when
\* the loop thread sits in the backend wait while functors are queued, the
\* eventfd is readable or the thread that queued one still owes its
\* wakeup(), so the wait returns without the 10 s timeout.
NoLostWakeup ==
    (lpc = "poll" /\ pending # <<>>)
        => (wakeupReadable \/ \E t \in Threads : tpc[t] = "wake")

\* Every functor handed to queueInLoop/runInLoop is eventually run by the
\* loop thread, unless loop() has returned; the timeout is not needed.
QueuedFunctorRuns ==
    \A s \in Sources, n \in 1..(MaxQueued + MaxLoopQueued) :
        LET id == [src |-> s, n |-> n] IN
        (id \in queued) ~> (id \in ran \/ lpc = "done")

\* quit() called on a running loop (EventLoop::quit, off-thread wakeup)
\* makes loop() return.
QuitWhileLoopingStops == quitWhileLooping ~> (lpc = "done")

\* The TimerQueue's own invariants hold for the loop's timers.
TimerFdArmed == TQ!TimerFdArmed
CancelledNotRescheduled == TQ!CancelledNotRescheduled

\* A timer whose expiry has passed is run (it leaves timers_, to be put
\* back later if it repeats) unless loop() has returned: the timerfd
\* wakes the wait and handleRead takes every due timer, without help
\* from the poll timeout or from the clock moving on.
DueTimerRuns ==
    \A s \in 1..MaxTimers : TQ!Due(s) ~> (~TQ!Due(s) \/ lpc = "done")

=============================================================================
