--------------------------- MODULE EventLoopThread ---------------------------
(***************************************************************************)
(* EventLoopThread (src/tesla/net/EventLoopThread.cc) composed with the    *)
(* EventLoop it runs and the base Thread that carries it.                  *)
(*                                                                         *)
(* The owner thread constructs the EventLoopThread, calls startLoop()      *)
(* (Thread::start, then wait on cond_ until loop_ is set), hands the loop  *)
(* to its users, and destroys the EventLoopThread (exiting_ = true; if     *)
(* loop_ is set, quit() and join()).  The new thread runs threadFunc:      *)
(* construct the EventLoop, publish loop_ under mutex_ with cond_.notify(), *)
(* run loop.loop(), then loop_ = NULL and destroy the loop.  Everything    *)
(* the loop and its users do is EventLoop's own actions.                   *)
(***************************************************************************)
EXTENDS Naturals

CONSTANTS
    Threads, LoopThread, MaxQueued, MaxLoopQueued, MaxIoEvents,
    MaxTime, MaxTimers, Delays,
    Owner    \* the thread that owns the EventLoopThread, one of Threads

ASSUME Owner \in Threads

VARIABLES
    \* EventLoop's state (see EventLoop.tla)
    lpc, looping, quit, wakeupReadable, ioReady, ioEvents, active, pending,
    functors, callingPending, tpc, queued, ran, quitRequested,
    quitWhileLooping, now, intervals, expiration, timers, activeTimers,
    canceling, callingExpired, expired, nrun, tfd, cancelled,
    \* EventLoopThread and its Thread
    opc,        \* the owner: init, check, wait, woken, started, quit, join, done
    thpc,       \* the new thread: none, created, run, publish, looping, exited
    loopSet,    \* loop_ # NULL
    loopAlive,  \* threadFunc's EventLoop object exists
    exiting,    \* exiting_
    joined      \* Thread::joined_

L == INSTANCE EventLoop

tqVars == <<now, intervals, expiration, timers, activeTimers, canceling,
            callingExpired, expired, nrun, tfd, cancelled>>

loopVars == <<lpc, looping, quit, wakeupReadable, ioReady, ioEvents, active,
              pending, functors, callingPending, tpc, queued, ran,
              quitRequested, quitWhileLooping, tqVars>>
eltVars == <<opc, thpc, loopSet, loopAlive, exiting, joined>>
vars == <<loopVars, eltVars>>

TypeOK ==
    /\ L!TypeOK
    /\ opc \in {"init", "check", "wait", "woken", "started", "quit", "join",
                "done"}
    /\ thpc \in {"none", "created", "run", "publish", "looping", "exited"}
    /\ loopSet \in BOOLEAN /\ loopAlive \in BOOLEAN
    /\ exiting \in BOOLEAN /\ joined \in BOOLEAN

\* The EventLoopThread after its constructor: loop_ NULL, exiting_ false,
\* the Thread not started.
Init ==
    /\ L!Init
    /\ opc = "init" /\ thpc = "none"
    /\ loopSet = FALSE /\ loopAlive = FALSE
    /\ exiting = FALSE /\ joined = FALSE

----------------------------------------------------------------------------
(* The owner thread                                                        *)

\* startLoop(): Thread::start() (started_ = true, pthread_create), then
\* take mutex_ for the wait.
StartLoop ==
    /\ opc = "init"
    /\ opc' = "check" /\ thpc' = "created"
    /\ UNCHANGED <<loopVars, loopSet, loopAlive, exiting, joined>>

\* Mutant: after a wakeup the loop_ test is not repeated (if, not while).
StartLoopCheckIf ==
    /\ opc \in {"check", "woken"}
    /\ opc' = IF loopSet \/ opc = "woken" THEN "started" ELSE "wait"
    /\ UNCHANGED <<loopVars, thpc, loopSet, loopAlive, exiting, joined>>

\* while (loop_ == NULL) cond_.wait(); then return loop_.
StartLoopCheck ==
    /\ opc \in {"check", "woken"}
    /\ opc' = IF loopSet THEN "started" ELSE "wait"
    /\ UNCHANGED <<loopVars, thpc, loopSet, loopAlive, exiting, joined>>

\* pthread_cond_wait returns without a notify.
SpuriousWakeup ==
    /\ opc = "wait"
    /\ opc' = "woken"
    /\ UNCHANGED <<loopVars, thpc, loopSet, loopAlive, exiting, joined>>

\* ~EventLoopThread(): exiting_ = true, then read loop_ (without the
\* mutex): if it is set go on to quit() and join(); else the Thread's
\* destructor detaches the thread.  The owner's own queueInLoop calls have
\* returned, so it owes no wakeup.
Destroy ==
    /\ opc = "started" /\ tpc[Owner] = "ready"
    /\ exiting' = TRUE
    /\ opc' = IF loopSet THEN "quit" ELSE "done"
    /\ UNCHANGED <<loopVars, thpc, loopSet, loopAlive, joined>>

\* loop_->quit(): quit_ = true and, off the loop thread, wakeup().  On a
\* loop already destroyed this writes freed memory; the model leaves the
\* dead loop's state as it is.
DestroyQuit ==
    /\ opc = "quit"
    /\ L!Quit(Owner)
    /\ opc' = "join"
    /\ UNCHANGED <<thpc, loopSet, loopAlive, exiting, joined>>

\* thread_.join(): joined_ = true, pthread_join returns once threadFunc
\* has returned.  The owner's wakeup() is the end of quit().
Join ==
    /\ opc = "join" /\ tpc[Owner] = "ready" /\ thpc = "exited"
    /\ opc' = "done" /\ joined' = TRUE
    /\ UNCHANGED <<loopVars, thpc, loopSet, loopAlive, exiting>>

----------------------------------------------------------------------------
(* The new thread: ThreadData::runInThread -> threadFunc                   *)

\* startThread -> ThreadData::runInThread: publish the tid through the
\* Thread's weak tid_ (the Thread outlives this step: the owner waits in
\* startLoop), name the thread, then call func_, which is threadFunc.
RunInThread ==
    /\ thpc = "created"
    /\ thpc' = "run"
    /\ UNCHANGED <<loopVars, opc, loopSet, loopAlive, exiting, joined>>

\* EventLoop loop; (the constructor enables the wakeup Channel), then
\* callback_(&loop).
ConstructLoop ==
    /\ thpc = "run"
    /\ thpc' = "publish" /\ loopAlive' = TRUE
    /\ UNCHANGED <<loopVars, opc, loopSet, exiting, joined>>

\* Mutant: loop_ is published without cond_.notify().
PublishNoNotify ==
    /\ thpc = "publish"
    /\ loopSet' = TRUE /\ thpc' = "looping"
    /\ UNCHANGED <<loopVars, opc, loopAlive, exiting, joined>>

\* Under mutex_: loop_ = &loop; cond_.notify() wakes the waiting owner.
Publish ==
    /\ thpc = "publish"
    /\ loopSet' = TRUE /\ thpc' = "looping"
    /\ opc' = IF opc = "wait" THEN "woken" ELSE opc
    /\ UNCHANGED <<loopVars, loopAlive, exiting, joined>>

\* loop.loop(): one step of EventLoop's loop thread.
Loop(A) == thpc = "looping" /\ A /\ UNCHANGED eltVars

\* loop() has returned: loop_ = NULL, the EventLoop is destroyed as
\* threadFunc returns, and the thread ends.
ThreadExit ==
    /\ thpc = "looping" /\ lpc = "done"
    /\ loopSet' = FALSE /\ loopAlive' = FALSE /\ thpc' = "exited"
    /\ UNCHANGED <<loopVars, opc, exiting, joined>>

----------------------------------------------------------------------------
(* Users of the loop that startLoop() returned                             *)

\* queueInLoop / runInLoop from a user thread, with its wakeup(); users
\* stop using the loop before the owner destroys the EventLoopThread.
User(A) == opc = "started" /\ A /\ UNCHANGED eltVars

\* The loop's steps, a user's queueInLoop, a thread's owed wakeup(), and
\* I/O readiness, as steps of the composition.
LoopStep == Loop(L!LoopStep)
UserQueue(t, k) == User(L!QueueInLoop(t, k))
WakeupStep(t) == L!Wakeup(t) /\ UNCHANGED eltVars
IoStep == Loop(L!IoArrive)
UserTimer(t) == User(L!TimerCall(t))
TickStep == L!Tick /\ UNCHANGED eltVars

Next ==
    \/ StartLoop \/ StartLoopCheck \/ SpuriousWakeup
    \/ Destroy \/ DestroyQuit \/ Join
    \/ RunInThread \/ ConstructLoop \/ Publish \/ ThreadExit
    \/ LoopStep
    \/ \E t \in Threads, k \in L!Kinds : UserQueue(t, k)
    \/ \E t \in Threads : UserTimer(t)
    \/ \E t \in Threads : WakeupStep(t)
    \/ IoStep \/ TickStep

\* Both threads are scheduled: every step of the owner inside startLoop()
\* and the destructor, of the new thread, of the loop except its timeout,
\* and every owed wakeup() is weakly fair.  Calling startLoop(), destroying
\* the EventLoopThread, queueing and the peer are choices, not forced.
Fairness ==
    /\ WF_vars(StartLoopCheck) /\ WF_vars(DestroyQuit) /\ WF_vars(Join)
    /\ WF_vars(RunInThread)
    /\ WF_vars(ConstructLoop) /\ WF_vars(Publish) /\ WF_vars(ThreadExit)
    /\ WF_vars(Loop(L!LoopStart)) /\ WF_vars(Loop(L!LoopCheck))
    /\ WF_vars(Loop(L!PollReturn)) /\ WF_vars(Loop(L!DispatchWakeup))
    /\ WF_vars(Loop(L!DispatchIo)) /\ WF_vars(Loop(L!BeginPending))
    /\ WF_vars(Loop(L!DispatchTimer)) /\ WF_vars(Loop(L!ResetTimers))
    /\ WF_vars(Loop(\E b \in BOOLEAN : L!RunTimer(b)))
    /\ WF_vars(Loop(L!RunFunctor)) /\ WF_vars(Loop(L!EndPending))
    /\ \A t \in Threads : WF_vars(L!Wakeup(t) /\ UNCHANGED eltVars)

Spec == Init /\ [][Next]_vars /\ Fairness

----------------------------------------------------------------------------
(* Properties                                                              *)

\* EventLoop's own properties hold for the loop an EventLoopThread runs.
NoLostWakeup == L!NoLostWakeup
QueuedFunctorRuns == L!QueuedFunctorRuns
QuitWhileLoopingStops == L!QuitWhileLoopingStops
TimerFdArmed == L!TimerFdArmed
CancelledNotRescheduled == L!CancelledNotRescheduled
DueTimerRuns == L!DueTimerRuns

\* startLoop() returns, and returns a loop that is published and alive:
\* the cond_ handshake with threadFunc never loses the notify that
\* publishes loop_, and however the owner's wait is woken (by that notify
\* or spuriously) it re-tests loop_ before returning it.
StartLoopReturns ==
    /\ (opc \in {"check", "wait", "woken"}) ~> (opc = "started")
    /\ [][opc' = "started" /\ opc # "started" => loopSet /\ loopAlive]_vars

\* ~EventLoopThread returns: its quit() ends loop.loop() and join() returns.
DestructorReturns == (opc \in {"quit", "join"}) ~> (opc = "done")

============================================================================
