------------------------- MODULE EventLoopThreadPool -------------------------
(***************************************************************************)
(* EventLoopThreadPool (src/tesla/net/EventLoopThreadpool.cc) on its base  *)
(* loop's thread, composed with the EventLoopThread it starts.             *)
(*                                                                         *)
(* setThreadNum(n) and start() are called on the base loop's thread, the   *)
(* Owner of EventLoopThread.  start() creates n EventLoopThreads and       *)
(* pushes what each startLoop() returns onto loops_; with n = 0 it runs    *)
(* the init callback on the base loop.  getNextLoop() hands loops out      *)
(* round-robin, or the base loop when loops_ is empty.  The destructor     *)
(* deletes threads_, which runs ~EventLoopThread.  The model holds one     *)
(* EventLoopThread, so n is 0 or 1; the round-robin step is checked for    *)
(* larger pools as an operator.                                            *)
(***************************************************************************)
EXTENDS Naturals, Sequences

CONSTANTS
    Threads, LoopThread, MaxQueued, MaxLoopQueued, MaxIoEvents, Owner,
    MaxTime, MaxTimers, Delays,
    MaxHandouts,   \* getNextLoop() calls made by the owner
    MaxPoolSize    \* pool sizes over which the round-robin step is checked

VARIABLES
    lpc, looping, quit, wakeupReadable, ioReady, ioEvents, active, pending,
    functors, callingPending, tpc, queued, ran, quitRequested,
    quitWhileLooping, now, intervals, expiration, timers, activeTimers,
    canceling, callingExpired, expired, nrun, tfd, cancelled, opc, thpc, loopSet, loopAlive, exiting, joined,
    \* EventLoopThreadPool
    nThreads,   \* nThreads_
    ppc,        \* init (started_ false), starting (in start()), ready, destroyed
    loops,      \* loops_
    next,       \* next_
    handed      \* the loops getNextLoop() returned, in order

T == INSTANCE EventLoopThread

tqVars == <<now, intervals, expiration, timers, activeTimers, canceling,
            callingExpired, expired, nrun, tfd, cancelled>>

threadVars == <<lpc, looping, quit, wakeupReadable, ioReady, ioEvents, active,
                pending, functors, callingPending, tpc, queued, ran,
                quitRequested, quitWhileLooping, tqVars, opc, thpc, loopSet,
                loopAlive, exiting, joined>>
poolVars == <<nThreads, ppc, loops, next, handed>>
vars == <<threadVars, poolVars>>

\* The loop an EventLoopThread returns, and the base loop.
Loop1 == "loop1"
BaseLoop == "base"

\* next_ after a getNextLoop() call on a pool of size loops:
\* ++next_; if (next_ >= loops_.size()) next_ = 0.
NextIndexOffByOne(n, size) == IF n + 1 > size THEN 0 ELSE n + 1
NextIndex(n, size) == IF n + 1 >= size THEN 0 ELSE n + 1

TypeOK ==
    /\ T!TypeOK
    /\ nThreads \in 0..1
    /\ ppc \in {"init", "starting", "ready", "destroyed"}
    /\ loops \in Seq({Loop1}) /\ Len(loops) <= 1
    /\ next \in 0..Len(loops) /\ (loops # <<>> => next < Len(loops))
    /\ handed \in Seq({Loop1, BaseLoop})

\* The constructor: started_ false, nThreads_ 0, next_ 0; the
\* EventLoopThread is not constructed yet.
Init ==
    /\ T!Init
    /\ nThreads = 0 /\ ppc = "init" /\ loops = <<>> /\ next = 0
    /\ handed = <<>>

----------------------------------------------------------------------------
(* The base loop's thread                                                  *)

\* setThreadNum(n), before start().
SetThreadNum(n) ==
    /\ ppc = "init"
    /\ nThreads' = n
    /\ UNCHANGED <<threadVars, ppc, loops, next, handed>>

\* start(): assert(!started_); started_ = true; for each thread, new
\* EventLoopThread and its startLoop(); with no threads, cb(baseLoop_).
Start ==
    /\ ppc = "init"
    /\ \/ nThreads = 0 /\ ppc' = "ready" /\ UNCHANGED threadVars
       \/ nThreads = 1 /\ ppc' = "starting" /\ T!StartLoop
    /\ UNCHANGED <<nThreads, loops, next, handed>>

\* loops_.push_back(t->startLoop()) once startLoop() returns.
PushLoop ==
    /\ ppc = "starting" /\ opc = "started"
    /\ loops' = Append(loops, Loop1) /\ ppc' = "ready"
    /\ UNCHANGED <<threadVars, nThreads, next, handed>>

\* getNextLoop(): the base loop if loops_ is empty, else loops_[next_]
\* and the round-robin step.
GetNextLoop ==
    /\ ppc = "ready" /\ Len(handed) < MaxHandouts
    /\ IF loops = <<>>
         THEN handed' = Append(handed, BaseLoop) /\ UNCHANGED next
         ELSE /\ handed' = Append(handed, loops[next + 1])
              /\ next' = NextIndex(next, Len(loops))
    /\ UNCHANGED <<threadVars, nThreads, ppc, loops>>

\* ~EventLoopThreadPool: the ptr_vector threads_ deletes each
\* EventLoopThread, whose destructor quits and joins its loop.
PoolDestroy ==
    /\ ppc = "ready"
    /\ ppc' = "destroyed"
    /\ \/ loops = <<>> /\ UNCHANGED threadVars
       \/ loops # <<>> /\ T!Destroy
    /\ UNCHANGED <<nThreads, loops, next, handed>>

\* A step of EventLoopThread's own threads, or of a loop's users, that the
\* pool takes no part in.
Thread(A) == A /\ UNCHANGED poolVars

\* Users are handed the loop by getNextLoop() and queue functors and
\* timers into it; they never quit a loop the pool owns.
UseLoop(A) ==
    /\ Loop1 \in {handed[i] : i \in DOMAIN handed}
    /\ ppc = "ready"
    /\ Thread(A)

Next ==
    \/ \E n \in 0..1 : SetThreadNum(n)
    \/ Start \/ PushLoop \/ GetNextLoop \/ PoolDestroy
    \/ Thread(T!StartLoopCheck) \/ Thread(T!SpuriousWakeup)
    \/ Thread(T!DestroyQuit) \/ Thread(T!Join)
    \/ Thread(T!RunInThread)
    \/ Thread(T!ConstructLoop) \/ Thread(T!Publish) \/ Thread(T!ThreadExit)
    \/ Thread(T!LoopStep)
    \/ \E t \in Threads, k \in T!L!Kinds \ {"quit"} : UseLoop(T!UserQueue(t, k))
    \/ \E t \in Threads : UseLoop(T!UserTimer(t))
    \/ \E t \in Threads : Thread(T!WakeupStep(t))
    \/ Thread(T!IoStep) \/ Thread(T!TickStep)

\* EventLoopThread's fairness, and the owner going on from startLoop()
\* to the push.  Calling setThreadNum, start, getNextLoop and destroying
\* the pool are the program's choices.
Spec == Init /\ [][Next]_vars /\ T!Fairness /\ WF_vars(PushLoop)

----------------------------------------------------------------------------
(* Properties                                                              *)

\* EventLoopThread's and EventLoop's properties hold for the pool's loop.
NoLostWakeup == T!NoLostWakeup
QueuedFunctorRuns == T!QueuedFunctorRuns
QuitWhileLoopingStops == T!QuitWhileLoopingStops
StartLoopReturns == T!StartLoopReturns
TimerFdArmed == T!TimerFdArmed
CancelledNotRescheduled == T!CancelledNotRescheduled
DueTimerRuns == T!DueTimerRuns

\* next_ after k calls to getNextLoop() on a pool of size n.
RECURSIVE NextAfterCalls(_, _)
NextAfterCalls(n, k) ==
    IF k = 0 THEN 0 ELSE NextIndex(NextAfterCalls(n, k - 1), n)

\* Once start() has been called, getNextLoop()'s step hands out every loop
\* in turn: on any pool of up to MaxPoolSize loops the k-th call returns
\* loops_[k mod n].
RoundRobinSteps ==
    \A n \in 1..MaxPoolSize, k \in 0..(2 * MaxPoolSize) :
        NextAfterCalls(n, k) = k % n

RoundRobin == ppc # "init" => RoundRobinSteps

============================================================================
