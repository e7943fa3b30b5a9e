\* The base loop's thread sets the pool size to 0 or 1, starts the pool,
\* hands its loops out, it and one other thread queue functors on a handed
\* loop, and the pool is destroyed.
CONSTANTS
    owner = owner
    t1 = t1
    loopThread = loopThread
    Threads <- MCThreads
    LoopThread <- loopThread
    Owner <- owner
    MaxQueued = 1
    MaxLoopQueued = 1
    MaxIoEvents = 1
    MaxTime = 1
    MaxTimers = 1
    Delays = {1}
    MaxHandouts = 1
    MaxPoolSize = 4
SPECIFICATION Spec
INVARIANT TypeOK
INVARIANT NoLostWakeup
INVARIANT RoundRobin
INVARIANT TimerFdArmed
INVARIANT CancelledNotRescheduled
PROPERTY QueuedFunctorRuns
PROPERTY QuitWhileLoopingStops
PROPERTY StartLoopReturns
PROPERTY DueTimerRuns
\* The pool is destroyed and the loop thread has ended, or the loop waits.
CHECK_DEADLOCK FALSE
