\* ~EventLoopThread right after startLoop() returns: its quit() may come
\* before threadFunc has entered loop().
CONSTANTS
    owner = owner
    t1 = t1
    loopThread = loopThread
    Threads <- MCThreads
    LoopThread <- loopThread
    Owner <- owner
    MaxQueued = 1
    MaxLoopQueued = 1
    MaxIoEvents = 1
    MaxTime = 0
    MaxTimers = 0
    Delays = {1}
SPECIFICATION Spec
PROPERTY DestructorReturns
\* The owner is done and the loop thread has ended, or the loop waits.
CHECK_DEADLOCK FALSE
