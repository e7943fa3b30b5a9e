----------------------- MODULE MCEventLoopThreadPool -----------------------
(* Model-checking instance of EventLoopThreadPool: the base loop's thread *)
(* (owner of the pool) and one other user thread.                          *)
EXTENDS EventLoopThreadPool

CONSTANTS owner, t1, loopThread

MCThreads == {owner, t1}
=============================================================================
