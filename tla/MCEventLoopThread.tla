------------------------- MODULE MCEventLoopThread -------------------------
(* Model-checking instance of EventLoopThread: the owner and one other    *)
(* user thread.                                                            *)
EXTENDS EventLoopThread

CONSTANTS owner, t1, loopThread

MCThreads == {owner, t1}
=============================================================================
