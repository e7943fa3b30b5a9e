--------------------------- MODULE MCAsyncLogger ---------------------------
(* Model-checking instance of AsyncLogger: two front-end threads.         *)
EXTENDS AsyncLogger

CONSTANTS f1, f2

MCFrontends == {f1, f2}
=============================================================================
