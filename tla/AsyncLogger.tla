---------------------------- MODULE AsyncLogger ----------------------------
(***************************************************************************)
(* AsyncLogger (src/tesla/base/AsyncLogger.cc, AsyncLogger.h): front-end  *)
(* threads append log lines into currentBuffer_ under mutex_; a full      *)
(* buffer moves to buffers_ and nextBuffer_ (or a new Buffer) takes its   *)
(* place.  The writer thread (threadFunc) swaps buffers_ and              *)
(* currentBuffer_ out under the mutex, at the latest after flushInterval_ *)
(* seconds, writes them outside it, and recycles two of them as its spare *)
(* buffers newBuffer1/newBuffer2.  start() sets running_, starts the      *)
(* Thread and waits on the CountdownLatch that threadFunc counts down;    *)
(* stop() clears running_, notifies cond_ and joins.                      *)
(*                                                                         *)
(* A log line is a message <<frontend, i>> of length 1; a Buffer holds    *)
(* BufferSize bytes and append() takes a line only while available() >    *)
(* len.  A buffer the writer owns empty is a flag, not a sequence.        *)
(***************************************************************************)
EXTENDS Naturals, SequencesExt

CONSTANTS
    Frontends,         \* threads calling append()
    MsgsPerFrontend,   \* lines each of them appends
    BufferSize,        \* FixedBuffer<LARGE_BUFFER> capacity, in line lengths
    MaxToWrite         \* the 25 of "buffersToWrite.size() > 25"

ASSUME BufferSize \in Nat /\ BufferSize >= 2 /\ MaxToWrite \in Nat \ {0, 1}

Msgs == Frontends \X (1..MsgsPerFrontend)

VARIABLES
    running,    \* running_
    opc,        \* the owning thread: init, latch, running, joining, done
    latch,      \* latch_'s count_
    wpc,        \* the writer thread: idle, start, check, lock, wait, write, exit
    cur,        \* currentBuffer_'s lines
    hasNext,    \* nextBuffer_ is non-null
    bufs,       \* buffers_
    new1, new2, \* threadFunc's newBuffer1 / newBuffer2 are non-null
    toWrite,    \* threadFunc's buffersToWrite
    sent,       \* lines each front end has appended
    written,    \* lines the FileLogger output received, in order
    dropped,    \* history: lines erased as "Dropped log messages"
    failed      \* an assert in threadFunc failed

vars == <<running, opc, latch, wpc, cur, hasNext, bufs, new1, new2, toWrite,
          sent, written, dropped, failed>>

TypeOK ==
    /\ running \in BOOLEAN /\ latch \in 0..1
    /\ opc \in {"init", "latch", "running", "joining", "done"}
    /\ wpc \in {"idle", "start", "check", "lock", "wait", "write", "exit"}
    /\ cur \in Seq(Msgs) /\ Len(cur) < BufferSize
    /\ bufs \in Seq(Seq(Msgs)) /\ toWrite \in Seq(Seq(Msgs))
    /\ hasNext \in BOOLEAN /\ new1 \in BOOLEAN /\ new2 \in BOOLEAN
    /\ sent \in [Frontends -> 0..MsgsPerFrontend]
    /\ written \in Seq(Msgs) /\ dropped \subseteq Msgs
    /\ failed \in BOOLEAN

\* The constructor: two zeroed buffers, running_ false, latch_(1).
Init ==
    /\ running = FALSE /\ opc = "init" /\ latch = 1 /\ wpc = "idle"
    /\ cur = <<>> /\ hasNext = TRUE /\ bufs = <<>>
    /\ new1 = FALSE /\ new2 = FALSE /\ toWrite = <<>>
    /\ sent = [f \in Frontends |-> 0]
    /\ written = <<>> /\ dropped = {} /\ failed = FALSE

Lines(bs) == FlattenSeq(bs)

\* FixedBuffer::available(): end() - cur_.
Available(b) == BufferSize - Len(b)

\* FixedBuffer::append(buf, len): copy only if available() > len (a line
\* is one unit long); else the buffer is left as it is.
BufAppend(b, m) == IF Available(b) > 1 THEN Append(b, m) ELSE b

\* CountdownLatch::countDown(): --count_ under its mutex; notifyAll at 0
\* releases the waiters, whose while-test LatchReturns is.
CountDown == latch' = latch - 1

----------------------------------------------------------------------------
(* The owning thread                                                       *)

\* start(): running_ = true, thread_.start(), then latch_.wait().
Start ==
    /\ opc = "init"
    /\ running' = TRUE /\ opc' = "latch" /\ wpc' = "start"
    /\ UNCHANGED <<latch, cur, hasNext, bufs, new1, new2, toWrite, sent,
                   written, dropped, failed>>

\* CountdownLatch::wait(): while (count_ > 0) condition_.wait().
LatchReturns ==
    /\ opc = "latch" /\ latch = 0
    /\ opc' = "running"
    /\ UNCHANGED <<running, latch, wpc, cur, hasNext, bufs, new1, new2,
                   toWrite, sent, written, dropped, failed>>

\* stop(): running_ = false and cond_.notify() (the wait is timed, so the
\* notify only shortens it), then thread_.join().
Stop ==
    /\ opc = "running"
    /\ running' = FALSE /\ opc' = "joining"
    /\ UNCHANGED <<latch, wpc, cur, hasNext, bufs, new1, new2, toWrite, sent,
                   written, dropped, failed>>

Join ==
    /\ opc = "joining" /\ wpc = "exit"
    /\ opc' = "done"
    /\ UNCHANGED <<running, latch, wpc, cur, hasNext, bufs, new1, new2,
                   toWrite, sent, written, dropped, failed>>

----------------------------------------------------------------------------
(* Front ends                                                              *)

\* Mutant: a full currentBuffer_ is replaced without being queued.
AppendLosesFull(f) ==
    LET m == <<f, sent[f] + 1>> IN
    /\ opc = "running" /\ sent[f] < MsgsPerFrontend
    /\ sent' = [sent EXCEPT ![f] = @ + 1]
    /\ IF BufferSize - Len(cur) > 1
       THEN cur' = Append(cur, m) /\ UNCHANGED <<bufs, hasNext>>
       ELSE cur' = <<m>> /\ hasNext' = FALSE /\ UNCHANGED bufs
    /\ UNCHANGED <<running, opc, latch, wpc, new1, new2, toWrite, written,
                   dropped, failed>>

\* Mutant: the line is copied while available() >= len.
AppendFitsOffByOne(f) ==
    LET m == <<f, sent[f] + 1>> IN
    /\ opc = "running" /\ sent[f] < MsgsPerFrontend
    /\ sent' = [sent EXCEPT ![f] = @ + 1]
    /\ IF BufferSize - Len(cur) >= 1
       THEN cur' = Append(cur, m) /\ UNCHANGED <<bufs, hasNext>>
       ELSE /\ bufs' = Append(bufs, cur)
            /\ cur' = <<m>> /\ hasNext' = FALSE
    /\ UNCHANGED <<running, opc, latch, wpc, new1, new2, toWrite, written,
                   dropped, failed>>

\* append(logline, len) under mutex_: copy into currentBuffer_ if
\* available() > len; else push currentBuffer_ to buffers_, take
\* nextBuffer_ (or a new Buffer) as currentBuffer_, copy, cond_.notify().
\* Loggers append while the logger runs.
Append_(f) ==
    LET m == <<f, sent[f] + 1>> IN
    /\ opc = "running" /\ sent[f] < MsgsPerFrontend
    /\ sent' = [sent EXCEPT ![f] = @ + 1]
    /\ IF Available(cur) > 1
       THEN cur' = BufAppend(cur, m) /\ UNCHANGED <<bufs, hasNext>>
       ELSE /\ bufs' = Append(bufs, cur)
            /\ cur' = BufAppend(<<>>, m) /\ hasNext' = FALSE
    /\ UNCHANGED <<running, opc, latch, wpc, new1, new2, toWrite, written,
                   dropped, failed>>

----------------------------------------------------------------------------
(* The writer thread: threadFunc                                           *)

\* assert(running_); latch_.countDown() (count 0: notifyAll); the
\* FileLogger and two zeroed spare buffers.
WriterStart ==
    /\ wpc = "start"
    /\ failed' = (failed \/ ~running)
    /\ CountDown /\ new1' = TRUE /\ new2' = TRUE
    /\ wpc' = "check"
    /\ UNCHANGED <<running, opc, cur, hasNext, bufs, toWrite, sent, written,
                   dropped>>

\* while (running_), with the loop's three asserts on the spare buffers;
\* when it ends, output.flush() and return.
WriterCheck ==
    /\ wpc = "check"
    /\ wpc' = IF running THEN "lock" ELSE "exit"
    /\ failed' = (failed \/ (running /\ ~(new1 /\ new2 /\ toWrite = <<>>)))
    /\ UNCHANGED <<running, opc, latch, cur, hasNext, bufs, new1, new2,
                   toWrite, sent, written, dropped>>

\* Under mutex_: if buffers_ is empty, cond_.waitForSeconds(flushInterval_).
WriterWait ==
    /\ wpc = "lock" /\ bufs = <<>>
    /\ wpc' = "wait"
    /\ UNCHANGED <<running, opc, latch, cur, hasNext, bufs, new1, new2,
                   toWrite, sent, written, dropped, failed>>

\* Mutant: newBuffer2 replaces nextBuffer_ whether or not it was taken.
SwapAlwaysRefills ==
    /\ \/ wpc = "lock" /\ bufs # <<>>
       \/ wpc = "wait"
    /\ toWrite' = Append(bufs, cur)
    /\ bufs' = <<>> /\ cur' = <<>> /\ new1' = FALSE
    /\ hasNext' = TRUE /\ new2' = FALSE
    /\ wpc' = "write"
    /\ UNCHANGED <<running, opc, latch, sent, written, dropped, failed>>

\* Mutant: currentBuffer_ is put in front of the full buffers.
SwapCurrentFirst ==
    /\ \/ wpc = "lock" /\ bufs # <<>>
       \/ wpc = "wait"
    /\ toWrite' = <<cur>> \o bufs
    /\ bufs' = <<>> /\ cur' = <<>> /\ new1' = FALSE
    /\ IF hasNext THEN UNCHANGED <<hasNext, new2>>
                  ELSE hasNext' = TRUE /\ new2' = FALSE
    /\ wpc' = "write"
    /\ UNCHANGED <<running, opc, latch, sent, written, dropped, failed>>

\* Still under mutex_ (after the wait returns, by notify or timeout):
\* push currentBuffer_ to buffers_, newBuffer1 becomes currentBuffer_,
\* swap buffers_ into buffersToWrite, and newBuffer2 becomes nextBuffer_
\* if that was taken.
Swap ==
    /\ \/ wpc = "lock" /\ bufs # <<>>
       \/ wpc = "wait"
    /\ toWrite' = Append(bufs, cur)
    /\ bufs' = <<>> /\ cur' = <<>> /\ new1' = FALSE
    /\ IF hasNext THEN UNCHANGED <<hasNext, new2>>
                  ELSE hasNext' = TRUE /\ new2' = FALSE
    /\ wpc' = "write"
    /\ UNCHANGED <<running, opc, latch, sent, written, dropped, failed>>

\* Outside the lock: with more than 25 buffers keep the first two and
\* drop the rest; write every kept buffer; keep at most two to refill
\* newBuffer1 and newBuffer2 from the back (asserting one is there);
\* clear buffersToWrite and flush.
Write ==
    LET over  == Len(toWrite) > MaxToWrite
        kept  == IF over THEN SubSeq(toWrite, 1, 2) ELSE toWrite
        spare == IF Len(kept) > 2 THEN 2 ELSE Len(kept)
        need  == (IF new1 THEN 0 ELSE 1) + (IF new2 THEN 0 ELSE 1)
    IN  /\ wpc = "write"
        /\ failed' = (failed \/ toWrite = <<>> \/ need > spare)
        /\ written' = written \o Lines(kept)
        /\ dropped' = dropped \cup
                        (IF over THEN ToSet(Lines(SubSeq(toWrite, 3, Len(toWrite))))
                                 ELSE {})
        /\ new1' = (new1 \/ spare >= 1)
        /\ new2' = (new2 \/ spare >= need)
        /\ toWrite' = <<>>
        /\ wpc' = "check"
        /\ UNCHANGED <<running, opc, latch, cur, hasNext, bufs, sent>>

----------------------------------------------------------------------------

Next ==
    \/ Start \/ LatchReturns \/ Stop \/ Join
    \/ \E f \in Frontends : Append_(f)
    \/ WriterStart \/ WriterCheck \/ WriterWait \/ Swap \/ Write

\* The writer and the owner's waits are scheduled; the timed wait always
\* returns, so Swap from the wait is weakly fair.  Starting, stopping and
\* appending are the program's choices.
Fairness ==
    /\ WF_vars(LatchReturns) /\ WF_vars(Join)
    /\ WF_vars(WriterStart) /\ WF_vars(WriterCheck) /\ WF_vars(WriterWait)
    /\ WF_vars(Swap) /\ WF_vars(Write)

Spec == Init /\ [][Next]_vars /\ Fairness

----------------------------------------------------------------------------
(* Properties                                                              *)

\* No assert of threadFunc fails: running_ is set when it starts, both
\* spare buffers are back at the top of every iteration, and
\* buffersToWrite holds a buffer for every spare it has to refill.
AssertionsHold == ~failed

\* Lines reach the log file in the order each front end appended them,
\* none twice, through full buffers, nextBuffer_, the swap and the drop.
LinesInOrder ==
    \A f \in Frontends :
        LET mine == SelectSeq(written, LAMBDA m : m[1] = f) IN
        \A i \in 1..Len(mine) : mine[i][2] = i + Cardinality(
            {d \in dropped : d[1] = f /\ d[2] < mine[i][2]})

\* Every appended line is written, unless the 25-buffer guard dropped it
\* or the writer has exited: nothing waits in a buffer forever.
LineWritten ==
    \A m \in Msgs :
        (m[2] <= sent[m[1]]) ~> (m \in ToSet(written) \/ m \in dropped
                                 \/ wpc = "exit")

============================================================================
