----------------------------- MODULE ThreadPool -----------------------------
(***************************************************************************)
(* ThreadPool (src/tesla/base/Threadpool.cc) with setMaxQueueSize(n > 0): *)
(* worker threads loop on take(); producer threads call run(task); the    *)
(* owning thread calls start() and stop().  Everything between locking    *)
(* mutex_ and the next wait or unlock is one step.  A Condition's wait    *)
(* set is the set of threads whose pc is the wait; notify() wakes one     *)
(* arbitrary waiter, notifyAll() all of them, and a woken thread re-runs  *)
(* its while-test once it holds the mutex again.  Spurious wakeups are    *)
(* allowed, as pthread_cond_wait allows them.                             *)
(***************************************************************************)
EXTENDS Naturals, Sequences

CONSTANTS
    Workers,           \* the threads start() creates
    Producers,         \* threads calling run()
    MaxQueueSize,      \* maxQueueSize_
    TasksPerProducer   \* run() calls each producer makes

ASSUME MaxQueueSize \in Nat \ {0} /\ TasksPerProducer \in Nat \ {0}

Tasks == Producers \X (1..TasksPerProducer)

VARIABLES
    running,   \* running_
    queue,     \* queue_
    wpc,       \* each worker's place in runInThread / take
    task,      \* the task each worker holds
    ppc,       \* each producer's place: idle, in run(), waiting, done
    sent,      \* run() calls each producer completed
    mpc,       \* the owning thread: init, started, joining, joined
    executed,  \* history: tasks that ran
    owner,     \* the thread pthread_mutex_lock granted mutex_ to, or NoThread
    holder     \* mutex_.holder_: the tid it records, or NoThread (0)

vars == <<running, queue, wpc, task, ppc, sent, mpc, executed, owner, holder>>

NoTask == <<>>

\* holder_ == 0, and a free pthread mutex.
NoThread == "none"

TypeOK ==
    /\ running \in BOOLEAN
    /\ queue \in Seq(Tasks) /\ Len(queue) <= MaxQueueSize
    /\ wpc \in [Workers -> {"check", "take", "locked", "waitEmpty", "woken",
                            "run", "exit"}]
    /\ task \in [Workers -> Tasks \cup {NoTask}]
    /\ ppc \in [Producers -> {"idle", "call", "locked", "waitFull", "woken",
                              "done"}]
    /\ sent \in [Producers -> 0..TasksPerProducer]
    /\ mpc \in {"init", "started", "joining", "joined"}
    /\ executed \subseteq Tasks
    /\ owner \in Workers \cup Producers \cup {NoThread}
    /\ holder \in Workers \cup Producers \cup {NoThread}

\* The pool after its constructor, before start(); producers start calling
\* once it is started.  MutexLock(): holder_(0).
Init ==
    /\ running = FALSE /\ queue = <<>>
    /\ wpc = [w \in Workers |-> "check"] /\ task = [w \in Workers |-> NoTask]
    /\ ppc = [p \in Producers |-> "idle"] /\ sent = [p \in Producers |-> 0]
    /\ mpc = "init" /\ executed = {}
    /\ owner = NoThread /\ holder = NoThread

\* Condition::notify(): the pcs that result from waking one waiter, if
\* there is one.
NotifyOne(pc, waiting, woken) ==
    IF \E t \in DOMAIN pc : pc[t] = waiting
    THEN {[pc EXCEPT ![t] = woken] : t \in {u \in DOMAIN pc : pc[u] = waiting}}
    ELSE {pc}

\* Condition::notifyAll().
NotifyAll(pc, waiting, woken) ==
    [t \in DOMAIN pc |-> IF pc[t] = waiting THEN woken ELSE pc[t]]

----------------------------------------------------------------------------
(* MutexLock and Condition::wait.  Thread t is granted the free mutex and  *)
(* records itself in holder_; the critical sections that follow run as one *)
(* step each and end in Unlock or in Wait.                                 *)

\* MutexLock::lock(): pthread_mutex_lock, then assignHolder().
Lock(t) ==
    /\ owner = NoThread
    /\ owner' = t /\ holder' = t

\* MutexLock::unlock(): unassignHolder(), then pthread_mutex_unlock.
Unlock == owner' = NoThread /\ holder' = NoThread

\* Condition::wait(): the UnassignGuard clears holder_, and
\* pthread_cond_wait releases the mutex as the thread joins the wait set.
Wait == owner' = NoThread /\ holder' = NoThread

\* Mutant: ~UnassignGuard does not assign holder_ again.
ReacquireNoAssign(t) ==
    /\ owner = NoThread
    /\ owner' = t /\ UNCHANGED holder

\* A woken waiter: pthread_cond_wait returns holding the mutex again, and
\* ~UnassignGuard assigns holder_ = tid.
Reacquire(t) ==
    /\ owner = NoThread
    /\ owner' = t /\ holder' = t

----------------------------------------------------------------------------
(* The owning thread.                                                      *)

\* start(numThreads): running_ = true, then each Thread starts runInThread.
Start ==
    /\ mpc = "init"
    /\ mpc' = "started" /\ running' = TRUE
    /\ UNCHANGED <<queue, wpc, task, ppc, sent, executed, owner, holder>>

\* Mutant: stop() wakes one waiting worker instead of all.
StopNotifyOne ==
    /\ mpc = "started" /\ owner = NoThread
    /\ mpc' = "joining" /\ running' = FALSE
    /\ \E pc \in NotifyOne(wpc, "waitEmpty", "woken") : wpc' = pc
    /\ UNCHANGED <<queue, task, ppc, sent, executed, owner, holder>>

\* stop(): under the lock running_ = false and notEmpty_.notifyAll(), then
\* join every worker.
Stop ==
    /\ mpc = "started" /\ owner = NoThread
    /\ mpc' = "joining" /\ running' = FALSE
    /\ wpc' = NotifyAll(wpc, "waitEmpty", "woken")
    /\ UNCHANGED <<queue, task, ppc, sent, executed, owner, holder>>

Joined ==
    /\ mpc = "joining" /\ \A w \in Workers : wpc[w] = "exit"
    /\ mpc' = "joined"
    /\ UNCHANGED <<running, queue, wpc, task, ppc, sent, executed, owner,
                   holder>>

----------------------------------------------------------------------------
(* Workers: runInThread and take().                                        *)

\* while (running_): running_ is read without the lock.
WorkerCheck(w) ==
    /\ mpc # "init" /\ wpc[w] = "check"
    /\ wpc' = [wpc EXCEPT ![w] = IF running THEN "take" ELSE "exit"]
    /\ UNCHANGED <<running, queue, task, ppc, sent, mpc, executed, owner,
                   holder>>

\* take() locks mutex_ (MutexLockGuard), or a woken worker gets it back.
WorkerAcquire(w) ==
    /\ \/ wpc[w] = "take" /\ Lock(w)
       \/ wpc[w] = "woken" /\ Reacquire(w)
    /\ wpc' = [wpc EXCEPT ![w] = "locked"]
    /\ UNCHANGED <<running, queue, task, ppc, sent, mpc, executed>>

\* Mutant: take() does not notify notFull_.
TakeNoNotify(w) ==
    /\ wpc[w] = "locked"
    /\ IF queue = <<>> /\ running
       THEN /\ wpc' = [wpc EXCEPT ![w] = "waitEmpty"] /\ Wait
            /\ UNCHANGED <<queue, task, ppc>>
       ELSE IF queue # <<>>
       THEN /\ task' = [task EXCEPT ![w] = Head(queue)]
            /\ queue' = Tail(queue)
            /\ wpc' = [wpc EXCEPT ![w] = "run"] /\ Unlock
            /\ UNCHANGED ppc
       ELSE /\ wpc' = [wpc EXCEPT ![w] = "check"] /\ Unlock
            /\ UNCHANGED <<queue, task, ppc>>
    /\ UNCHANGED <<running, sent, mpc, executed>>

\* take() holding the lock: wait on notEmpty_ while the queue is empty and
\* running_; then pop the front task, if any, notFull_.notify(), and
\* unlock as the guard goes.  An empty Task is returned when stopped with
\* an empty queue.
Take(w) ==
    /\ wpc[w] = "locked"
    /\ IF queue = <<>> /\ running
       THEN /\ wpc' = [wpc EXCEPT ![w] = "waitEmpty"] /\ Wait
            /\ UNCHANGED <<queue, task, ppc>>
       ELSE IF queue # <<>>
       THEN /\ task' = [task EXCEPT ![w] = Head(queue)]
            /\ queue' = Tail(queue)
            /\ wpc' = [wpc EXCEPT ![w] = "run"] /\ Unlock
            /\ \E pc \in NotifyOne(ppc, "waitFull", "woken") : ppc' = pc
       ELSE /\ wpc' = [wpc EXCEPT ![w] = "check"] /\ Unlock
            /\ UNCHANGED <<queue, task, ppc>>
    /\ UNCHANGED <<running, sent, mpc, executed>>

\* The task runs outside the lock; the loop goes back to its test.
Execute(w) ==
    /\ wpc[w] = "run"
    /\ executed' = executed \cup {task[w]}
    /\ task' = [task EXCEPT ![w] = NoTask]
    /\ wpc' = [wpc EXCEPT ![w] = "check"]
    /\ UNCHANGED <<running, queue, ppc, sent, mpc, owner, holder>>

----------------------------------------------------------------------------
(* Producers: run(task).                                                   *)

\* A producer calls run() on the started pool (also after stop()).
Call(p) ==
    /\ mpc # "init" /\ ppc[p] = "idle"
    /\ ppc' = [ppc EXCEPT ![p] = "call"]
    /\ UNCHANGED <<running, queue, wpc, task, sent, mpc, executed, owner,
                   holder>>

\* run() locks mutex_, or a woken producer gets it back.
ProducerAcquire(p) ==
    /\ \/ ppc[p] = "call" /\ Lock(p)
       \/ ppc[p] = "woken" /\ Reacquire(p)
    /\ ppc' = [ppc EXCEPT ![p] = "locked"]
    /\ UNCHANGED <<running, queue, wpc, task, sent, mpc, executed>>

\* Mutant: isFull() tests size > maxQueueSize_.
IsFullOffByOne == Len(queue) > MaxQueueSize

\* isFull(): maxQueueSize_ > 0 && queue_.size() >= maxQueueSize_.
IsFull == Len(queue) >= MaxQueueSize

\* Mutant: run() does not notify notEmpty_.
PushNoNotify(p) ==
    /\ ppc[p] = "locked"
    /\ IF IsFull
       THEN /\ ppc' = [ppc EXCEPT ![p] = "waitFull"] /\ Wait
            /\ UNCHANGED <<queue, wpc, sent>>
       ELSE /\ queue' = Append(queue, <<p, sent[p] + 1>>)
            /\ sent' = [sent EXCEPT ![p] = @ + 1]
            /\ ppc' = [ppc EXCEPT ![p] = IF sent[p] + 1 = TasksPerProducer
                                          THEN "done" ELSE "idle"]
            /\ Unlock
            /\ UNCHANGED wpc
    /\ UNCHANGED <<running, task, mpc, executed>>

\* run() holding the lock: wait on notFull_ while isFull(); then push the
\* task, notEmpty_.notify(), and unlock as the guard goes.
Push(p) ==
    /\ ppc[p] = "locked"
    /\ IF IsFull
       THEN /\ ppc' = [ppc EXCEPT ![p] = "waitFull"] /\ Wait
            /\ UNCHANGED <<queue, wpc, sent>>
       ELSE /\ queue' = Append(queue, <<p, sent[p] + 1>>)
            /\ sent' = [sent EXCEPT ![p] = @ + 1]
            /\ ppc' = [ppc EXCEPT ![p] = IF sent[p] + 1 = TasksPerProducer
                                          THEN "done" ELSE "idle"]
            /\ Unlock
            /\ \E pc \in NotifyOne(wpc, "waitEmpty", "woken") : wpc' = pc
    /\ UNCHANGED <<running, task, mpc, executed>>

\* pthread_cond_wait may return without a notify.
SpuriousWakeup ==
    /\ \/ \E w \in Workers :
            /\ wpc[w] = "waitEmpty"
            /\ wpc' = [wpc EXCEPT ![w] = "woken"]
            /\ UNCHANGED ppc
       \/ \E p \in Producers :
            /\ ppc[p] = "waitFull"
            /\ ppc' = [ppc EXCEPT ![p] = "woken"]
            /\ UNCHANGED wpc
    /\ UNCHANGED <<running, queue, task, sent, mpc, executed, owner, holder>>

----------------------------------------------------------------------------

Worker(w) == WorkerCheck(w) \/ Take(w) \/ Execute(w)

Next ==
    \/ Start \/ Stop \/ Joined
    \/ \E w \in Workers : Worker(w) \/ WorkerAcquire(w)
    \/ \E p \in Producers : Call(p) \/ ProducerAcquire(p) \/ Push(p)
    \/ SpuriousWakeup

\* Every thread that holds the CPU keeps running: workers, a producer
\* inside run(), and the owner joining.  A thread blocked on mutex_ is
\* granted it if the mutex is free again and again (strong fairness: the
\* pthread mutex does not starve a waiter forever).  Starting, stopping,
\* calling run() and spurious wakeups are not forced.
Fairness ==
    /\ \A w \in Workers : WF_vars(Worker(w)) /\ SF_vars(WorkerAcquire(w))
    /\ \A p \in Producers : WF_vars(Push(p)) /\ SF_vars(ProducerAcquire(p))
    /\ WF_vars(Joined)

Spec == Init /\ [][Next]_vars /\ Fairness

----------------------------------------------------------------------------
(* Properties (TypeOK also bounds the queue by maxQueueSize_)              *)

\* stop() returns: after running_ = false every worker leaves take() and
\* runInThread, so joining them ends, however many were waiting.
StopJoins == (mpc = "joining") ~> (mpc = "joined")

\* While the pool runs, a queued task is taken and run: a push always
\* wakes a waiting worker.
QueuedTaskRuns ==
    \A t \in Tasks :
        (running /\ \E i \in DOMAIN queue : queue[i] = t)
            ~> (t \in executed \/ ~running)

\* isFull()'s mutex_.assertLocked() holds: a producer holding the lock in
\* run() is holder_, also after a wait on notFull_ returned, however the
\* other threads took and released mutex_ meanwhile.
AssertLockedHolds == \A p \in Producers : ppc[p] = "locked" => holder = p

\* While the pool runs, a producer blocked in run() on a full queue gets
\* to push: every take() frees a slot and wakes a producer.
ProducerProceeds ==
    \A p \in Producers :
        (running /\ ppc[p] = "waitFull") ~> (ppc[p] # "waitFull" \/ ~running)

============================================================================
