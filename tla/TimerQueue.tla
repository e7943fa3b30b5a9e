------------------------------ MODULE TimerQueue ------------------------------
(***************************************************************************)
(* The TimerQueue an EventLoop owns (src/tesla/net/TimerQueue.h) and its   *)
(* Timers (Timer.h, Timer.cc).  TimerQueue.cc is not in the repository:    *)
(* its operations are modelled from the members TimerQueue.h declares and  *)
(* the contract of the timer subsystem (spec section 4.4).                  *)
(*                                                                         *)
(* timers_ is the set of (expiration, timer) entries, ordered by          *)
(* expiration then sequence; activeTimers_ identifies the same timers by   *)
(* sequence; cancelingTimers_ collects the timers cancelled while their    *)
(* own batch of expired callbacks runs.  The timerfd holds one absolute    *)
(* deadline and is readable once the clock has reached it.  All of these   *)
(* operations run on the loop thread; EventLoop composes them with its     *)
(* dispatch pass and its pending functors.                                 *)
(***************************************************************************)
EXTENDS Integers, Sequences, SequencesExt

CONSTANTS
    MaxTime,    \* the clock runs over 0..MaxTime
    MaxTimers,  \* Timers created (Timer::s_nCreated_)
    Delays      \* delays and intervals user code passes, in clock ticks

ASSUME MaxTime \in Nat /\ MaxTimers \in Nat /\ Delays \subseteq Nat \ {0}

\* Timestamp::invalid(): an expiration that never comes, a disarmed timerfd.
Invalid == -1

VARIABLES
    now,            \* Timestamp::now()
    intervals,      \* interval_ of Timer number s (its sequence_)
    expiration,     \* expiration_ of Timer number s
    timers,         \* timers_: entries [when, seq]
    activeTimers,   \* activeTimers_: the sequences of the live timers
    canceling,      \* cancelingTimers_
    callingExpired, \* callingExpiredTimers_
    expired,        \* handleRead's vector of expired entries
    nrun,           \* how many of them have run
    tfd,            \* the timerfd's deadline, or Invalid
    cancelled       \* history: timers cancelInLoop has handled

tqVars == <<now, intervals, expiration, timers, activeTimers, canceling,
            callingExpired, expired, nrun, tfd, cancelled>>

Times == Invalid..(MaxTime + Max(Delays \cup {0}))
Entry == [when : Times, seq : 1..MaxTimers]
Seqs(S) == {e.seq : e \in S}

\* repeat_(interval > 0.0)
Repeat(s) == intervals[s] > 0

TypeOK ==
    /\ now \in 0..MaxTime
    /\ intervals \in Seq({0} \cup Delays) /\ Len(intervals) <= MaxTimers
    /\ expiration \in Seq(Times) /\ Len(expiration) = Len(intervals)
    /\ timers \subseteq Entry /\ activeTimers \subseteq 1..MaxTimers
    /\ canceling \subseteq 1..MaxTimers
    /\ callingExpired \in BOOLEAN
    /\ expired \in Seq(Entry) /\ nrun \in 0..Len(expired)
    /\ tfd \in Times
    /\ cancelled \subseteq 1..MaxTimers

\* The TimerQueue's constructor: no timers, the timerfd disarmed.
Init ==
    /\ now = 0
    /\ intervals = <<>> /\ expiration = <<>>
    /\ timers = {} /\ activeTimers = {} /\ canceling = {}
    /\ callingExpired = FALSE /\ expired = <<>> /\ nrun = 0
    /\ tfd = Invalid /\ cancelled = {}

\* The timerfd is readable once its deadline has passed.
TimerFdReadable == tfd # Invalid /\ now >= tfd

\* The earliest expiration in a non-empty set of entries.
MinWhen(S) == CHOOSE w \in {e.when : e \in S} : \A e \in S : w <= e.when

\* The order of timers_: expiration, then sequence.
EntryLess(a, b) == a.when < b.when \/ (a.when = b.when /\ a.seq < b.seq)

\* Timer::restart(now): a repeating timer's next expiration, else invalid.
Restart(s, t) == IF Repeat(s) THEN t + intervals[s] ELSE Invalid

----------------------------------------------------------------------------
(* Operations                                                              *)

\* The Timer constructor, on the thread calling runAt/runAfter/runEvery:
\* expiration_(when), interval_, sequence_ = ++s_nCreated_.
NewTimer(when, interval) ==
    /\ Len(intervals) < MaxTimers
    /\ intervals' = Append(intervals, interval)
    /\ expiration' = Append(expiration, when)
    /\ UNCHANGED <<now, timers, activeTimers, canceling, callingExpired,
                   expired, nrun, tfd, cancelled>>

\* insert(): the new timer is the earliest when timers_ is empty or its
\* expiration is before the first entry's.
EarliestChanged(when) == timers = {} \/ when < MinWhen(timers)

\* Mutant: addTimerInLoop never re-arms the timerfd.
AddTimerInLoopNoReset(s) ==
    LET e == [when |-> expiration[s], seq |-> s] IN
    /\ timers' = timers \cup {e}
    /\ activeTimers' = activeTimers \cup {s}
    /\ UNCHANGED <<now, intervals, expiration, canceling, callingExpired,
                   expired, nrun, tfd, cancelled>>

\* addTimerInLoop(timer): insert into timers_ and activeTimers_, and reset
\* the timerfd to the timer's expiration if it became the earliest.
AddTimerInLoop(s) ==
    LET e == [when |-> expiration[s], seq |-> s] IN
    /\ timers' = timers \cup {e}
    /\ activeTimers' = activeTimers \cup {s}
    /\ tfd' = IF EarliestChanged(e.when) THEN e.when ELSE tfd
    /\ UNCHANGED <<now, intervals, expiration, canceling, callingExpired,
                   expired, nrun, cancelled>>

\* What cancelInLoop(timerId) changes: a live timer leaves timers_ and
\* activeTimers_; one whose batch is running joins cancelingTimers_.
CancelEffect(s) ==
    /\ cancelled' = cancelled \cup {s}
    /\ IF s \in activeTimers
         THEN /\ timers' = timers \ {[when |-> expiration[s], seq |-> s]}
              /\ activeTimers' = activeTimers \ {s}
              /\ UNCHANGED canceling
         ELSE /\ canceling' = IF callingExpired THEN canceling \cup {s}
                                                ELSE canceling
              /\ UNCHANGED <<timers, activeTimers>>

CancelInLoop(s) ==
    /\ CancelEffect(s)
    /\ UNCHANGED <<now, intervals, expiration, callingExpired, expired, nrun,
                   tfd>>

\* Mutant: getExpired takes only the timers strictly before now.
GetExpiredStrict(t) == {e \in timers : e.when < t}

\* getExpired(now): every entry up to lower_bound((now, UINTPTR_MAX)).
GetExpired(t) == {e \in timers : e.when <= t}

\* handleRead(), up to its callbacks: read the timerfd, move the expired
\* entries out of timers_ and activeTimers_, callingExpiredTimers_ = true,
\* cancelingTimers_.clear().
HandleRead ==
    LET exp == GetExpired(now) IN
    /\ ~callingExpired
    /\ tfd' = Invalid
    /\ expired' = SetToSortSeq(exp, EntryLess)
    /\ nrun' = 0
    /\ timers' = timers \ exp
    /\ activeTimers' = activeTimers \ Seqs(exp)
    /\ callingExpired' = TRUE
    /\ canceling' = {}
    /\ UNCHANGED <<now, intervals, expiration, cancelled>>

\* The next expired timer's run(); its callback may cancel its own TimerId,
\* which on the loop thread runs cancelInLoop at once.
RunExpired(selfCancel) ==
    /\ callingExpired /\ nrun < Len(expired)
    /\ nrun' = nrun + 1
    /\ IF selfCancel THEN CancelEffect(expired[nrun + 1].seq)
                     ELSE UNCHANGED <<timers, activeTimers, canceling,
                                      cancelled>>
    /\ UNCHANGED <<now, intervals, expiration, callingExpired, expired, tfd>>

\* The repeating timers of the batch.
RescheduledAll == {s \in Seqs(Range(expired)) : Repeat(s)}

\* Mutant: reset() reinserts every repeating timer, cancelled or not.
ResetIgnoresCanceling == RescheduledAll

\* The timers reset() puts back: repeating and not cancelled meanwhile.
Rescheduled == RescheduledAll \ canceling

\* callingExpiredTimers_ = false; reset(expired, now): restart and insert
\* each rescheduled timer (the others are deleted), then arm the timerfd
\* for the first entry of timers_ if there is one.
Reset(again) ==
    LET back == {[when |-> Restart(s, now), seq |-> s] : s \in again}
        next == timers \cup back
    IN
    /\ callingExpired /\ nrun = Len(expired)
    /\ callingExpired' = FALSE
    /\ expiration' = [s \in DOMAIN expiration |->
                        IF s \in again THEN Restart(s, now)
                                       ELSE expiration[s]]
    /\ timers' = next
    /\ activeTimers' = activeTimers \cup again
    /\ tfd' = IF next # {} THEN MinWhen(next) ELSE tfd
    /\ expired' = <<>> /\ nrun' = 0
    /\ UNCHANGED <<now, intervals, canceling, cancelled>>

HandleReadEnd == Reset(Rescheduled)

\* Time passes.  The clock is only read against timers, so it moves only
\* once a Timer exists, also while its addTimerInLoop is still queued;
\* handleRead reads it once for its whole batch (reset() uses that
\* reading), so it does not move inside the batch.
Tick ==
    /\ now < MaxTime
    /\ intervals # <<>> /\ ~callingExpired
    /\ now' = now + 1
    /\ UNCHANGED <<intervals, expiration, timers, activeTimers, canceling,
                   callingExpired, expired, nrun, tfd, cancelled>>

----------------------------------------------------------------------------
(* Properties                                                              *)

\* Outside handleRead the timerfd is armed no later than every timer in
\* timers_: addTimerInLoop re-arms for a new earliest timer, reset() for
\* the first entry left, and cancel only ever removes entries.
TimerFdArmed ==
    ~callingExpired => \A e \in timers : tfd # Invalid /\ tfd <= e.when

\* A timer whose cancelInLoop has run is never back in timers_ or
\* activeTimers_, even when the cancel came from its own callback while
\* reset() was still to reinsert it.
CancelledNotRescheduled ==
    \A s \in cancelled : s \notin Seqs(timers) /\ s \notin activeTimers

\* Timer number s is in timers_ and its expiration has passed.
Due(s) == \E e \in timers : e.seq = s /\ e.when <= now

=============================================================================
