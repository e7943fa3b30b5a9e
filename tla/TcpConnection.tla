--------------------------- MODULE TcpConnection ---------------------------
(***************************************************************************)
(* One TcpConnection (src/tesla/net/TcpConnection.cc) on its I/O loop.     *)
(*                                                                         *)
(* Actors: the loop thread, which dispatches the connection's Channel      *)
(* (Channel::handleEvent: read handler, then write handler) and drains the *)
(* pending-functor queue; user code on the loop thread (callbacks, timers) *)
(* calling send / shutdown / forceClose / forceCloseWithDelay; one foreign *)
(* thread calling send / shutdown / forceClose, whose read of state_ and   *)
(* its write are separate steps (state_ is a plain enum, FIXME CAS); the   *)
(* peer and the kernel socket.  The owner's close callback is              *)
(* TcpClient::removeConnection, which queues connectDestroyed.             *)
(*                                                                         *)
(* Bytes are counted, not carried: the output buffer is its length, the    *)
(* kernel send buffer its free space.                                      *)
(***************************************************************************)
EXTENDS Naturals, Sequences, SequencesExt

CONSTANTS
    ForeignOps,   \* what the foreign thread may call: SUBSET {"send", "shutdown", "forceClose"}
    MaxSends,     \* send() calls in all
    MaxUserOps,   \* shutdown / forceClose / forceCloseWithDelay calls on the loop thread
    MaxForeign,   \* calls by the foreign thread
    Lens,         \* message lengths
    SndCap,       \* kernel send-buffer capacity
    PeerMayReset  \* the peer may reset the connection

ASSUME ForeignOps \subseteq {"send", "shutdown", "forceClose"}
ASSUME SndCap \in Nat \ {0} /\ Lens \subseteq Nat \ {0}

States == {"Connecting", "Connected", "Disconnecting", "Disconnected"}
MaxOut == MaxSends * (IF Lens = {} THEN 0 ELSE 2)

FunctorKinds == {"connectEstablished", "sendInLoop", "shutdownInLoop",
                 "forceCloseInLoop", "connectDestroyed"}

VARIABLES
    state,        \* state_
    events,       \* channel_->events(): SUBSET {"R", "W"}
    removed,      \* channel_->remove() done
    out,          \* outputBuffer_.readableBytes()
    rx,           \* the peer's data waits in the receive buffer
    peerFin,      \* the peer's FIN (or a reset) is in: reads return 0
    err,          \* a pending socket error (SO_ERROR)
    space,        \* free kernel send-buffer space
    wrShut,       \* socket_->shutdownWrite() issued
    lpc,          \* loop thread: "poll", "read", "write" or "drain"
    revents,      \* revents_ of the dispatch in progress
    pending,      \* the loop's pendingFunctors_
    functors,     \* the batch doPendingFunctors is running
    timers,       \* forceCloseWithDelay timers not yet fired
    fpc,          \* foreign thread: "idle" or the step it owes
    fcalls,       \* calls made by the foreign thread
    fcloses,      \* history: shutdown / forceClose calls by the foreign thread
    sends,        \* send() calls made
    userOps,      \* loop-thread shutdown / forceClose calls made
    connCbs,      \* history: connection callbacks, "up" / "down"
    closeCbs,     \* history: close callbacks run
    removes,      \* history: channel_->remove() calls
    accepted,     \* history: bytes of send() calls that found state_ Connected
    wired,        \* history: bytes the kernel took
    peerMsgs      \* messages the peer has sent

vars == <<state, events, removed, out, rx, peerFin, err, space, wrShut, lpc,
          revents, pending, functors, timers, fpc, fcalls, fcloses, sends,
          userOps, connCbs, closeCbs, removes, accepted, wired, peerMsgs>>

kernel == <<rx, peerFin, err, space, wrShut, wired>>

Functor == [kind : FunctorKinds, len : Nat]
Call(k) == [kind |-> k, len |-> 0]

TypeOK ==
    /\ state \in States
    /\ events \subseteq {"R", "W"}
    /\ removed \in BOOLEAN
    /\ out \in 0..MaxOut
    /\ space \in 0..SndCap
    /\ lpc \in {"poll", "read", "write", "drain"}
    /\ revents \subseteq {"IN", "OUT", "HUP", "ERR"}
    /\ pending \in Seq(Functor) /\ functors \in Seq(Functor)
    /\ fpc \in {"idle", "send", "shutdown", "forceClose"}
    /\ connCbs \in Seq({"up", "down"})
    /\ timers \in 0..MaxUserOps
    /\ fcalls \in 0..MaxForeign /\ fcloses \in 0..fcalls
    /\ sends \in 0..MaxSends
    /\ closeCbs \in Nat /\ removes \in Nat
    /\ accepted \in Nat /\ wired \in Nat /\ peerMsgs \in 0..1

\* Created by the owner on another thread: runInLoop(connectEstablished)
\* is queued to this loop.
Init ==
    /\ state = "Connecting"
    /\ events = {} /\ removed = FALSE
    /\ out = 0
    /\ rx = FALSE /\ peerFin = FALSE /\ err = FALSE
    /\ space = SndCap /\ wrShut = FALSE
    /\ lpc = "poll" /\ revents = {}
    /\ pending = <<Call("connectEstablished")>>
    /\ functors = <<>>
    /\ timers = 0
    /\ fpc = "idle" /\ fcalls = 0 /\ fcloses = 0
    /\ sends = 0 /\ userOps = 0
    /\ connCbs = <<>> /\ closeCbs = 0 /\ removes = 0
    /\ accepted = 0 /\ wired = 0 /\ peerMsgs = 0

----------------------------------------------------------------------------
(* Socket readiness as poll/epoll report it for this channel               *)

Readable == rx \/ peerFin \/ err
\* After shutdown(SHUT_WR) the socket stays writable (writes fail).
Writable == space > 0 \/ wrShut
Hup == peerFin /\ wrShut

\* Channel's interest mask operations (each followed by update(), which
\* hands the new mask to the backend).
EnableReading(ev) == ev \cup {"R"}
EnableWriting(ev) == ev \cup {"W"}
DisableWriting(ev) == ev \ {"W"}
DisableAll == {}
IsWriting(ev) == "W" \in ev
IsNoneEvent(ev) == ev = {}

\* What the backend reports: IN/OUT as far as the interest asks, HUP and
\* ERR always; nothing once the interest is empty or the channel removed.
Reported ==
    IF IsNoneEvent(events) \/ removed THEN {}
    ELSE {e \in {"IN", "OUT", "HUP", "ERR"} :
             \/ e = "IN" /\ "R" \in events /\ Readable
             \/ e = "OUT" /\ IsWriting(events) /\ Writable
             \/ e = "HUP" /\ Hup
             \/ e = "ERR" /\ err}

----------------------------------------------------------------------------
(* Loop-thread operations, each the whole of its member function           *)

\* Mutant: the write assumed to take everything (short writes ignored).
WriteResultNoPartial(n) == IF wrShut \/ err THEN -1 ELSE n

\* SockOps::write of n bytes: EPIPE after shutdownWrite or a reset,
\* EAGAIN when the send buffer is full, else a (partial) write.
WriteResult(n) ==
    IF wrShut \/ err THEN -1
    ELSE IF space = 0 THEN 0
    ELSE IF n < space THEN n ELSE space

\* Mutant: the remainder appended without enabling write interest.
SendInLoopNoEnable(len) ==
    IF state = "Disconnected"
    THEN UNCHANGED <<out, events, space, wired>>
    ELSE LET direct == ~IsWriting(events) /\ out = 0
             n      == IF direct THEN WriteResult(len) ELSE 0
             nwrote == IF n > 0 THEN n ELSE 0
         IN /\ space' = space - nwrote
            /\ wired' = wired + nwrote
            /\ out' = IF direct /\ n = -1 THEN out ELSE out + len - nwrote
            /\ UNCHANGED events

\* sendInLoop(data, len).  The direct write is tried only when nothing is
\* queued; the rest is appended and write interest enabled.  A write
\* error (EPIPE/ECONNRESET) drops the message.
SendInLoop(len) ==
    IF state = "Disconnected"
    THEN UNCHANGED <<out, events, space, wired>>
    ELSE LET direct == ~IsWriting(events) /\ out = 0
             n      == IF direct THEN WriteResult(len) ELSE 0
             fault  == direct /\ n = -1
             nwrote == IF n > 0 THEN n ELSE 0
             rest   == len - nwrote
         IN /\ space' = space - nwrote
            /\ wired' = wired + nwrote
            /\ IF ~fault /\ rest > 0
               THEN /\ out' = out + rest
                    /\ events' = EnableWriting(events)
               ELSE UNCHANGED <<out, events>>

\* Mutant: shutdownInLoop without the isWriting check.
ShutdownInLoopAlways == wrShut' = TRUE

\* shutdownInLoop(): half-close only when not writing.
ShutdownInLoop ==
    IF ~IsWriting(events) THEN wrShut' = TRUE ELSE UNCHANGED wrShut

\* Mutant: a close callback that does not queue connectDestroyed.
HandleCloseNoDestroy(pend) ==
    /\ state' = "Disconnected"
    /\ events' = DisableAll
    /\ connCbs' = Append(connCbs, "down")
    /\ closeCbs' = closeCbs + 1
    /\ pending' = pend

\* handleClose(): Disconnected, disableAll, connection callback, then the
\* owner's close callback (TcpClient::removeConnection queues
\* connectDestroyed).
HandleClose(pend) ==
    /\ state' = "Disconnected"
    /\ events' = DisableAll
    /\ connCbs' = Append(connCbs, "down")
    /\ closeCbs' = closeCbs + 1
    /\ pending' = Append(pend, Call("connectDestroyed"))

\* connectEstablished(): Connected, tie, enableReading, connection callback.
ConnectEstablished ==
    /\ state' = "Connected"
    /\ events' = EnableReading(events)
    /\ connCbs' = Append(connCbs, "up")

\* connectDestroyed(): if still Connected, Disconnected + disableAll +
\* callback; then channel_->remove().
ConnectDestroyed ==
    /\ IF state = "Connected"
       THEN /\ state' = "Disconnected"
            /\ events' = DisableAll
            /\ connCbs' = Append(connCbs, "down")
       ELSE UNCHANGED <<state, events, connCbs>>
    /\ removed' = TRUE
    /\ removes' = removes + 1

\* Mutant: forceCloseInLoop without its state check.
ForceCloseInLoopUnchecked(pend) == HandleClose(pend)

\* forceCloseInLoop(): as if 0 bytes were read.
ForceCloseInLoop(pend) ==
    IF state \in {"Connected", "Disconnecting"}
    THEN HandleClose(pend)
    ELSE /\ pending' = pend
         /\ UNCHANGED <<state, events, connCbs, closeCbs>>


----------------------------------------------------------------------------
(* The loop thread                                                         *)

loopOwned == <<removed, timers, fpc, fcalls, fcloses, sends, userOps, removes,
               accepted, peerMsgs>>

\* doPendingFunctors swaps the queue out; functors queued from now on run
\* in the next iteration.
SwapPending ==
    /\ lpc' = "drain"
    /\ functors' = pending
    /\ pending' = <<>>

\* The wait returns with the channel's revents (it also returns when
\* functors are queued: the wakeup channel); no channel event goes straight
\* to doPendingFunctors.
Poll ==
    /\ lpc = "poll"
    /\ Reported # {} \/ pending # <<>>
    /\ revents' = Reported
    /\ IF Reported = {} THEN SwapPending
       ELSE lpc' = "read" /\ UNCHANGED <<pending, functors>>
    /\ UNCHANGED <<state, events, out, kernel, connCbs, closeCbs, loopOwned>>

\* Channel::handleEventWithGuard up to the read callback.  POLLERR runs
\* handleError, whose getsockopt(SO_ERROR) clears the error; POLLIN runs
\* handleRead.  POLLHUP comes with POLLIN on a TCP socket, so the HUP-only
\* close branch does not arise.
ErrAfterErrorCb == err /\ "ERR" \notin revents

\* handleRead(): readFd < 0 (the pending error) runs handleError, which
\* clears SO_ERROR; > 0 runs the message callback; 0 is the peer's EOF and
\* runs handleClose.
HandleRead ==
    \/ /\ ErrAfterErrorCb
       /\ err' = FALSE
       /\ UNCHANGED <<state, events, connCbs, closeCbs, pending, rx>>
    \/ /\ ~ErrAfterErrorCb /\ rx
       /\ rx' = FALSE /\ err' = FALSE
       /\ UNCHANGED <<state, events, connCbs, closeCbs, pending>>
    \/ /\ ~ErrAfterErrorCb /\ ~rx /\ peerFin
       /\ err' = FALSE
       /\ HandleClose(pending)
       /\ UNCHANGED rx

HandleEventRead ==
    /\ lpc = "read"
    /\ lpc' = "write"
    /\ \/ /\ "IN" \notin revents
          /\ err' = ErrAfterErrorCb
          /\ UNCHANGED <<state, events, connCbs, closeCbs, pending, rx>>
       \/ /\ "IN" \in revents
          /\ HandleRead
    /\ UNCHANGED <<out, peerFin, space, wrShut, wired, revents, functors,
                   loopOwned>>

\* Mutant: handleWrite forgets shutdownInLoop once the buffer drains.
HandleEventWriteNoShutdown ==
    /\ lpc = "write"
    /\ SwapPending
    /\ LET n == WriteResult(out) IN
       \/ /\ "OUT" \notin revents \/ ~IsWriting(events) \/ n <= 0
          /\ UNCHANGED <<events, out, space, wired, wrShut>>
       \/ /\ "OUT" \in revents /\ IsWriting(events) /\ n > 0
          /\ out' = out - n /\ space' = space - n /\ wired' = wired + n
          /\ events' = IF n = out THEN DisableWriting(events) ELSE events
          /\ UNCHANGED wrShut
    /\ UNCHANGED <<state, rx, peerFin, err, revents, connCbs, closeCbs,
                   loopOwned>>

\* The write callback, handleWrite(), if POLLOUT was reported; then
\* doPendingFunctors.  A write that empties the buffer disables writing
\* and, when Disconnecting, calls shutdownInLoop (now not writing).
HandleEventWrite ==
    /\ lpc = "write"
    /\ SwapPending
    /\ LET n == WriteResult(out) IN
       \/ /\ "OUT" \notin revents \/ ~IsWriting(events) \/ n <= 0
          /\ UNCHANGED <<events, out, space, wired, wrShut>>
       \/ /\ "OUT" \in revents /\ IsWriting(events) /\ n > 0 /\ n < out
          /\ out' = out - n /\ space' = space - n /\ wired' = wired + n
          /\ UNCHANGED <<events, wrShut>>
       \/ /\ "OUT" \in revents /\ IsWriting(events) /\ n > 0 /\ n = out
          /\ out' = 0 /\ space' = space - n /\ wired' = wired + n
          /\ events' = DisableWriting(events)
          /\ wrShut' = (wrShut \/ state = "Disconnecting")
    /\ UNCHANGED <<state, rx, peerFin, err, revents, connCbs, closeCbs,
                   loopOwned>>

\* doPendingFunctors: run the swapped-out batch in order.
RunFunctor ==
    /\ lpc = "drain"
    /\ functors # <<>>
    /\ functors' = Tail(functors)
    /\ LET f == Head(functors) IN
       \/ /\ f.kind = "connectEstablished"
          /\ ConnectEstablished
          /\ UNCHANGED <<out, kernel, pending, closeCbs, removed, removes>>
       \/ /\ f.kind = "sendInLoop"
          /\ SendInLoop(f.len)
          /\ UNCHANGED <<state, rx, peerFin, err, wrShut, pending, connCbs,
                         closeCbs, removed, removes>>
       \/ /\ f.kind = "shutdownInLoop"
          /\ ShutdownInLoop
          /\ UNCHANGED <<state, events, out, rx, peerFin, err, space, wired,
                         pending, connCbs, closeCbs, removed, removes>>
       \/ /\ f.kind = "forceCloseInLoop"
          /\ ForceCloseInLoop(pending)
          /\ UNCHANGED <<out, kernel, removed, removes>>
       \/ /\ f.kind = "connectDestroyed"
          /\ ConnectDestroyed
          /\ UNCHANGED <<out, kernel, pending, closeCbs>>
    /\ UNCHANGED <<lpc, revents, timers, fpc, fcalls, fcloses, sends, userOps,
                   accepted, peerMsgs>>

EndPending ==
    /\ lpc = "drain"
    /\ functors = <<>>
    /\ lpc' = "poll"
    /\ UNCHANGED <<state, events, out, kernel, revents, pending, functors,
                   connCbs, closeCbs, loopOwned>>

----------------------------------------------------------------------------
(* User code on the loop thread: a message, connection or timer callback.  *)
(* It runs between the wait and the write handler (another channel, or     *)
(* the message callback, was dispatched first) or between iterations.      *)

UserCanRun == lpc \in {"poll", "write"}

userIdle == <<removed, timers, fpc, fcalls, fcloses, removes, peerMsgs>>

\* send(message) on the loop thread: sendInLoop at once when Connected.
UserSend(len) ==
    /\ UserCanRun /\ sends < MaxSends
    /\ state = "Connected"
    /\ sends' = sends + 1
    /\ accepted' = accepted + len
    /\ SendInLoop(len)
    /\ UNCHANGED <<state, rx, peerFin, err, wrShut, lpc, revents, pending,
                   functors, userOps, connCbs, closeCbs, userIdle>>

\* shutdown(): Disconnecting, and runInLoop(shutdownInLoop) runs it now.
UserShutdown ==
    /\ UserCanRun /\ userOps < MaxUserOps
    /\ state = "Connected"
    /\ state' = "Disconnecting"
    /\ userOps' = userOps + 1
    /\ ShutdownInLoop
    /\ UNCHANGED <<events, out, rx, peerFin, err, space, wired, lpc, revents,
                   pending, functors, sends, accepted, connCbs, closeCbs,
                   userIdle>>

\* forceClose(): Disconnecting, and queueInLoop(forceCloseInLoop) even on
\* the loop thread.
UserForceClose ==
    /\ UserCanRun /\ userOps < MaxUserOps
    /\ state \in {"Connected", "Disconnecting"}
    /\ state' = "Disconnecting"
    /\ userOps' = userOps + 1
    /\ pending' = Append(pending, Call("forceCloseInLoop"))
    /\ UNCHANGED <<events, out, kernel, lpc, revents, functors, sends,
                   accepted, connCbs, closeCbs, userIdle>>

\* forceCloseWithDelay(s): Disconnecting, and a timer that calls
\* forceClose() through a weak callback.
UserForceCloseWithDelay ==
    /\ UserCanRun /\ userOps < MaxUserOps
    /\ state \in {"Connected", "Disconnecting"}
    /\ state' = "Disconnecting"
    /\ userOps' = userOps + 1
    /\ timers' = timers + 1
    /\ UNCHANGED <<events, out, kernel, lpc, revents, pending, functors,
                   sends, accepted, connCbs, closeCbs, removed, fpc, fcalls,
                   fcloses, removes, peerMsgs>>

\* The delayed forceClose() on the loop thread.  Once connectDestroyed has
\* run and the owner dropped its pointer the weak callback finds nothing.
TimerFire ==
    /\ lpc = "poll" /\ timers > 0
    /\ timers' = timers - 1
    /\ IF state \in {"Connected", "Disconnecting"} /\ ~removed
       THEN /\ state' = "Disconnecting"
            /\ pending' = Append(pending, Call("forceCloseInLoop"))
       ELSE UNCHANGED <<state, pending>>
    /\ UNCHANGED <<events, out, kernel, lpc, revents, functors, sends,
                   userOps, accepted, connCbs, closeCbs, removed, fpc,
                   fcalls, fcloses, removes, peerMsgs>>

----------------------------------------------------------------------------
(* The foreign thread: send / shutdown / forceClose read state_, then act. *)

foreignIdle == <<events, out, kernel, lpc, revents, functors, userOps,
                 connCbs, closeCbs, removed, timers, removes, peerMsgs>>

ForeignCheck(op) ==
    /\ fpc = "idle" /\ op \in ForeignOps /\ fcalls < MaxForeign
    /\ \/ op = "send" /\ state = "Connected" /\ sends < MaxSends
       \/ op = "shutdown" /\ state = "Connected"
       \/ op = "forceClose" /\ state \in {"Connected", "Disconnecting"}
    /\ fpc' = op
    /\ fcalls' = fcalls + 1
    /\ sends' = IF op = "send" THEN sends + 1 ELSE sends
    /\ fcloses' = IF op = "send" THEN fcloses ELSE fcloses + 1
    /\ UNCHANGED <<state, pending, accepted, foreignIdle>>

\* send: runInLoop(sendInLoop, copy) queues it.
ForeignSend(len) ==
    /\ fpc = "send"
    /\ fpc' = "idle"
    /\ accepted' = accepted + len
    /\ pending' = Append(pending, [kind |-> "sendInLoop", len |-> len])
    /\ UNCHANGED <<state, fcalls, fcloses, sends, foreignIdle>>

\* shutdown / forceClose: setState(Disconnecting), then queue the in-loop half.
ForeignClose ==
    /\ fpc \in {"shutdown", "forceClose"}
    /\ fpc' = "idle"
    /\ state' = "Disconnecting"
    /\ pending' = Append(pending, Call(fpc \o "InLoop"))
    /\ UNCHANGED <<fcalls, fcloses, sends, accepted, foreignIdle>>

----------------------------------------------------------------------------
(* The peer                                                                *)

peerIdle == <<state, events, out, space, wrShut, wired, lpc, revents,
              pending, functors, timers, fpc, fcalls, fcloses, sends, userOps,
              connCbs, closeCbs, removed, removes, accepted>>

PeerSend ==
    /\ peerMsgs < 1 /\ ~peerFin
    /\ rx' = TRUE /\ peerMsgs' = peerMsgs + 1
    /\ UNCHANGED <<peerFin, err, peerIdle>>

PeerClose ==
    /\ ~peerFin
    /\ peerFin' = TRUE
    /\ UNCHANGED <<rx, err, peerMsgs, peerIdle>>

\* A reset discards unread data; reads fail once, then return 0.
PeerReset ==
    /\ PeerMayReset /\ ~peerFin
    /\ err' = TRUE /\ peerFin' = TRUE /\ rx' = FALSE
    /\ UNCHANGED <<peerMsgs, peerIdle>>

\* The peer reads: the send buffer empties.
PeerRead ==
    /\ space < SndCap /\ ~wrShut
    /\ space' = SndCap
    /\ UNCHANGED <<rx, peerFin, err, wrShut, wired, peerMsgs, state, events,
                   out, lpc, revents, pending, functors, timers, fpc,
                   fcalls, fcloses, sends, userOps, connCbs, closeCbs, removed,
                   removes, accepted>>

----------------------------------------------------------------------------

LoopThread ==
    \/ Poll \/ HandleEventRead \/ HandleEventWrite
    \/ RunFunctor \/ EndPending \/ TimerFire

Next ==
    \/ LoopThread
    \/ \E len \in Lens : UserSend(len)
    \/ UserShutdown \/ UserForceClose \/ UserForceCloseWithDelay
    \/ \E op \in ForeignOps : ForeignCheck(op)
    \/ \E len \in Lens : ForeignSend(len)
    \/ ForeignClose
    \/ PeerSend \/ PeerClose \/ PeerReset \/ PeerRead

\* The loop thread runs whenever it has work, a foreign thread finishes a
\* call it began, an armed timer fires, and the peer keeps reading.  Users
\* and the peer's sends and closes are not forced.
Fairness ==
    /\ WF_vars(LoopThread)
    /\ WF_vars(\E len \in Lens : ForeignSend(len))
    /\ WF_vars(ForeignClose)
    /\ WF_vars(PeerRead)

Spec == Init /\ [][Next]_vars /\ Fairness

----------------------------------------------------------------------------
(* Properties                                                              *)

\* handleClose runs at most once (the spec's "idempotent by construction"):
\* the user's connection callback sees the connection up once and down at
\* most once after it, the owner's close callback runs at most once, and
\* connectDestroyed removes the channel at most once.  Broken if
\* forceClose / shutdown on another thread write Disconnecting over
\* Disconnected.
ConnectionLifecycle ==
    /\ IsPrefix(connCbs, <<"up", "down">>)
    /\ closeCbs <= 1
    /\ removes <= 1

\* shutdownWrite never cuts off queued output: the FIN goes out only when
\* the output buffer is empty (shutdownInLoop's isWriting check and the
\* write handler's call once the buffer drains).
FinOverDrained == ~wrShut /\ wrShut' /\ state' # "Disconnected" => out' = 0

ShutdownOnlyWhenDrained == [][FinOverDrained]_<<wrShut, out, state>>

\* Every send() that found the connection Connected reaches the kernel
\* before the FIN, unless the connection closed.
AcceptedBytesWritten ==
    (wrShut /\ state # "Disconnected") => wired = accepted

\* Output queued by sendInLoop drains while the peer keeps reading, unless
\* the connection closes: write interest is enabled with the buffer and
\* dropped only when it is empty.
OutputDrains == (out > 0) ~> (out = 0 \/ state = "Disconnected")

\* The three properties above, for the behaviours in which the foreign
\* thread only ever calls send(): a shutdown() or forceClose() from another
\* thread breaks them (the close and send races), a send() must not.
ForeignOnlySends == fcloses = 0

\* handleClose's single run, while the foreign thread only sends.
LifecycleIfForeignSends == ForeignOnlySends => ConnectionLifecycle

\* No FIN over queued output in any step before the foreign thread's first
\* shutdown() or forceClose().
DrainedShutdownIfForeignSends ==
    [][ForeignOnlySends' => FinOverDrained]_<<wrShut, out, state, fcloses>>

\* Queued output drains, while the foreign thread only sends.
OutputDrainsIfForeignSends == [](ForeignOnlySends) => OutputDrains

\* A connection put into Disconnecting by shutdown / forceClose /
\* forceCloseWithDelay ends with the FIN sent or the connection closed.
DisconnectingResolves ==
    (state = "Disconnecting") ~> (wrShut \/ state = "Disconnected")

\* A closed connection is removed from its loop: the close callback queues
\* connectDestroyed, which removes the channel.
ClosedIsRemoved == (state = "Disconnected") ~> removed

============================================================================
