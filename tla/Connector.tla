----------------------------- MODULE Connector -----------------------------
(***************************************************************************)
(* A TcpClient (src/tesla/net/TcpClient.cc) and its Connector              *)
(* (src/tesla/net/Connector.cc) on one loop.                               *)
(*                                                                         *)
(* The Connector opens a non-blocking socket, registers a write-interested *)
(* Channel for the in-flight connect, and on the write (or error) event    *)
(* removes that Channel, defers its destruction to a queued resetChannel,  *)
(* and either hands the socket to TcpClient::newConnection or schedules a  *)
(* retry timer that calls startInLoop again.  Users call                   *)
(* TcpClient::connect / stop / disconnect on the loop thread (inside a     *)
(* callback, where runInLoop runs at once) or on another thread (where it  *)
(* queues).  Channel objects are identities from a small set that is      *)
(* reused, like heap addresses.                                            *)
(***************************************************************************)
EXTENDS Naturals, Sequences, FiniteSets

CONSTANTS
    Ids,            \* Channel objects (and the sockets they wrap)
    Callers,        \* where users call from: SUBSET {"loop", "foreign"}
    MaxConnects,    \* TcpClient::connect() calls
    MaxStops,       \* TcpClient::stop() / disconnect() calls
    Retry,          \* TcpClient::enableRetry() was called
    NoChannel,      \* a null channel_ / connection_
    InitRetryDelay, \* INIT_RETRY_DELAY_MS, scaled
    MaxRetryDelay   \* MAX_RETRY_DELAY_MS, scaled

ASSUME Callers \subseteq {"loop", "foreign"} /\ Retry \in BOOLEAN

ASSUME NoChannel \notin Ids

ASSUME 0 < InitRetryDelay /\ InitRetryDelay <= MaxRetryDelay

CStates == {"Disconnected", "Connecting", "Connected"}

VARIABLES
    cstate,       \* Connector::state_
    cconnect,     \* Connector::connect_
    channel,      \* Connector::channel_ (NoChannel when reset)
    alive,        \* Channel objects not yet destroyed
    registered,   \* Channels the backend holds (interest set)
    dueTimers,    \* retry timers armed in an earlier iteration
    freshTimers,  \* retry timers armed in this iteration
    lpc,          \* loop thread: "poll" (wait + dispatch) or "drain"
    pending,      \* pendingFunctors_
    functors,     \* the batch being run
    clientConnect,\* TcpClient::connect_
    connection,   \* TcpClient::connection_ (NoChannel when reset)
    open,         \* TcpConnections not yet closed
    fresh,        \* connections established in this iteration
    connects,     \* connect() calls made
    stops,        \* stop() / disconnect() calls made
    retryDelay,   \* Connector::retryDelayMs_
    failed,       \* history: the code's assertions that failed
    gaveUp,       \* history: connect() hit a non-retryable error
    destroyer,    \* where ~TcpClient ran: none (alive), loop or foreign
    rebound,      \* connections whose close callback is internalRemoveConnection
    cbConn,       \* the connection a queued setCloseCallback rebinds
    hackTimer,    \* ~TcpClient's runAfter(1, removeConnector): none, fresh, due
    freed         \* history: code that ran on a destroyed TcpClient or Connector

vars == <<cstate, cconnect, channel, alive, registered, dueTimers,
          freshTimers, lpc, pending, functors, clientConnect, connection,
          open, fresh, connects, stops, retryDelay, failed, gaveUp,
          destroyer, rebound, cbConn, hackTimer, freed>>

teardown == <<destroyer, rebound, cbConn, hackTimer, freed>>

Asserts == {"startInLoop", "connecting", "handleWrite", "removeConnection"}
FunctorKinds == {"startInLoop", "stopInLoop", "resetChannel", "setCloseCallback"}

\* Functors and callbacks bound to a raw Connector or TcpClient `this`.
ConnectorCode == {"startInLoop", "stopInLoop", "resetChannel"}
ClientCode == {"removeConnection", "newConnection"}

TypeOK ==
    /\ cstate \in CStates
    /\ cconnect \in BOOLEAN /\ clientConnect \in BOOLEAN
    /\ channel \in Ids \cup {NoChannel}
    /\ alive \subseteq Ids /\ registered \subseteq Ids
    /\ open \subseteq Ids /\ fresh \subseteq open
    /\ connection \in Ids \cup {NoChannel}
    /\ dueTimers \in Nat /\ freshTimers \in Nat
    /\ lpc \in {"poll", "drain"}
    /\ pending \in Seq(FunctorKinds) /\ functors \in Seq(FunctorKinds)
    /\ connects \in 0..MaxConnects /\ stops \in 0..MaxStops
    /\ retryDelay \in InitRetryDelay..MaxRetryDelay
    /\ failed \subseteq Asserts /\ gaveUp \in BOOLEAN
    /\ destroyer \in {"none", "loop", "foreign"}
    /\ rebound \subseteq Ids /\ cbConn \in Ids \cup {NoChannel}
    /\ hackTimer \in {"none", "fresh", "due"}
    /\ freed \subseteq ConnectorCode \cup ClientCode

\* TcpClient's constructor: connect_ true, Connector Disconnected.
Init ==
    /\ cstate = "Disconnected" /\ cconnect = FALSE
    /\ channel = NoChannel /\ alive = {} /\ registered = {}
    /\ dueTimers = 0 /\ freshTimers = 0
    /\ lpc = "poll" /\ pending = <<>> /\ functors = <<>>
    /\ clientConnect = TRUE /\ connection = NoChannel
    /\ open = {} /\ fresh = {}
    /\ connects = 0 /\ stops = 0
    /\ retryDelay = InitRetryDelay
    /\ failed = {} /\ gaveUp = FALSE
    /\ destroyer = "none" /\ rebound = {} /\ cbConn = NoChannel
    /\ hackTimer = "none" /\ freed = {}

Fail(a, cond) == IF cond THEN {a} ELSE {}

\* The Connector is owned by TcpClient::connector_, by every pending retry
\* timer (bound to shared_from_this()) and by ~TcpClient's removeConnector
\* timer; it is deleted when the last of them lets go.
ConnectorAlive ==
    destroyer = "none" \/ dueTimers + freshTimers > 0 \/ hackTimer # "none"

\* The Channel objects that exist: ~Connector deletes channel_ with it.
ChannelsAlive == IF ConnectorAlive THEN alive ELSE alive \ {channel}

----------------------------------------------------------------------------
(* Connector member functions.  Each takes the pending queue and the       *)
(* failed set as they are on entry and sets the primed variables.          *)

\* Mutants: the delay doubled without the cap; no retry timer armed.
RetryUncapped(conn, delay) ==
    /\ cstate' = "Disconnected"
    /\ IF conn
       THEN freshTimers' = freshTimers + 1 /\ retryDelay' = delay * 2
       ELSE UNCHANGED freshTimers /\ retryDelay' = delay
RetryNoTimer(conn, delay) ==
    /\ cstate' = "Disconnected"
    /\ UNCHANGED freshTimers /\ retryDelay' = delay

\* retry(sockfd): close, Disconnected, and if connect_ a retry timer
\* after retryDelayMs_, which then doubles up to MAX_RETRY_DELAY_MS.
\* delay is retryDelayMs_ as the caller leaves it.
Retry_(conn, delay) ==
    /\ cstate' = "Disconnected"
    /\ IF conn
       THEN /\ freshTimers' = freshTimers + 1
            /\ retryDelay' = IF delay * 2 < MaxRetryDelay
                             THEN delay * 2 ELSE MaxRetryDelay
       ELSE UNCHANGED freshTimers /\ retryDelay' = delay

\* Mutants: the channel is not removed from the backend; the reset is not
\* queued.
RemoveAndResetChannelNoRemove(pend) ==
    /\ registered' = registered
    /\ pending' = Append(pend, "resetChannel")
RemoveAndResetChannelNoReset(pend) ==
    /\ registered' = registered \ {channel}
    /\ pending' = pend

\* removeAndResetChannel(): disableAll + remove, and queue resetChannel
\* (channel_ cannot be destroyed inside its own handleEvent).
RemoveAndResetChannel(pend) ==
    /\ registered' = registered \ {channel}
    /\ pending' = Append(pend, "resetChannel")

\* Mutant: connecting() without enableWriting().
ConnectNoEnable(pend, fails, st, delay) ==
    \E id \in Ids \ (alive \cup registered) :
       /\ cstate' = "Connecting"
       /\ failed' = fails \cup Fail("connecting", channel # NoChannel)
       /\ channel' = id
       /\ alive' = (alive \ {channel}) \cup {id}
       /\ UNCHANGED <<registered, freshTimers, gaveUp>>
       /\ pending' = pend /\ retryDelay' = delay

\* connect(): a fresh socket; EINPROGRESS goes to connecting(), a
\* transient error to retry(), a permanent one closes the socket and stops.
\* connecting(): Connecting, assert(!channel_), channel_.reset(new Channel)
\* (which destroys any previous one), enableWriting.
Connect(pend, fails, st, delay) ==
    \E id \in Ids \ (alive \cup registered) :
       \/ /\ cstate' = "Connecting"
          /\ failed' = fails \cup Fail("connecting", channel # NoChannel)
          /\ channel' = id
          /\ alive' = (alive \ {channel}) \cup {id}
          /\ registered' = registered \cup {id}
          /\ pending' = pend
          /\ retryDelay' = delay
          /\ UNCHANGED <<freshTimers, gaveUp>>
       \/ /\ Retry_(TRUE, delay)
          /\ failed' = fails
          /\ pending' = pend
          /\ UNCHANGED <<channel, alive, registered, gaveUp>>
       \/ /\ gaveUp' = TRUE
          /\ failed' = fails
          /\ pending' = pend
          /\ cstate' = st
          /\ retryDelay' = delay
          /\ UNCHANGED <<channel, alive, registered, freshTimers>>

\* startInLoop(): assert(state_ == Disconnected); connect() if connect_
\* (conn is connect_ as the caller leaves it).
StartInLoop(pend, conn) ==
    LET fails == failed \cup Fail("startInLoop", cstate # "Disconnected") IN
    IF conn
    THEN Connect(pend, fails, cstate, retryDelay)
    ELSE /\ failed' = fails /\ pending' = pend
         /\ UNCHANGED <<cstate, channel, alive, registered, freshTimers,
                        retryDelay, gaveUp>>

\* stopInLoop(): if Connecting, Disconnected, removeAndResetChannel, retry.
StopInLoop(pend) ==
    IF cstate = "Connecting"
    THEN /\ RemoveAndResetChannel(pend)
         /\ Retry_(cconnect, retryDelay)
    ELSE /\ pending' = pend
         /\ UNCHANGED <<cstate, registered, freshTimers, retryDelay>>

\* resetChannel(): channel_.reset() -- whatever channel_ is now.
ResetChannel ==
    /\ channel' = NoChannel
    /\ alive' = alive \ {channel}

\* restart(): Disconnected, delay reset, connect_ = true, startInLoop().
Restart(pend, fails) == Connect(pend, fails, "Disconnected", InitRetryDelay)

----------------------------------------------------------------------------
(* The loop thread.  While in "poll" it dispatches what the wait returned  *)
(* (channel events, due timers, a connection's close); Swap ends the       *)
(* dispatch and begins doPendingFunctors.                                  *)

client == <<clientConnect, connects, stops>>

\* The in-flight connect fails (POLLERR: handleError, then handleWrite
\* finds Disconnected), or connects to itself (handleWrite's
\* selfConnect check): removeAndResetChannel and retry.
ConnectFailed ==
    /\ lpc = "poll" /\ channel \in registered /\ ConnectorAlive
    /\ IF cstate = "Connecting"
       THEN /\ RemoveAndResetChannel(pending)
            /\ Retry_(cconnect, retryDelay)
            /\ UNCHANGED failed
       ELSE /\ failed' = failed \cup Fail("handleWrite", cstate # "Disconnected")
            /\ UNCHANGED <<cstate, registered, freshTimers, retryDelay, pending>>
    /\ UNCHANGED <<cconnect, channel, alive, dueTimers, lpc, functors,
                   connection, open, fresh, gaveUp, client, teardown>>

\* handleWrite with SO_ERROR 0: removeAndResetChannel, Connected, and the
\* socket goes to TcpClient::newConnection (connection_ = conn,
\* connectEstablished) if connect_, else it is closed.  newConnection is
\* bound to the TcpClient's raw this.
ConnectSucceeded ==
    /\ lpc = "poll" /\ channel \in registered /\ ConnectorAlive
    /\ IF cstate = "Connecting"
       THEN /\ RemoveAndResetChannel(pending)
            /\ cstate' = "Connected"
            /\ IF cconnect
               THEN /\ connection' = channel
                    /\ open' = open \cup {channel}
                    /\ fresh' = fresh \cup {channel}
                    /\ freed' = freed \cup Fail("newConnection", destroyer # "none")
               ELSE UNCHANGED <<connection, open, fresh, freed>>
            /\ UNCHANGED failed
       ELSE /\ failed' = failed \cup Fail("handleWrite", cstate # "Disconnected")
            /\ UNCHANGED <<cstate, registered, pending, connection, open, fresh,
                           freed>>
    /\ UNCHANGED <<cconnect, channel, alive, dueTimers, freshTimers, lpc,
                   functors, retryDelay, gaveUp, client, destroyer, rebound,
                   cbConn, hackTimer>>

\* A retry timer expires: startInLoop on the Connector.
TimerFire ==
    /\ lpc = "poll" /\ dueTimers > 0
    /\ dueTimers' = dueTimers - 1
    /\ StartInLoop(pending, cconnect)
    /\ UNCHANGED <<cconnect, lpc, functors, connection, open, fresh, client,
                   teardown>>

\* The connection closes (handleClose on this loop) and its close callback
\* TcpClient::removeConnection runs: assert(connection_ == conn), reset
\* connection_, queue connectDestroyed (TcpConnection.tla), and restart
\* the Connector if retry_ and connect_.  A connection established in this
\* iteration is first polled in the next one.
RemoveConnection(c) ==
    /\ connection' = NoChannel
    /\ LET fails == failed \cup Fail("removeConnection", connection # c) IN
       IF Retry /\ clientConnect
       THEN /\ cconnect' = TRUE
            /\ Restart(pending, fails)
       ELSE /\ failed' = fails
            /\ UNCHANGED <<cstate, cconnect, channel, alive, registered,
                           freshTimers, retryDelay, pending, gaveUp>>
    /\ UNCHANGED freed

\* Once the TcpClient is gone the close callback is what the destructor
\* left: internalRemoveConnection (queue connectDestroyed) if the rebinding
\* has run, else removeConnection on the deleted TcpClient, whose effect
\* is undefined and not followed.
ConnClose(c) ==
    /\ lpc = "poll" /\ c \in open \ fresh
    /\ open' = open \ {c}
    /\ IF destroyer = "none"
       THEN RemoveConnection(c)
       ELSE /\ freed' = freed \cup Fail("removeConnection", c \notin rebound)
            /\ UNCHANGED <<cstate, cconnect, channel, alive, registered,
                           freshTimers, retryDelay, pending, gaveUp, failed,
                           connection>>
    /\ UNCHANGED <<dueTimers, lpc, functors, fresh, client, destroyer, rebound,
                   cbConn, hackTimer>>

\* The wait returns; doPendingFunctors swaps the queue out.  Timers armed
\* during this iteration can expire only after it.
Swap ==
    /\ lpc = "poll"
    /\ pending # <<>> \/ freshTimers > 0 \/ hackTimer = "fresh"
    /\ lpc' = "drain"
    /\ functors' = pending /\ pending' = <<>>
    /\ dueTimers' = dueTimers + freshTimers /\ freshTimers' = 0
    /\ hackTimer' = IF hackTimer = "fresh" THEN "due" ELSE hackTimer
    /\ fresh' = {}
    /\ UNCHANGED <<cstate, cconnect, channel, alive, registered, connection,
                   open, retryDelay, failed, gaveUp, client, destroyer,
                   rebound, cbConn, freed>>

\* One functor of the batch.  startInLoop, stopInLoop and resetChannel are
\* bound to the Connector's raw this: on a deleted Connector they are
\* recorded and their effect is not followed.  setCloseCallback holds
\* its TcpConnectionPtr and rebinds that connection's close callback.
RunFunctor ==
    /\ lpc = "drain" /\ functors # <<>>
    /\ functors' = Tail(functors)
    /\ \/ /\ Head(functors) \in ConnectorCode /\ ~ConnectorAlive
          /\ freed' = freed \cup {Head(functors)}
          /\ UNCHANGED <<cstate, channel, alive, registered, freshTimers,
                         retryDelay, pending, failed, gaveUp, rebound>>
       \/ /\ Head(functors) = "startInLoop" /\ ConnectorAlive
          /\ StartInLoop(pending, cconnect)
          /\ UNCHANGED <<freed, rebound>>
       \/ /\ Head(functors) = "stopInLoop" /\ ConnectorAlive
          /\ StopInLoop(pending)
          /\ UNCHANGED <<channel, alive, failed, gaveUp, freed, rebound>>
       \/ /\ Head(functors) = "resetChannel" /\ ConnectorAlive
          /\ ResetChannel
          /\ UNCHANGED <<cstate, registered, freshTimers, retryDelay, pending,
                         failed, gaveUp, freed, rebound>>
       \/ /\ Head(functors) = "setCloseCallback"
          /\ rebound' = rebound \cup {cbConn}
          /\ UNCHANGED <<cstate, channel, alive, registered, freshTimers,
                         retryDelay, pending, failed, gaveUp, freed>>
    /\ UNCHANGED <<cconnect, dueTimers, lpc, connection, open, fresh, client,
                   destroyer, cbConn, hackTimer>>

EndDrain ==
    /\ lpc = "drain" /\ functors = <<>>
    /\ lpc' = "poll"
    /\ UNCHANGED <<cstate, cconnect, channel, alive, registered, dueTimers,
                   freshTimers, pending, functors, connection, open, fresh,
                   retryDelay, failed, gaveUp, client, teardown>>

----------------------------------------------------------------------------
(* Users.  On the loop thread runInLoop runs startInLoop at once; on       *)
(* another thread it queues.  stop() always queues stopInLoop.             *)

\* Connector::start(): connect_ = true, runInLoop(startInLoop): run at
\* once on the loop thread, else queued.
ConnectorStart(where) ==
    /\ cconnect' = TRUE
    /\ IF where = "loop"
       THEN StartInLoop(pending, TRUE)
       ELSE /\ pending' = Append(pending, "startInLoop")
            /\ UNCHANGED <<cstate, channel, alive, registered, freshTimers,
                           retryDelay, failed, gaveUp>>

\* Connector::stop(): connect_ = false, queueInLoop(stopInLoop); the retry
\* timer is not cancelled (FIXME).
ConnectorStop ==
    /\ cconnect' = FALSE
    /\ pending' = Append(pending, "stopInLoop")

\* TcpClient::connect(): connect_ = true (no state check, FIXME), then
\* Connector::start().
UserConnect(where) ==
    /\ where \in Callers /\ connects < MaxConnects /\ destroyer = "none"
    /\ connects' = connects + 1
    /\ clientConnect' = TRUE
    /\ ConnectorStart(where)
    /\ UNCHANGED <<dueTimers, lpc, functors, connection, open, fresh, stops,
                   teardown>>

\* TcpClient::stop(): connect_ = false, then Connector::stop().
UserStop(where) ==
    /\ where \in Callers /\ stops < MaxStops /\ destroyer = "none"
    /\ stops' = stops + 1
    /\ clientConnect' = FALSE
    /\ ConnectorStop
    /\ UNCHANGED <<cstate, channel, alive, registered, dueTimers,
                   freshTimers, lpc, functors, connection, open, fresh,
                   connects, retryDelay, failed, gaveUp, teardown>>

\* TcpClient::disconnect(): connect_ = false and connection_->shutdown();
\* the connection then closes through ConnClose.
UserDisconnect(where) ==
    /\ where \in Callers /\ stops < MaxStops /\ destroyer = "none"
    /\ stops' = stops + 1
    /\ clientConnect' = FALSE
    /\ UNCHANGED <<cstate, cconnect, channel, alive, registered, dueTimers,
                   freshTimers, lpc, pending, functors, connection, open,
                   fresh, connects, retryDelay, failed, gaveUp, teardown>>

\* Mutant: runInLoop always queues, also on the loop thread.
ClientDestroyAlwaysQueue(where) ==
    /\ where \in Callers /\ destroyer = "none"
    /\ destroyer' = where
    /\ IF connection # NoChannel
       THEN /\ pending' = Append(pending, "setCloseCallback")
            /\ cbConn' = connection
            /\ UNCHANGED <<cconnect, rebound, hackTimer>>
       ELSE /\ ConnectorStop
            /\ hackTimer' = "fresh"
            /\ UNCHANGED <<rebound, cbConn>>
    /\ UNCHANGED <<cstate, channel, alive, registered, dueTimers, freshTimers,
                   lpc, functors, clientConnect, connection, open, fresh,
                   connects, stops, retryDelay, failed, gaveUp, freed>>

\* ~TcpClient(): read connection_ under mutex_.  With a connection, rebind
\* its close callback to internalRemoveConnection through runInLoop (at
\* once on the loop thread, else queued: "not 100% safe, if we are in
\* different thread").  Without one, connector_->stop() and
\* runAfter(1, removeConnector, connector_), which keeps the Connector
\* alive for a second.  Then the members go: connector_'s reference is
\* dropped (ConnectorAlive).
ClientDestroy(where) ==
    /\ where \in Callers /\ destroyer = "none"
    /\ destroyer' = where
    /\ IF connection # NoChannel
       THEN /\ IF where = "loop"
               THEN /\ rebound' = rebound \cup {connection}
                    /\ UNCHANGED <<pending, cbConn>>
               ELSE /\ pending' = Append(pending, "setCloseCallback")
                    /\ cbConn' = connection
                    /\ UNCHANGED rebound
            /\ UNCHANGED <<cconnect, hackTimer>>
       ELSE /\ ConnectorStop
            /\ hackTimer' = "fresh"
            /\ UNCHANGED <<rebound, cbConn>>
    /\ UNCHANGED <<cstate, channel, alive, registered, dueTimers, freshTimers,
                   lpc, functors, clientConnect, connection, open, fresh,
                   connects, stops, retryDelay, failed, gaveUp, freed>>

\* The removeConnector timer fires (removeConnector does nothing) and
\* drops its reference.  A second is far longer than the loop takes to run
\* what is already queued, so it fires only once the queue is empty.
HackTimerFire ==
    /\ lpc = "poll" /\ hackTimer = "due" /\ pending = <<>>
    /\ hackTimer' = "none"
    /\ UNCHANGED <<cstate, cconnect, channel, alive, registered, dueTimers,
                   freshTimers, lpc, pending, functors, connection, open, fresh,
                   retryDelay, failed, gaveUp, client, destroyer, rebound,
                   cbConn, freed>>

----------------------------------------------------------------------------

LoopThread ==
    \/ ConnectFailed \/ ConnectSucceeded \/ TimerFire
    \/ Swap \/ RunFunctor \/ EndDrain \/ HackTimerFire

Next ==
    \/ LoopThread
    \/ \E c \in Ids : ConnClose(c)
    \/ \E w \in Callers : UserConnect(w) \/ UserStop(w) \/ UserDisconnect(w)
    \/ \E w \in Callers : ClientDestroy(w)

\* The loop thread runs whenever it has work; the kernel eventually
\* reports the outcome of a connect (TCP's connect timeout at worst); and
\* connect() does not fail at once forever (the network is not
\* unreachable for good).  Users and the server closing a connection are
\* not forced.
Fairness ==
    /\ WF_vars(ConnectFailed \/ ConnectSucceeded)
    /\ WF_vars(TimerFire)
    /\ SF_vars(TimerFire /\ cstate' = "Connecting")
    /\ WF_vars(Swap) /\ WF_vars(RunFunctor) /\ WF_vars(EndDrain)
    /\ WF_vars(HackTimerFire)

Spec == Init /\ [][Next]_vars /\ Fairness

----------------------------------------------------------------------------
(* Properties                                                              *)

\* Every Channel the backend holds is a live object: no Channel is destroyed
\* (by connecting()'s channel_.reset(new ...), by a queued resetChannel or
\* with the Connector itself) while still registered, which would leave the backend a dangling pointer.
NoDanglingChannel == registered \subseteq ChannelsAlive

\* The assertions in startInLoop, connecting, handleWrite and
\* TcpClient::removeConnection never fail.
AssertionsHold == failed = {}

\* A TcpClient destroyed on its loop thread, the case the destructor's
\* FIXME calls safe, is never called back: neither removeConnection (the
\* close callback it rebinds) nor newConnection (the Connector's, after
\* connector_->stop()) runs on the deleted object, however the destructor
\* falls between the connect, its completion and the connection's close.
ClientNotUsedAfterFree ==
    destroyer = "loop" => freed \cap ClientCode = {}

\* An in-flight connect is resolved: the Connector leaves Connecting.
ConnectingResolves == (cstate = "Connecting") ~> (cstate # "Connecting")

\* A client that wants to be connected and is not keeps trying: from
\* Disconnected with connect_ set, a new attempt starts unless the user
\* stops it or connect() hits a non-retryable error.
KeepsTrying ==
    (cstate = "Disconnected" /\ cconnect /\ clientConnect /\ open = {})
        ~> (cstate = "Connecting" \/ ~cconnect \/ gaveUp)

============================================================================
