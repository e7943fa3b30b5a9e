------------------------------ MODULE Backends ------------------------------
(***************************************************************************)
(* Backend::newDefaultBackend (src/tesla/net/backend/DefaultBackend.cc)   *)
(* hands an EventLoop a PollBackend when TESLA_USE_POLL is set and an      *)
(* EpollBackend otherwise; the loop's Channels make the same calls on      *)
(* either.  This module runs both backends side by side on one sequence   *)
(* of Channel calls and kernel readiness: the Channels' masks, their      *)
(* descriptors and the readiness are shared, each backend keeps its own   *)
(* bookkeeping and its own activeChannels.  Each backend is checked for   *)
(* its own invariant and against the ChannelBackend contract.             *)
(***************************************************************************)
CONSTANTS Fds, ReEnable

VARIABLES
    live, events, ready,                     \* the Channels and the kernel
    pindex, pollfds, pchannels, pactive,     \* PollBackend
    eindex, echannels, kernel, kevents, aborted, eactive   \* EpollBackend

vars == <<live, events, ready, pindex, pollfds, pchannels, pactive,
          eindex, echannels, kernel, kevents, aborted, eactive>>

P == INSTANCE PollBackend
        WITH index <- pindex, channels <- pchannels, active <- pactive
E == INSTANCE EpollBackend
        WITH index <- eindex, channels <- echannels, active <- eactive

Init == P!Init /\ E!Init

\* Every Channel call and every wait is made on both backends at once.
Next ==
    \/ P!Run /\ E!Run
    \/ \E fd \in Fds :
         \/ P!NewChannel(fd) /\ E!NewChannel(fd)
         \/ P!Remove(fd) /\ E!Remove(fd)
         \/ P!EnableReading(fd) /\ E!EnableReading(fd)
         \/ P!EnableWriting(fd) /\ E!EnableWriting(fd)
         \/ P!DisableWriting(fd) /\ E!DisableWriting(fd)
         \/ P!DisableAll(fd) /\ E!DisableAll(fd)
         \/ \E e \in SUBSET P!Ev : P!SetReady(fd, e) /\ E!SetReady(fd, e)

Spec == Init /\ [][Next]_vars

----------------------------------------------------------------------------
(* Properties                                                              *)

\* Both backends' variables keep their types; PollBackend's index_ stays an
\* index of the pollfd array or -1.
TypeOK == P!TypeOK /\ E!TypeOK

\* PollBackend's pollfds_, channels_ and index_ stay consistent through
\* updateChannel and removeChannel's swap-with-last.
IndexConsistent == P!IndexConsistent

\* EpollBackend's index_ states match the kernel's interest list and no
\* epoll_ctl ADD or MOD fails.
EpollInSync == E!EpollInSync

\* PollBackend implements the Backend contract on these calls.
PollRefinesBackend == P!PollRefinesBackend

\* EpollBackend implements the Backend contract on the same calls, so the
\* two report the same ready Channels with the same events.
EpollRefinesBackend == E!EpollRefinesBackend

============================================================================
