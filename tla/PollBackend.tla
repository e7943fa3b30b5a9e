---------------------------- MODULE PollBackend ----------------------------
(***************************************************************************)
(* PollBackend (src/tesla/net/backend/PollBackend.cc): the pollfd array,  *)
(* the fd -> Channel map, and each Channel's index_ into the array, under *)
(* the same Channel calls as ChannelBackend.  A pollfd whose Channel has  *)
(* an empty mask is kept with fd = -fd-1 so that poll(2) skips it.        *)
(* Array positions are the code's 0-based idx; pollfds[idx + 1] in TLA+.  *)
(***************************************************************************)
EXTENDS Integers, Sequences, FiniteSets

CONSTANTS Fds, ReEnable

ASSUME Fds \subseteq Nat \ {0} /\ ReEnable \in BOOLEAN

Ev == {"R", "W"}

VARIABLES
    live,      \* descriptors with a Channel object
    events,    \* Channel::events_
    index,     \* Channel::index_ (-1 for a new Channel)
    pollfds,   \* PollBackend::pollfds_: records [fd, events]
    channels,  \* the keys of PollBackend::channels_
    ready,     \* the kernel's readiness of each descriptor
    active     \* the last run()'s activeChannels, as <<fd, revents>> pairs

vars == <<live, events, index, pollfds, channels, ready, active>>

PollFd == [fd : Int, events : SUBSET Ev]

TypeOK ==
    /\ live \subseteq Fds /\ channels \subseteq Fds
    /\ events \in [Fds -> SUBSET Ev] /\ ready \in [Fds -> SUBSET Ev]
    /\ index \in [Fds -> -1..Cardinality(Fds) - 1]
    /\ pollfds \in Seq(PollFd)
    /\ active \subseteq Fds \X (SUBSET Ev)

Init ==
    /\ live = {} /\ channels = {} /\ pollfds = <<>>
    /\ events = [fd \in Fds |-> {}] /\ ready = [fd \in Fds |-> {}]
    /\ index = [fd \in Fds |-> -1]
    /\ active = {}

\* The descriptor a pollfd stands for, ignored or not.
Owner(p) == IF p.fd < 0 THEN -p.fd - 1 ELSE p.fd

----------------------------------------------------------------------------
(* updateChannel: a new Channel (index_ < 0) is appended; an existing one *)
(* has its events rewritten and, if its mask is empty, its fd negated.    *)
(* The fd of an existing pollfd is never set back to the Channel's fd.    *)

\* Mutant: the existing pollfd's events are not rewritten.
UpdateExistingNoEvents(fd, m) ==
    [pollfds EXCEPT ![index[fd] + 1] =
        [fd |-> IF m = {} THEN -fd - 1 ELSE @.fd, events |-> @.events]]

UpdateExisting(fd, m) ==
    [pollfds EXCEPT ![index[fd] + 1] =
        [fd |-> IF m = {} THEN -fd - 1 ELSE @.fd, events |-> m]]

\* Mutant: index_ set to the new size instead of size - 1.
AddNewOffByOne(fd, m) ==
    /\ pollfds' = Append(pollfds, [fd |-> fd, events |-> m])
    /\ index' = [index EXCEPT ![fd] = Len(pollfds')]
    /\ channels' = channels \cup {fd}

\* push_back the pollfd, index_ = size - 1, channels_[fd] = channel.
AddNew(fd, m) ==
    /\ pollfds' = Append(pollfds, [fd |-> fd, events |-> m])
    /\ index' = [index EXCEPT ![fd] = Len(pollfds') - 1]
    /\ channels' = channels \cup {fd}

\* Channel::update() with the new mask m, i.e. PollBackend::updateChannel.
UpdateChannel(fd, m) ==
    /\ fd \in live
    /\ events' = [events EXCEPT ![fd] = m]
    /\ IF index[fd] < 0
       THEN AddNew(fd, m)
       ELSE /\ pollfds' = UpdateExisting(fd, m)
            /\ UNCHANGED <<index, channels>>
    /\ UNCHANGED <<live, ready, active>>

MayEnable(fd) == ReEnable \/ index[fd] < 0 \/ events[fd] # {}

EnableReading(fd)  == MayEnable(fd) /\ UpdateChannel(fd, events[fd] \cup {"R"})
EnableWriting(fd)  == MayEnable(fd) /\ UpdateChannel(fd, events[fd] \cup {"W"})
DisableWriting(fd) == "W" \in events[fd] /\ UpdateChannel(fd, events[fd] \ {"W"})
DisableAll(fd)     == UpdateChannel(fd, {})

\* new Channel(loop, fd): events_ 0, index_ -1.
NewChannel(fd) ==
    /\ fd \notin live
    /\ live' = live \cup {fd}
    /\ events' = [events EXCEPT ![fd] = {}]
    /\ index' = [index EXCEPT ![fd] = -1]
    /\ UNCHANGED <<pollfds, channels, ready, active>>

\* Mutant: the entry moved from the end keeps its old index_.
RemoveNoReindex(fd) ==
    LET idx  == index[fd]
        last == Len(pollfds)
    IN  /\ fd \in channels /\ events[fd] = {}
        /\ channels' = channels \ {fd}
        /\ pollfds' = SubSeq([pollfds EXCEPT ![idx + 1] = pollfds[last]],
                             1, last - 1)
        /\ live' = live \ {fd}
        /\ UNCHANGED <<events, index, ready, active>>

\* Channel::remove() (mask empty) and PollBackend::removeChannel: erase
\* from channels_, then pop the last pollfd, or swap the removed entry with
\* the last, pop, and set the moved Channel's index_.  The owner then
\* destroys the Channel.
Remove(fd) ==
    LET idx   == index[fd]
        last  == Len(pollfds)
        moved == Owner(pollfds[last])
    IN  /\ fd \in channels /\ events[fd] = {}
        /\ channels' = channels \ {fd}
        /\ IF idx = last - 1
           THEN /\ pollfds' = SubSeq(pollfds, 1, last - 1)
                /\ UNCHANGED index
           ELSE /\ pollfds' = SubSeq([pollfds EXCEPT ![idx + 1] = pollfds[last]],
                                     1, last - 1)
                /\ index' = [index EXCEPT ![moved] = idx]
        /\ live' = live \ {fd}
        /\ UNCHANGED <<events, ready, active>>

SetReady(fd, e) ==
    /\ ready' = [ready EXCEPT ![fd] = e]
    /\ UNCHANGED <<live, events, index, pollfds, channels, active>>

\* poll(2) then fillActiveChannels: every pollfd with fd >= 0 whose
\* events are ready gets revents and its Channel (found in channels_) is
\* appended.
Run ==
    LET watched == {pollfds[i] : i \in {j \in DOMAIN pollfds : pollfds[j].fd >= 0}}
        revents(p) == p.events \cap ready[p.fd]
    IN  /\ active' = {<<p.fd, revents(p)>> : p \in {q \in watched : revents(q) # {}}}
        /\ UNCHANGED <<live, events, index, pollfds, channels, ready>>

Next ==
    \/ Run
    \/ \E fd \in Fds :
         \/ NewChannel(fd) \/ Remove(fd)
         \/ EnableReading(fd) \/ EnableWriting(fd)
         \/ DisableWriting(fd) \/ DisableAll(fd)
         \/ \E e \in SUBSET Ev : SetReady(fd, e)

Spec == Init /\ [][Next]_vars

----------------------------------------------------------------------------
(* Properties                                                              *)

\* The bookkeeping every assert in updateChannel/removeChannel and
\* fillActiveChannels relies on: one pollfd per registered descriptor, each
\* registered Channel's index_ points at its own pollfd (plain or negated)
\* holding its mask, and a Channel not registered is new (index_ -1).
IndexConsistent ==
    /\ Len(pollfds) = Cardinality(channels)
    /\ \A fd \in channels :
         /\ index[fd] \in 0..Len(pollfds) - 1
         /\ Owner(pollfds[index[fd] + 1]) = fd
         /\ pollfds[index[fd] + 1].events = events[fd]
    /\ \A fd \in live \ channels : index[fd] = -1

\* PollBackend implements the Backend contract: under the refinement that
\* reads channels_ as the registered set, every behaviour of updateChannel,
\* removeChannel and run() is one ChannelBackend allows, so a re-enabled
\* Channel is polled again and run() reports exactly the ready interest.
Abs == INSTANCE ChannelBackend WITH mask <- events, reg <- channels

PollRefinesBackend == Abs!Spec

============================================================================
