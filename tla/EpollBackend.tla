---------------------------- MODULE EpollBackend ----------------------------
(***************************************************************************)
(* EpollBackend (src/tesla/net/backend/EpollBackend.cc): the fd -> Channel *)
(* map, each Channel's index_ (INDEX_NEW, INDEX_ADDED, INDEX_DELETED), and *)
(* the kernel's epoll interest list that epoll_ctl changes, under the same *)
(* Channel calls as ChannelBackend.  An epoll_ctl ADD or MOD that fails is *)
(* LOG_SYSFATAL, which aborts the process; a failed DEL is only logged.   *)
(***************************************************************************)
EXTENDS Naturals

CONSTANTS Fds, ReEnable

ASSUME Fds \subseteq Nat \ {0} /\ ReEnable \in BOOLEAN

Ev == {"R", "W"}

Indexes == {"new", "added", "deleted"}

VARIABLES
    live,      \* descriptors with a Channel object
    events,    \* Channel::events_
    index,     \* Channel::index_
    channels,  \* the keys of EpollBackend::channels_
    kernel,    \* descriptors in the epoll instance's interest list
    kevents,   \* the events each of them is registered with
    aborted,   \* an epoll_ctl ADD/MOD failed: LOG_SYSFATAL
    ready,     \* the kernel's readiness of each descriptor
    active     \* the last run()'s activeChannels, as <<fd, revents>> pairs

vars == <<live, events, index, channels, kernel, kevents, aborted, ready,
          active>>

TypeOK ==
    /\ live \subseteq Fds /\ channels \subseteq Fds /\ kernel \subseteq Fds
    /\ events \in [Fds -> SUBSET Ev] /\ kevents \in [Fds -> SUBSET Ev]
    /\ ready \in [Fds -> SUBSET Ev]
    /\ index \in [Fds -> Indexes]
    /\ aborted \in BOOLEAN
    /\ active \subseteq Fds \X (SUBSET Ev)

Init ==
    /\ live = {} /\ channels = {} /\ kernel = {}
    /\ events = [fd \in Fds |-> {}] /\ kevents = [fd \in Fds |-> {}]
    /\ ready = [fd \in Fds |-> {}]
    /\ index = [fd \in Fds |-> "new"]
    /\ aborted = FALSE /\ active = {}

----------------------------------------------------------------------------

\* EpollBackend::update(op, channel) with the Channel's mask m:
\* epoll_ctl(2) fails with EEXIST for an ADD of a listed descriptor and
\* with ENOENT for a MOD or DEL of an unlisted one.
EpollCtl(op, fd, m) ==
    CASE op = "ADD" -> /\ kernel' = kernel \cup {fd}
                       /\ kevents' = [kevents EXCEPT ![fd] = m]
                       /\ aborted' = (aborted \/ fd \in kernel)
      [] op = "MOD" -> /\ kernel' = kernel
                       /\ kevents' = IF fd \in kernel
                                     THEN [kevents EXCEPT ![fd] = m]
                                     ELSE kevents
                       /\ aborted' = (aborted \/ fd \notin kernel)
      [] op = "DEL" -> /\ kernel' = kernel \ {fd}
                       /\ UNCHANGED <<kevents, aborted>>

\* Mutant: an emptied Channel is deleted from epoll but keeps INDEX_ADDED.
UpdateChannelNoDeleted(fd, m) ==
    /\ fd \in live /\ ~aborted
    /\ events' = [events EXCEPT ![fd] = m]
    /\ IF index[fd] \in {"new", "deleted"}
       THEN /\ channels' = channels \cup {fd}
            /\ index' = [index EXCEPT ![fd] = "added"]
            /\ EpollCtl("ADD", fd, m)
       ELSE /\ EpollCtl(IF m = {} THEN "DEL" ELSE "MOD", fd, m)
            /\ UNCHANGED <<channels, index>>
    /\ UNCHANGED <<live, ready, active>>

\* Mutant: a changed non-empty mask of an added Channel is not MODified.
UpdateChannelNoMod(fd, m) ==
    /\ fd \in live /\ ~aborted
    /\ events' = [events EXCEPT ![fd] = m]
    /\ IF index[fd] \in {"new", "deleted"}
       THEN /\ channels' = channels \cup {fd}
            /\ index' = [index EXCEPT ![fd] = "added"]
            /\ EpollCtl("ADD", fd, m)
       ELSE IF m = {}
       THEN /\ EpollCtl("DEL", fd, m)
            /\ index' = [index EXCEPT ![fd] = "deleted"]
            /\ UNCHANGED channels
       ELSE UNCHANGED <<channels, index, kernel, kevents, aborted>>
    /\ UNCHANGED <<live, ready, active>>

\* Channel::update() with the new mask m, i.e. EpollBackend::updateChannel:
\* a new or deleted Channel is ADDed (a new one also enters channels_); an
\* added one is DELeted from epoll (INDEX_DELETED) when its mask is empty,
\* else MODified.
UpdateChannel(fd, m) ==
    /\ fd \in live /\ ~aborted
    /\ events' = [events EXCEPT ![fd] = m]
    /\ IF index[fd] \in {"new", "deleted"}
       THEN /\ channels' = channels \cup {fd}
            /\ index' = [index EXCEPT ![fd] = "added"]
            /\ EpollCtl("ADD", fd, m)
       ELSE IF m = {}
       THEN /\ EpollCtl("DEL", fd, m)
            /\ index' = [index EXCEPT ![fd] = "deleted"]
            /\ UNCHANGED channels
       ELSE /\ EpollCtl("MOD", fd, m)
            /\ UNCHANGED <<channels, index>>
    /\ UNCHANGED <<live, ready, active>>

MayEnable(fd) == ReEnable \/ index[fd] = "new" \/ events[fd] # {}

EnableReading(fd)  == MayEnable(fd) /\ UpdateChannel(fd, events[fd] \cup {"R"})
EnableWriting(fd)  == MayEnable(fd) /\ UpdateChannel(fd, events[fd] \cup {"W"})
DisableWriting(fd) == "W" \in events[fd] /\ UpdateChannel(fd, events[fd] \ {"W"})
DisableAll(fd)     == UpdateChannel(fd, {})

\* new Channel(loop, fd): events_ 0, index_ -1 (INDEX_NEW).  The number
\* is free, so any earlier socket with it was closed, and close(2) took it
\* off the epoll interest list.
NewChannel(fd) ==
    /\ fd \notin live /\ ~aborted
    /\ live' = live \cup {fd}
    /\ events' = [events EXCEPT ![fd] = {}]
    /\ index' = [index EXCEPT ![fd] = "new"]
    /\ kernel' = kernel \ {fd}
    /\ UNCHANGED <<channels, kevents, aborted, ready, active>>

\* Channel::remove() (mask empty) and EpollBackend::removeChannel: erase
\* from channels_, DEL from epoll if still INDEX_ADDED, INDEX_NEW.  The
\* owner then destroys the Channel and closes the descriptor.
Remove(fd) ==
    /\ fd \in channels /\ events[fd] = {} /\ ~aborted
    /\ channels' = channels \ {fd}
    /\ IF index[fd] = "added"
       THEN EpollCtl("DEL", fd, {})
       ELSE UNCHANGED <<kernel, kevents, aborted>>
    /\ index' = [index EXCEPT ![fd] = "new"]
    /\ live' = live \ {fd}
    /\ UNCHANGED <<events, ready, active>>

SetReady(fd, e) ==
    /\ ~aborted
    /\ ready' = [ready EXCEPT ![fd] = e]
    /\ UNCHANGED <<live, events, index, channels, kernel, kevents, aborted,
                   active>>

\* epoll_wait then fillActiveChannels: every listed descriptor whose
\* registered events are ready comes back with them (level-triggered), and
\* its Channel is appended.
Run ==
    LET revents(fd) == kevents[fd] \cap ready[fd]
    IN  /\ ~aborted
        /\ active' = {<<fd, revents(fd)>> : fd \in {f \in kernel : revents(f) # {}}}
        /\ UNCHANGED <<live, events, index, channels, kernel, kevents,
                       aborted, ready>>

Next ==
    \/ Run
    \/ \E fd \in Fds :
         \/ NewChannel(fd) \/ Remove(fd)
         \/ EnableReading(fd) \/ EnableWriting(fd)
         \/ DisableWriting(fd) \/ DisableAll(fd)
         \/ \E e \in SUBSET Ev : SetReady(fd, e)

Spec == Init /\ [][Next]_vars

----------------------------------------------------------------------------
(* Properties                                                              *)

\* No epoll_ctl ADD or MOD fails, so the process never aborts, and the
\* index_ state of every Channel matches the kernel's interest list: a
\* Channel is listed exactly when it is INDEX_ADDED, with its mask.
EpollInSync ==
    /\ ~aborted
    /\ \A fd \in live :
         /\ (fd \in kernel) <=> (index[fd] = "added")
         /\ fd \in kernel => kevents[fd] = events[fd]
    /\ \A fd \in live : (fd \in channels) <=> (index[fd] # "new")

\* EpollBackend implements the Backend contract, re-enabled Channels
\* included: every behaviour of updateChannel, removeChannel and run() is
\* one ChannelBackend allows.
Abs == INSTANCE ChannelBackend WITH mask <- events, reg <- channels

EpollRefinesBackend == Abs!Spec

============================================================================
