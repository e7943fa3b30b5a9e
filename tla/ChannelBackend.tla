--------------------------- MODULE ChannelBackend ---------------------------
(***************************************************************************)
(* What a Backend promises its Channels (src/tesla/net/Backend.h, with    *)
(* Channel's interest calls from src/tesla/net/Channel.h): a Channel's    *)
(* interest mask, once synchronised by update(), is exactly what the wait  *)
(* watches, and run() reports every registered Channel whose watched       *)
(* events are ready, with those events.  remove() requires an empty mask. *)
(*                                                                         *)
(* Channels are named by their descriptors: at most one Channel object    *)
(* per fd at a time, and an fd is reused by a new Channel once the old one *)
(* is removed and destroyed.  Readiness is the kernel's level-triggered   *)
(* state of each descriptor, changed by the environment.                   *)
(***************************************************************************)
EXTENDS Naturals

CONSTANTS
    Fds,        \* descriptors, positive integers
    ReEnable    \* may a Channel whose mask became empty be enabled again?

ASSUME Fds \subseteq Nat \ {0} /\ ReEnable \in BOOLEAN

Ev == {"R", "W"}      \* READ_EVENT (POLLIN|POLLPRI), WRITE_EVENT (POLLOUT)

VARIABLES
    live,     \* descriptors with a Channel object
    mask,     \* Channel::events_
    reg,      \* descriptors the backend's channels_ map holds
    ready,    \* the kernel's readiness of each descriptor
    active    \* the last run()'s activeChannels, as <<fd, revents>> pairs

vars == <<live, mask, reg, ready, active>>

TypeOK ==
    /\ live \subseteq Fds /\ reg \subseteq Fds
    /\ mask \in [Fds -> SUBSET Ev] /\ ready \in [Fds -> SUBSET Ev]
    /\ active \subseteq Fds \X (SUBSET Ev)

Init ==
    /\ live = {} /\ reg = {}
    /\ mask = [fd \in Fds |-> {}] /\ ready = [fd \in Fds |-> {}]
    /\ active = {}

\* A Channel's owner calls an interest method: the mask changes and is
\* synchronised at once.
Update(fd, m) ==
    /\ fd \in live
    /\ mask' = [mask EXCEPT ![fd] = m]
    /\ reg' = reg \cup {fd}
    /\ UNCHANGED <<live, ready, active>>

\* The interest calls the library's owners make.  Without ReEnable a
\* Channel whose mask has become empty is only removed, as TcpConnection
\* and Connector do.
MayEnable(fd) == ReEnable \/ fd \notin reg \/ mask[fd] # {}

EnableReading(fd)  == MayEnable(fd) /\ Update(fd, mask[fd] \cup {"R"})
EnableWriting(fd)  == MayEnable(fd) /\ Update(fd, mask[fd] \cup {"W"})
DisableWriting(fd) == "W" \in mask[fd] /\ Update(fd, mask[fd] \ {"W"})
DisableAll(fd)     == Update(fd, {})

NewChannel(fd) ==
    /\ fd \notin live
    /\ live' = live \cup {fd}
    /\ mask' = [mask EXCEPT ![fd] = {}]
    /\ UNCHANGED <<reg, ready, active>>

\* Channel::remove() after disableAll; the owner then destroys the Channel
\* and closes the descriptor.
Remove(fd) ==
    /\ fd \in reg /\ mask[fd] = {}
    /\ reg' = reg \ {fd}
    /\ live' = live \ {fd}
    /\ UNCHANGED <<mask, ready, active>>

SetReady(fd, e) ==
    /\ ready' = [ready EXCEPT ![fd] = e]
    /\ UNCHANGED <<live, mask, reg, active>>

Reports(fd) == mask[fd] \cap ready[fd]

Run ==
    /\ active' = {<<fd, Reports(fd)>> : fd \in {f \in reg : Reports(f) # {}}}
    /\ UNCHANGED <<live, mask, reg, ready>>

Next ==
    \/ Run
    \/ \E fd \in Fds :
         \/ NewChannel(fd) \/ Remove(fd)
         \/ EnableReading(fd) \/ EnableWriting(fd)
         \/ DisableWriting(fd) \/ DisableAll(fd)
         \/ \E e \in SUBSET Ev : SetReady(fd, e)

Spec == Init /\ [][Next]_vars

============================================================================
