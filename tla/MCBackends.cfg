\* Two descriptors, reused after removal; Channels are enabled and
\* disabled the way TcpConnection and Connector use them, on both backends.
CONSTANTS
    Fds = {1, 2}
    ReEnable = FALSE
SPECIFICATION Spec
INVARIANT TypeOK
INVARIANT IndexConsistent
INVARIANT EpollInSync
PROPERTY PollRefinesBackend
PROPERTY EpollRefinesBackend
