\* A foreign thread sends while the loop thread shuts the connection down.
CONSTANTS
    ForeignOps = {"send"}
    MaxSends = 2
    MaxUserOps = 1
    MaxForeign = 1
    Lens = {1}
    SndCap = 1
    PeerMayReset = FALSE
SPECIFICATION Spec
INVARIANT AcceptedBytesWritten
CHECK_DEADLOCK FALSE
