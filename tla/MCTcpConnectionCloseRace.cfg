\* A foreign thread calls forceClose() while the loop thread may close.
CONSTANTS
    ForeignOps = {"forceClose"}
    MaxSends = 1
    MaxUserOps = 1
    MaxForeign = 1
    Lens = {1}
    SndCap = 1
    PeerMayReset = FALSE
SPECIFICATION Spec
INVARIANT ConnectionLifecycle
CHECK_DEADLOCK FALSE
