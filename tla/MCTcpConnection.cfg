\* Loop-thread users and a foreign thread calling send, shutdown and forceClose.
CONSTANTS
    ForeignOps = {"send", "shutdown", "forceClose"}
    MaxSends = 2
    MaxUserOps = 2
    MaxForeign = 1
    Lens = {1, 2}
    SndCap = 1
    PeerMayReset = TRUE
SPECIFICATION Spec
INVARIANT TypeOK
INVARIANT LifecycleIfForeignSends
PROPERTY DrainedShutdownIfForeignSends
PROPERTY OutputDrainsIfForeignSends
PROPERTY DisconnectingResolves
PROPERTY ClosedIsRemoved
\* Every budget runs out; the loop then blocks in its wait.
CHECK_DEADLOCK FALSE
