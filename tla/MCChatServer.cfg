\* Three connections on three loop threads.
CONSTANTS
    c1 = c1
    c2 = c2
    c3 = c3
    Conns <- MCConns
    Talk <- MCTalk
SPECIFICATION Spec
INVARIANT SnapshotStable
PROPERTY MessagesFramed
\* Once every peer has gone the server idles in its loops.
CHECK_DEADLOCK FALSE
