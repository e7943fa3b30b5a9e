\* connect() once, then up to two stop()/disconnect() calls, from either thread; retry on.
CONSTANTS
    c1 = c1
    c2 = c2
    c3 = c3
    Ids <- MCIds
    NoChannel = NoChannel
    Callers = {"loop", "foreign"}
    MaxConnects = 1
    MaxStops = 2
    Retry = TRUE
    InitRetryDelay = 2
    MaxRetryDelay = 5
SPECIFICATION Spec
INVARIANT TypeOK
INVARIANT NoDanglingChannel
INVARIANT AssertionsHold
INVARIANT ClientNotUsedAfterFree
PROPERTY ConnectingResolves
PROPERTY KeepsTrying
\* The loop blocks in its wait once the client is connected or stopped.
CHECK_DEADLOCK FALSE
