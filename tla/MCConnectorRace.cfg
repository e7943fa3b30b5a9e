\* stop() then connect() again on the loop thread: startInLoop runs at once
\* while stopInLoop is still queued.
CONSTANTS
    c1 = c1
    c2 = c2
    c3 = c3
    Ids <- MCIds
    NoChannel = NoChannel
    Callers = {"loop"}
    MaxConnects = 2
    MaxStops = 1
    Retry = FALSE
    InitRetryDelay = 2
    MaxRetryDelay = 5
SPECIFICATION Spec
INVARIANT NoDanglingChannel
CHECK_DEADLOCK FALSE
