\* Two workers, two producers with two tasks each, a queue of one slot.
CONSTANTS
    Workers = {w1, w2}
    Producers = {p1, p2}
    MaxQueueSize = 1
    TasksPerProducer = 2
SPECIFICATION Spec
INVARIANT TypeOK
INVARIANT AssertLockedHolds
PROPERTY StopJoins
PROPERTY QueuedTaskRuns
PROPERTY ProducerProceeds
\* The program ends once the pool is joined and the producers are done.
CHECK_DEADLOCK FALSE
