\* Two front ends with two lines each, one line per buffer, and the drop
\* guard scaled from 25 to 2 buffers so that a burst of three full
\* buffers is dropped down to two.
CONSTANTS
    f1 = f1
    f2 = f2
    Frontends <- MCFrontends
    MsgsPerFrontend = 2
    BufferSize = 2
    MaxToWrite = 2
SPECIFICATION Spec
INVARIANT TypeOK
INVARIANT AssertionsHold
INVARIANT LinesInOrder
PROPERTY LineWritten
\* The logger ends once it is stopped and the writer has returned.
CHECK_DEADLOCK FALSE
