\* A Channel whose mask became empty is enabled again (disableAll, then
\* enableReading), which the Channel interface allows.
CONSTANTS
    Fds = {1, 2}
    ReEnable = TRUE
SPECIFICATION Spec
PROPERTY PollRefinesBackend
