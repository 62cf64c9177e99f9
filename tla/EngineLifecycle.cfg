\* Signals, kills and crashes at every moment, two requests, a pipe of one line.
SPECIFICATION FairSpec
CONSTANTS
    Requests = {r1, r2}
    MaxSignals = 2
    MaxCommands = 1
    PipeCap = 1
INVARIANTS
    OneStopCleansUp
    DrainedBeforeRemoval
PROPERTIES
    KeepsContract
    StopIsHeard
CHECK_DEADLOCK FALSE
