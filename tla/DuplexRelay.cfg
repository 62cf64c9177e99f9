\* Up to three chunks each way; one of the client's may come early.
SPECIFICATION Spec
CONSTANT MaxChunks = 3
INVARIANTS
    StreamsArriveIntact
    SwitchLeavesNothingOpen
PROPERTY RelayEnds
CHECK_DEADLOCK FALSE
