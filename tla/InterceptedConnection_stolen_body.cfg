\* Expected violation: the loop takes a chunk of a body whose answer came early.
SPECIFICATION Spec
CONSTANTS
    MaxRequests = 1
    MaxBody = 2
INVARIANT UpstreamGetsOriginal
CHECK_DEADLOCK FALSE
