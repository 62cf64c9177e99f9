SPECIFICATION Spec
CONSTANTS
    Inputs <- MCInputs
    Plain = {p1}
    Intercepted = {i1}
    MaxSignals = 2
    Addresses <- MCAddresses
INVARIANTS
    EnvironmentIsSound
    RowsPrecedeExit
    OutputIsLatest
    BypassReachesEveryClient
PROPERTIES
    FirstSignalArrives
    RunReturns
CHECK_DEADLOCK FALSE
