\* Two slots for connections to one destination of any kind, either mode.
SPECIFICATION Spec
CONSTANTS
    Conns = {c1, c2}
    Hosts = {h1}
    NoHost = NoHost
INVARIANTS
    SafeLeavesIncompatibleAlone
    EndToEndIsExplained
    PromiseKeptUnlessOverlapped
PROPERTIES
    SettledStaysSettled
