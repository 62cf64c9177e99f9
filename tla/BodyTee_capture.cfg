SPECIFICATION TeeSpec
CONSTANTS
    Byte = {"a", "b"}
    Garbage = "?"
    Bodies <- MCBodies
    Limit = 3
INVARIANTS
    QuietSnapshotIsExact
CHECK_DEADLOCK FALSE
