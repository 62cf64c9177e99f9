\* Two requests that complete, are filtered or fail for one of two causes,
\* against pauses, resumes and an operational error.
SPECIFICATION Spec
CONSTANTS
    Requests = {r1, r2}
    Hosts = {h1}
    Causes = {"upstream_timeout", "dns_failed"}
    All = FALSE
    MaxCommands = 3
    MaxErrors = 1
    PipeCap = 1
SYMMETRY RequestSymmetry
INVARIANTS
    CaptureIsExact
    PauseSilencesRequestsOnly
    StateLineTellsTruth
    DiagnosedOnce
CHECK_DEADLOCK FALSE
