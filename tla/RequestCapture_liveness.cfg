\* Nothing blocks for ever while the IDE reads its pipe.
SPECIFICATION FairSpec
CONSTANTS
    Requests = {r1, r2}
    Hosts = {h1}
    Causes = {"upstream_timeout"}
    All = FALSE
    MaxCommands = 1
    MaxErrors = 0
    PipeCap = 1
PROPERTIES
    HandlersFinish
    CommandsAcknowledged
CHECK_DEADLOCK FALSE
