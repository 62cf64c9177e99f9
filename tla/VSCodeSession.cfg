\* Two engines, two applications, a click on the record button.
SPECIFICATION FairSpec
CONSTANTS
    Apps = {a1, a2}
    MaxEngines = 2
    MaxControls = 1
    PipeCap = 1
INVARIANTS
    OneSessionAtATime
    ButtonTellsTruth
PROPERTIES
    NoEngineClosedUnderApp
    StartSettles
    StopFinishes
CHECK_DEADLOCK FALSE
