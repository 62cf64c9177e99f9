\* Two launches, two engines, a stop, a click on the record button.
SPECIFICATION Spec
CONSTANTS
    Apps = {a1, a2}
    Stops = {s1}
    MaxEngines = 2
    MaxControls = 1
INVARIANTS
    EngineIsHeld
    ButtonTellsTruth
PROPERTIES
    StartSettles
    StopFinishes
CHECK_DEADLOCK FALSE
