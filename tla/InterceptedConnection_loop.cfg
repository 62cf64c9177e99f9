\* Three requests of up to two chunks on one connection.
SPECIFICATION Spec
CONSTANTS
    MaxRequests = 3
    MaxBody = 2
INVARIANTS
    BodiesArriveWhole
    OneEventPerRequest
PROPERTY BodiesDoNotOverlap
CHECK_DEADLOCK FALSE
