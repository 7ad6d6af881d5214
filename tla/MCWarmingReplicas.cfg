SPECIFICATION Spec
CONSTANTS
    r1 = r1  w1 = w1  w2 = w2
    Rooms = {r1}
    Workers = {w1, w2}
    NoRoom = NoRoom
    NoWorker = NoWorker
    LastLine = 2
    Limit = 10
    MaxCalls = 4
    MaxFaults = 1
SYMMETRY Replicas
INVARIANTS NoLineSkipped LateSendsBounded
CHECK_DEADLOCK FALSE
