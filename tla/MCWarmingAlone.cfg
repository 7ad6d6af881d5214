SPECIFICATION FairSpec
CONSTANTS
    r1 = r1  w1 = w1  w2 = w2
    Rooms = {r1}
    Workers = {w1}
    NoRoom = NoRoom
    NoWorker = NoWorker
    LastLine = 2
    Limit = 10
    MaxCalls = 4
    MaxFaults = 2
INVARIANTS NoLineRepeated
PROPERTIES ActiveRoomsEnd
CHECK_DEADLOCK FALSE
