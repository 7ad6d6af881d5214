SPECIFICATION FairSpec
CONSTANTS
    a1 = a1  a2 = a2  a3 = a3  r1 = r1  r2 = r2
    Users = {a1, a2, a3}
    Founders = {a1, a2}
    Seed = a1
    Requests = {r1, r2}
    Orders <- Removals
    Keep = Keep
    NoRequest = NoRequest
    DbFails = TRUE
    MaxRestarts = 1
INVARIANTS LossHasACause
PROPERTIES DeletedStaysDeleted EveryRequestEnds
CHECK_DEADLOCK FALSE
