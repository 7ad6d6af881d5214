SPECIFICATION Spec
CONSTANTS
    a1 = a1  a2 = a2  a3 = a3  r1 = r1  r2 = r2
    Founders = {a1, a2}
    Keep = Keep
    NoRequest = NoRequest
    DbFails = FALSE
    Users = {a1, a2}
    Seed = a1
    Requests = {r1, r2}
    Orders <- OnlyDelete
    MaxRestarts = 0
INVARIANTS SomeAdmin
CHECK_DEADLOCK FALSE
