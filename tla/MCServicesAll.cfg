\* Five parts: two clients with a buffer of one and three events; two sends and two updates of one
\* webhook; two callers that log in; two rooms of one number on two instances; four requests of two users.
SPECIFICATION PartsSpec
CONSTANTS
    Parts = {"enqueue", "hub", "webhook", "auth", "reply"}
    t1 = t1  t2 = t2  t3 = t3  t4 = t4  u1 = u1  u2 = u2
    Txns = {t1, t2, t3, t4}
    Users = {u1, u2}
    UserOf <- Requester
    SizeOf <- Sizes
    MaxDaily = 2
    LastDay = 1
    NoTxn = NoTxn
    c1 = c1  c2 = c2
    Clients = {c1, c2}
    Listening = {c1}
    Hears <- Followed
    Callers = {b1}
    Buffer = 1
    Backlog = 1
    MaxEvents = 3
    MaxIncoming = 1
    Sends = {s1, s2}
    Updates = {1, 2}
    Gives = {1}
    Attempts = 2
    Logins = {l1, l2}
    Legacy = {l2}
    Changes = {1}
    Sliding = 1
    Lifetime = 2
    Threshold = 2
    MaxTime = 2
    MaxTouches = 1
    Rooms = {r1, r2}
    Instances = {i1, i2}
    Scripts = {k1, k2}
    Orders = {1, 2, 3}
    Lines = {1, 2}
    MaxMessages = 2
    MaxCalls = 2
    NoRoom = NoRoom
INVARIANTS
    WithinLimit RefusedForCause MapHoldsOpen NoGap StaleForCause
    OldPasswordShutOut CapHolds LockoutHolds NoReplySkipped OneReplyPerCooldown
PROPERTIES EveryRequestAnswered EndedIsRemoved SecretKept
CHECK_DEADLOCK FALSE
