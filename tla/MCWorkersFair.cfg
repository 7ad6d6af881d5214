\* The manager: two configs, two values of the compared fields, two edits. The cycles: one row, two
\* workers, three disturbances.
SPECIFICATION HalvesSpec
CONSTANTS
    c1 = c1  c2 = c2  g1 = g1  g2 = g2  g3 = g3
    k1 = k1  k2 = k2  q1 = q1
    Configs = {c1, c2}
    Cores = {k1, k2}
    Goroutines = {g1, g2, g3}
    Requests = {q1}
    Keep = Keep
    NoRow = NoRow
    None = None
    MaxEdits = 2
    m1 = m1  m2 = m2  w1 = w1  w2 = w2  u1 = u1  appA = appA
    NoMsg = NoMsg  NullApp = NullApp  AnyClient = AnyClient
    Msgs = {m1}
    Workers = {w1, w2}
    ClientOf <- OneTenantClient
    AppOf <- OneTenantApp
    OwnerOf <- Owners
    AppsOf <- Apps
    Malformed = {}
    Direct = {w1}
    MaxFaults = 3
INVARIANTS OneCyclePerConfig NoneIsLost RightWhenLate
PROPERTIES ConfigsAreFollowed StopEnds
CHECK_DEADLOCK FALSE
