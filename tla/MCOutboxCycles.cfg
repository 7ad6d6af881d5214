\* Two rows, two workers, one disturbance, some work going on.
SPECIFICATION WorkSpec
CONSTANTS
    m1 = m1  m2 = m2  w1 = w1  w2 = w2  c1 = c1  c2 = c2  appA = appA
    NoMsg = NoMsg  NullApp = NullApp  AnyClient = AnyClient
    Msgs = {m1, m2}
    Workers = {w1, w2}
    ClientOf <- OneTenantClient
    AppOf <- OneTenantApp
    OwnerOf <- Owners
    AppsOf <- Apps
    Malformed = {m2}
    Direct = {w1}
    MaxFaults = 1
INVARIANTS LeaseSafety CopiesBounded SentWasDelivered FIFOUnlessRequeued
PROPERTIES SettledIsFinal ImplementsLeasedQueue EveryRowSettles
