\* A row enqueued without an application, one wildcard worker, no disturbance.
SPECIFICATION FairSpec
CONSTANTS
    m1 = m1  m2 = m2  w1 = w1  w2 = w2  c1 = c1  c2 = c2  appA = appA
    NoMsg = NoMsg  NullApp = NullApp  AnyClient = AnyClient
    Msgs = {m1, m2}
    Workers = {w1}
    ClientOf <- OneTenantClient
    AppOf <- UnnamedApp
    OwnerOf <- Owners
    AppsOf <- Apps
    Malformed = {}
    Direct = {w1}
    MaxFaults = 0
PROPERTIES EveryRowSettles
