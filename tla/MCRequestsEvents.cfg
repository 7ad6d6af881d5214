\* One call at a time, and three events in all.
SPECIFICATION Spec
CONSTANTS
    t1 = t1  user = user  i1 = i1  i2 = i2
    n1 = n1  n2 = n2  l1 = l1  l2 = l2 
    NoInst = NoInst  NoNumber = NoNumber  NoLink = NoLink
    Tasks = {t1}
    Users = {user}
    RoleOf <- Roles
    Instances = {i1, i2}
    Numbers = {n1, n2}
    Links = {l1, l2}
    First = i1
    MayCall <- Serves
    Callers <- Claims
    MaxEvents = 3
INVARIANTS Authorised FromThatNumber
CHECK_DEADLOCK FALSE
