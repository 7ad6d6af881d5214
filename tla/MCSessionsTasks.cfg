SPECIFICATION FairSpec
CONSTANTS
    i1 = i1
    Instances = {i1}
    MaxTasks = 5
    KindsOf <- Kinds
INVARIANTS FlagHasALogout CancelBelongsToAFlow HeartIsReplaced
PROPERTIES NeverReplaced HeartbeatsEnd
CHECK_DEADLOCK FALSE
