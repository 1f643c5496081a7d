SPECIFICATION FairSpec
CONSTANTS
    p1 = p1
    p2 = p2
    w1 = w1
    w2 = w2
    q = q
    Pods = {p1, p2}
    Placements <- SameOrApart
    InitPods = {p1}
    MinMember = 2
    OwnerOf <- Owned
    MaxFails = 1
    Workers = {w1, w2}
    Containers <- Regular
    InitContainers <- Before
    Quota = q
INVARIANT FinalPhaseEarned
PROPERTIES
    PhaseCatchesUp
    UsedCatchesUp
CHECK_DEADLOCK FALSE
