SPECIFICATION FairSpec
CONSTANTS
    a1 = a1
    a2 = a2
    b1 = b1
    b2 = b2
    c1 = c1
    c2 = c2
    c3 = c3
    ga = ga
    gb = gb
    gc = gc
    n1 = n1
    Pods = {a1, a2, b1, b2, c1, c2, c3}
    Groups = {ga, gb, gc}
    Nodes = {n1}
    GroupOf <- LabelOf
    MinMember <- Quorum
    WithMinResources = {gb}
    BackoffSet = TRUE
    Slots <- Three
    Rank <- Created
    Name <- Named
    Priority <- Equal
    Starts <- TwoPairsOrThree
    MaxTroubles = 1
    NoGroup = NoGroup
    NoNode = NoNode
    NoPod = NoPod
PROPERTIES
    GangGivesBack
INVARIANTS
    CoschedulingTypeOK
    NoStrandedWaiter
    BackoffHoldsNothing
    SiblingOnItsWay
CHECK_DEADLOCK FALSE
