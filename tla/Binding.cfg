SPECIFICATION FairSteadySpec
CONSTANTS
    n1 = n1
    n2 = n2
    p1 = p1
    p2 = p2
    p3 = p3
    w1 = w1
    Nodes = {n1, n2}
    Pods = {p1}
    NoNode = NoNode
    NoRequest = NoRequest
    NoOwner = NoOwner
    NoBandwidth = NoBandwidth
    Owners = {w1}
    Owner <- Siblings
    Annotated = {p1}
    Annotation <- TwoMbps
    DefaultMbps <- OneMbps
    DefaultCapacity <- Exact
    InitNodes = {n1, n2}
    Capacities = {}
    Budget <- LeaveJoin
    NoPod = NoPod
INVARIANTS
 SettledAccounting
 GoneNodeForgotten
 SettledRelease
PROPERTIES
    EventuallyBound
CHECK_DEADLOCK FALSE
