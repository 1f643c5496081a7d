SPECIFICATION MCSpec
CONSTANTS
    n1 = n1
    n2 = n2
    p1 = p1
    p2 = p2
    p3 = p3
    w1 = w1
    Nodes = {n1}
    Pods = {p1}
    NoNode = NoNode
    NoRequest = NoRequest
    NoOwner = NoOwner
    NoBandwidth = NoBandwidth
    Owners = {w1}
    Owner <- Siblings
    Annotated = {p1}
    Annotation <- TwoMbps
    DefaultMbps <- OneMbps
    DefaultCapacity <- Narrow
    InitNodes = {n1}
    Capacities <- Edits
    Budget <- FaultEditRestart
    MaxWrites = 1
INVARIANTS
    ClientsTypeOK
    OperatorInv
PROPERTIES
    NoUnreadDrop
