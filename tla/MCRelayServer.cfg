SPECIFICATION FairSpec
CONSTANTS
    None = None
    Nodes = {a, b}
    Conns = {c1, c2, c3, c4}
    Capacity = 1
    MaxFaults = 2
INVARIANTS
    TypeOK
    NoDeadRoute
    FramesReachAddressee
PROPERTY RouteRestored
