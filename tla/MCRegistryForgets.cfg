SPECIFICATION Spec
CONSTANTS
    None = None
    Torn = Torn
    Nodes = {a, b, c}
    PoolSize = 2
    StateFile = FALSE
    FaultKinds = {"crash"}
    MaxFaults = 1
INVARIANT OverlayIpStable
CHECK_DEADLOCK FALSE
