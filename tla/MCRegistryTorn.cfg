SPECIFICATION FairSpec
CONSTANTS
    None = None
    Torn = Torn
    Nodes = {a, b, c}
    PoolSize = 2
    StateFile = TRUE
    FaultKinds = {"crash in write"}
    MaxFaults = 1
PROPERTY ServesAgain
CHECK_DEADLOCK FALSE
