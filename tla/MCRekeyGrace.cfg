SPECIFICATION Spec
CONSTANTS
    None = None
    Relay = Relay
    N = 2
    Nodes <- MCNodes
    MaxEphemeral = 3
    Ephemerals <- MCEphemerals
    Addresses <- HomesOnly
    Advertised <- MCAdvertised
    HasRelay = FALSE
    Loads = {}
    Coordinated = FALSE
    Dup = FALSE
    Prompt = TRUE
    WINDOW_BITS = 2
    RETRANSMIT = 1
    KEEPALIVE = 2
    DIRECT = 0
    DEAD = 3
    GRACE = 3
    ROTATE = 5
    VOLUME = 9
    MaxNonce = 9
    MaxNet = 4
    FaultKinds = {}
    MaxFaults = 0
PROPERTY GraceAfterRekey
