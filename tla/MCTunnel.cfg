SPECIFICATION Spec
CONSTANTS
    None = None
    Relay = Relay
    N = 2
    Nodes <- MCNodes
    MaxEphemeral = 1
    Ephemerals <- MCEphemerals
    Addresses <- HomesOnly
    Advertised <- MCAdvertised
    HasRelay = FALSE
    Loads = {"own", "foreign"}
    Coordinated = TRUE
    Dup = TRUE
    Prompt = TRUE
    WINDOW_BITS = 2
    RETRANSMIT = 1
    KEEPALIVE = 1
    DIRECT = 0
    DEAD = 2
    GRACE = 2
    ROTATE = 3
    VOLUME = 0
    MaxNonce = 1
    MaxNet = 2
    FaultKinds = {"loss", "restart"}
    MaxFaults = 1
INVARIANTS
    TypeOK
    HandshakeRetried
    TxNonceFresh
    WindowBehindSender
    NoReplayDelivery
