SPECIFICATION FairSpec
CONSTANTS
    None = None
    Relay = Relay
    N = 2
    Nodes <- MCNodes
    MaxEphemeral = 9
    Ephemerals <- MCEphemerals
    Addresses <- OneSpare
    Advertised <- MCAdvertised
    HasRelay = TRUE
    Loads = {}
    Coordinated = FALSE
    Dup = FALSE
    Prompt = TRUE
    WINDOW_BITS = 2
    RETRANSMIT = 1
    KEEPALIVE = 2
    DIRECT = 2
    DEAD = 3
    GRACE = 3
    ROTATE = 4
    VOLUME = 9
    MaxNonce = 100
    MaxNet = 8
    FaultKinds = {"loss", "restart", "move"}
    MaxFaults = 2
PROPERTY TunnelRecovers
