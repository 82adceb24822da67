SPECIFICATION MCSpec
CONSTANTS
    a = a
    b = b
    c = c
    None = None
    Torn = Torn
    NoAnswer = NoAnswer
    Nodes = {a, b, c}
    Watched <- OnePair
    PoolSize = 3
    StateFile = TRUE
    FaultKinds = {"crash", "crash in write", "open error", "write error"}
    MaxFaults = 3
    AddressBits = 2
    PeerKeys = {1, 2, 3}
    Endpoints = {1, 2}
    Sessions = {1, 2, 3}
    NoEndpoint = NoEndpoint
    NoSession = NoSession
    Lookups <- SmallLookups
    Syncs <- SmallSyncs
INVARIANTS
    TypeOK
    AddressRegistered
    NoSharedAddress
    OverlayIpStable
    CryptokeyRouting
    LongestMatchFound
    SyncReconciles
PROPERTIES
    ImplementsAddressBook
    MeshConverges
CHECK_DEADLOCK FALSE
