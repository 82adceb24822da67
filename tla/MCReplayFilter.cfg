SPECIFICATION Spec
CONSTANTS
    WINDOW_BITS = 4
    MaxNonce = 8
    Nonces <- MCNonces
INVARIANTS
    TypeOK
    WindowExact
PROPERTY ImplementsAtMostOnce
