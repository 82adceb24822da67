SPECIFICATION MCSpec
CONSTANTS
    None = None
    Runs = {1, 2}
    Watched = {1}
    Settings <- MCSettings
    QueueSize = 1
    StatusSize = 1
    Reports = {"Connected"}
    TunCloses = TRUE
INVARIANTS
    TypeOK
    AppKnowsRun
PROPERTIES
    CancelFreesDevice
    CancelEndsTasks
    StopAnswered
    RelayLetsTimerTick
