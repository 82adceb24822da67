SPECIFICATION MCReadingSpec
CONSTANTS
    None = None
    Runs = {1}
    Watched = {1}
    Settings <- MCSettings
    QueueSize = 2
    StatusSize = 1
    Reports = {"Connected"}
    TunCloses = FALSE
PROPERTIES
    TimerKeepsTicking
