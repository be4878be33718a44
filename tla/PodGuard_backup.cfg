SPECIFICATION GuardSpec
CONSTANTS
    WarnAfter = 1
    BackupAfter = 2
    DeleteAfter = 3
    LadderDelete = TRUE
    QuietLimit = 1
    LongStep = 1
    Fresh = 1
    Modes = {"off"}
    Window = 1
    HardMax = 2
    Grace = 1
    MaxPages = 2
    MaxRuns = 2
    MaxFaults = 0
PROPERTY BackedUpBeforeDelete
CHECK_DEADLOCK FALSE
