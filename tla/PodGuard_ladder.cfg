SPECIFICATION GuardFairSpec
CONSTANTS
    WarnAfter = 1
    BackupAfter = 2
    DeleteAfter = 3
    LadderDelete = TRUE
    QuietLimit = 1
    LongStep = 1
    Fresh = 1
    Modes = {"off", "hours", "budget"}
    Window = 1
    HardMax = 2
    Grace = 1
    MaxPages = 1
    MaxRuns = 2
    MaxFaults = 1
INVARIANT SteadyRunIsSpared
PROPERTY NeverBillsUnnoticed
CHECK_DEADLOCK FALSE
