SPECIFICATION FairSpec
CONSTANTS
    Leases = {a}
    LyingViews = {"list"}
    MaxStarts = 1
    MaxRecovery = 1
    CloseAttempts = 1
    TimerBuilds = TRUE
PROPERTY DeadmanEnds SupervisionEnds
CHECK_DEADLOCK FALSE
