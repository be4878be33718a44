SPECIFICATION Spec
CONSTANTS
    Leases = {a, b}
    LyingViews = {"get"}
    MaxStarts = 1
    MaxRecovery = 1
    CloseAttempts = 2
    TimerBuilds = TRUE
INVARIANT ClosedMeansGone
PROPERTIES FreshOwnerIsLeftAlone AccountKept
CHECK_DEADLOCK FALSE
SYMMETRY Symmetry
CONSTRAINT OneBusyLease
