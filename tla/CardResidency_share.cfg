SPECIFICATION FairSpec
CONSTANTS
    Perlectors = {p}
    Coniectors = {c}
    Attestatores = {}
    Preflights = {f}
    Services = {s1, s2}
INVARIANTS OneOnTheCard NothingLeftRunning ConiectorSealsClean
PROPERTY EveryStageEnds
CHECK_DEADLOCK FALSE
