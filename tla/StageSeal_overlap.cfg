SPECIFICATION FairSpec
CONSTANTS
    Artifact = {a1, a2}
    Env = {e1}
    Pass = {p1, p2}
    None = None
    MaxSeal = 3
    MaxLost = 0
    MaxCrash = 1
    ManifestFirst = TRUE
PROPERTIES
    BoundaryKept
    AcceptedIsCurrent
    BoundarySettles
