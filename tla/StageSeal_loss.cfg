SPECIFICATION Spec
CONSTANTS
    Artifact = {a1}
    Env = {e1, e2}
    Pass = {p1, p2}
    None = None
    MaxSeal = 2
    MaxLost = 2
    MaxCrash = 1
    ManifestFirst = FALSE
INVARIANTS AcceptedNotBelowNamed NamedSealNeverRecreated
