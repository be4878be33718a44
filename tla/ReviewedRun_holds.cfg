SPECIFICATION FairSpec
CONSTANTS
    Page = {p1, p2}
    Left = p1
    Right = p2
    None = None
    MaxReads = 2
    MaxDecisions = 1
    MaxCrash = 1
    Hasty = TRUE
INVARIANTS
    EstablishedStands
    NoLateHoldDelivered
PROPERTIES
    ExportOfSealedReview
    ReachesExport
