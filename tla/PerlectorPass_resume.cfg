SPECIFICATION FairSpec
CONSTANTS
    Pages = 3
    Unasked = {2}
    Width = 2
    MaxPasses = 3
    MaxStops = 1
    None = None
INVARIANTS
    SealedIsComplete
    RecordsAgree
PROPERTIES
    NeverAskedTwice
    ReadsToTheEnd
