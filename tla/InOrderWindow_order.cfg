SPECIFICATION FairSpec
CONSTANTS
    N = 6
    Silent = {3}
    Width = 2
    HeldPerSlot = 1
    Slow = {1}
    Failures = TRUE
INVARIANTS
    Bounded
    NoneLeft
PROPERTIES
    FinishedInOrder
    SlowCallHoldsNobody
    Ends
