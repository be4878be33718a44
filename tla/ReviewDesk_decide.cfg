SPECIFICATION Spec
CONSTANTS
    Page = {p1}
    Person = {o1, o2}
    Reviews <- Readings
    Text = {t1}
    NoDecision = NoDecision
    NoText = NoText
    MaxDecisions = 2
    MaxReads = 2
    MaxMeasures = 2
    RecensorUnitCodes = {"continuation-off-page-edge"}
    RecensorPageCodes = {"residual-ink"}
    RowPageCodes = {"page-unread", "page-blank", "no-act-on-page"}
    PageWideEntryCodes = {"superseded-act-not-read"}
    NotOverridable = {"unplaced", "entry-no-readable-text"}
    EditCarries = {"entry-no-readable-text"}
    UnitChoices = {"release", "exclude", "hold", "re-ask", "edit"}
    PageChoices = {"no-missed-act", "re-ask"}
SYMMETRY Interchangeable
CONSTRAINT OvertakenOnce
INVARIANTS
    DisagreementHolds
    StoredIsApplicable
    UnreadableNeedsText
    UnitHoldStands
    ClearedAsSeen
    NoActPageWaits
CHECK_DEADLOCK FALSE
