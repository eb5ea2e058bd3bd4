CONSTANTS
    None = None
    Blank = Blank
    Descriptions = {"rent", "water"}
    ItemNames = {"rent"}
    Typed = {0, 1}
    Extras <- extras
    Inputs <- inputs
    MaxItems = 2
    MaxIds = 4
    MaxLines = 3
    Bits = 11
    Group = 2
SPECIFICATION Spec
INVARIANTS
    TypeOK
    MemoryIsStored
    AmountsSurvive
    UntouchedEditChangesNothing
    EditedLinesFollowTheForm
    PayloadsAreReadable
    CrcIsTheRemainder
PROPERTIES
    ChargedForTheRightItem
    AuditSaysWhatWasReplaced
CHECK_DEADLOCK FALSE
