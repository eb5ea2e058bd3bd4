CONSTANTS
    None = None
    Web = {w1, w2}
    Cli = {}
    Script = {}
    Bills = {b1}
    Receipts = {1, 2}
    Items = {c1, c2}
    Infos = {i1}
    Statuses = {"draft"}
    MaxFiles = 1
SPECIFICATION Spec
INVARIANTS
    TypeOK
    QuietPdfIsCurrent
    NothingDangles
    ReorderTakesEffect
PROPERTIES
    AuditTellsTheTruth
    ListsAreKept
SYMMETRY WebSymmetry
CHECK_DEADLOCK FALSE
