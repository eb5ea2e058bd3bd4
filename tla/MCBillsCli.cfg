CONSTANTS
    None = None
    Web = {w1}
    Cli = {cli}
    Script = {}
    Bills = {b1}
    Receipts = {}
    Items = {c1, c2}
    Infos = {i1, i2}
    Statuses = {"draft", "paid"}
    MaxFiles = 0
SPECIFICATION Spec
INVARIANTS
    QuietPdfIsCurrent
PROPERTIES
    AuditTellsTheTruth
SYMMETRY DataSymmetry
CHECK_DEADLOCK FALSE
