CONSTANTS
    None = None
    Web = {w1}
    Cli = {}
    Script = {script}
    Bills = {b1, b2}
    Receipts = {}
    Items = {c1, c2}
    Infos = {i1}
    Statuses = {"draft"}
    MaxFiles = 0
SPECIFICATION Spec
INVARIANTS
    QuietPdfIsCurrent
SYMMETRY DataSymmetry
CHECK_DEADLOCK FALSE
