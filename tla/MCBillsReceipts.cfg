CONSTANTS
    None = None
    Web = {w1}
    Cli = {}
    Script = {}
    Bills = {b1, b2}
    Receipts = {1, 2, 3}
    Items = {c1}
    Infos = {i1}
    Statuses = {"draft"}
    MaxFiles = 1
SPECIFICATION Spec
INVARIANTS
    AddedReceiptIsLast
SYMMETRY DataSymmetry
CHECK_DEADLOCK FALSE
