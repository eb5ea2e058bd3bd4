CONSTANTS
    None = None
    Web = {w1}
    Cli = {cli}
    Script = {}
    Bills = {b1}
    Receipts = {1}
    Items = {c1}
    Infos = {i1}
    Statuses = {"draft"}
    MaxFiles = 1
SPECIFICATION Spec
INVARIANTS
    ReceiptsAreMerged
CHECK_DEADLOCK FALSE
