CONSTANTS
    None = None
    Users = {u1}
    Browsers = {w1}
    Requests = {r1, r2}
    Codes = {c1, c2}
    Passkeys = {p1}
    BatchSize = 1
SPECIFICATION Spec
INVARIANTS
    CodeLogsInOnce
    CodesComeWithTotp
    TotpComesWithCodes
    OneIdentity
PROPERTIES
    EveryLoginIsChecked
SYMMETRY Symmetry
