CONSTANTS
    None = None
    Ips = {i1, i2}
    Requests = {r1, r2}
    MAX_ATTEMPTS = 2
    LOCKOUT_SECONDS = 3
SPECIFICATION FairSpec
INVARIANTS
    TypeOK
    BurstIsBounded
PROPERTIES
    LockoutEnds
