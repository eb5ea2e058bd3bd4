CONSTANTS
    None = None
    Procs = {web, cli}
    Chain <- program
    Repeatable <- repeatable
SPECIFICATION FairSpec
INVARIANTS
    OneAtATime
    ServesOnWholeSchema
    ErrorsLeaveNoHalf
    PathsFollowUuids
PROPERTIES
    SomeoneServes
CHECK_DEADLOCK FALSE
