CONSTANTS
    None = None
    OrgRole = {"admin", "viewer"}
    OtherRole = OtherRole
    Users = {u1, u2, u3}
    Orgs = {o1}
    Invites = {i1, i2, i3}
    Billings = {}
SPECIFICATION Spec
INVARIANTS
    OnePendingInvite
    PendingMeansOutside
    MembersWereInvited
    AnAdminRemains
PROPERTIES
    InviteAnsweredOnce
SYMMETRY Symmetry
CHECK_DEADLOCK FALSE
