CONSTANTS
    None = None
    OrgRole = {"admin"}
    OtherRole = OtherRole
    Users = {u1}
    Orgs = {o1, o2}
    Invites = {}
    Billings = {b1}
    Fields = {"primary"}
    Values = {"purple", "green"}
    Default = "purple"
    Blank = Blank
    Lost = Lost
    Jobs = {j1}
SPECIFICATION ThemesSpec
INVARIANTS
    LogRetellsThemes
PROPERTIES
    RenderedAsShown
    OwnedOnce
SYMMETRY Symmetry
CHECK_DEADLOCK FALSE
