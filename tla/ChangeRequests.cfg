CONSTANTS
    Users = {u1, u2}
    Ids = {i1, i2}
    Roles = {viewer, editor}
    Pending = {"submitted", "in_review"}
    ReadFaults = FALSE
    WriteFaults = TRUE
    None = None
    MaxPast = 3
SPECIFICATION Spec
SYMMETRY Symmetry
INVARIANTS
    TypeOK
    RoleIsExplained
    EventsTellStatus
PROPERTIES
    DecisionsStand
    OneOpenRequest
    EventsJoinUp
