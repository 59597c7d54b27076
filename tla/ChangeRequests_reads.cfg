CONSTANTS
    Users = {u1, u2}
    Ids = {i1, i2}
    Roles = {viewer, editor}
    Pending = {"submitted", "in_review"}
    ReadFaults = TRUE
    WriteFaults = FALSE
    None = None
    MaxPast = 3
SPECIFICATION Spec
SYMMETRY Symmetry
PROPERTIES
    OneOpenRequest
