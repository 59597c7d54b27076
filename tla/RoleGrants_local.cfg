CONSTANTS
    Users = {u1}
    Groups = {g1}
    Roles = {viewer, editor}
    LocalDb = TRUE
    Faults = FALSE
    NoOp = NoOp
    MaxRows = 3
SPECIFICATION Spec
SYMMETRY Symmetry
INVARIANTS
    GrantsSucceed
