CONSTANTS
    Users = {u1}
    Groups = {g1}
    Roles = {viewer, editor}
    LocalDb = FALSE
    Faults = TRUE
    NoOp = NoOp
    MaxRows = 3
SPECIFICATION Spec
SYMMETRY Symmetry
INVARIANTS
    TypeOK
    OneActiveRole
    AuditTells
