CONSTANTS
    Requests = {q1, q2}
    Browsers = {b1}
    BrowserOf <- MCBrowserOf
    S = 2
    RoleBudget = 0
    VersionBudget = 1
    Faults = TRUE
    ProdPolicy = FALSE
    MaxStatements = 1
    NoSnapshot = NoSnapshot
    NoRoles = NoRoles
    MaxTime = 3
    MaxEpoch = 1
    MaxVersion = 2
SPECIFICATION Spec
SYMMETRY Symmetry
INVARIANTS
    TypeOK
    BoundedRevocation
    VersionGuards
