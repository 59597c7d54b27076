CONSTANTS
    Requests = {q1, q2}
    Browsers = {b1}
    BrowserOf <- MCBrowserOf
    S = 1
    RoleBudget = 1
    VersionBudget = 1
    Faults = FALSE
    ProdPolicy = TRUE
    MaxStatements = 1
    NoSnapshot = NoSnapshot
    NoRoles = NoRoles
    MaxTime = 1
    MaxEpoch = 1
    MaxVersion = 2
SPECIFICATION Spec
SYMMETRY Symmetry
INVARIANTS
    BumpTakesEffect
