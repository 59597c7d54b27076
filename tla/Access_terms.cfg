CONSTANTS
    Policies <- MCPolicies
    LockedMode = FALSE
    Faults = FALSE
    NoRow = NoRow
    Users = {ann}
    Browsers = {b1}
    TermsVersions = {t1}
    TermsEnforced = TRUE
    BootstrapPassword = TRUE
SPECIFICATION AccessSpec
INVARIANTS
    TermsShown
CHECK_DEADLOCK FALSE
