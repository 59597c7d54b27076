CONSTANTS
    Policies <- MCPolicies
    LockedMode = FALSE
    Faults = TRUE
    NoRow = NoRow
    DefaultOptions <- MCDefaults
    OptionCodes = {"a", "b"}
    OptionLabels = {1, 2, 3}
    LastDay = 2
    FilledIn = {TRUE}
    OptionWindows <- Open
    MaxOptions = 3
    Employees = {"ann", "bob"}
    Names = {"ann@", "ann", "bob", "net"}
    UserIds = {x1, x2, x3}
    Threads = {y1, y2}
    Assignments = {"a1", "a2"}
    FoundAs <- MCFoundAs
    ShownAs <- MCShownAs
    LoginOf <- MCLoginOf
    OldOwners <- MCOldOwners
    UniqueLogin = FALSE
    Users = {y1, y2}
    Browsers = {b1}
    TermsVersions = {v1, v2}
    TermsEnforced = TRUE
    BootstrapPassword = TRUE
    Clients = {x1, x2, x3}
    max_requests = 1
    window = 4
    max_keys = 2
    Second = 2
    MaxTime = 5
    Items = {x1, x2, x3}
    PageThreads = {p1}
    MAX_WORKSPACE_BOARDS = 2
    IMPORT_MAPPING_PROFILE_LIMIT = 2
    Staff = {"admin", "scout"}
    PolicyOfUser <- MCPolicyOfUser
    Vendors = {"v1"}
    Orgs = {"it", "sales"}
    RequestIds = {r1}
    Forms <- MCForms
    LocalDb = FALSE
SPECIFICATION Spec
SYMMETRY Symmetry
INVARIANTS
    ServicesTypeOK
    
    TermsAgreed
    WindowBound
    QueueTells
PROPERTIES
    OthersStay
    NothingLeft
    RetryHonoured
    OthersKept
CHECK_DEADLOCK FALSE
