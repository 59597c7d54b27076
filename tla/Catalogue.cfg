CONSTANTS
    Policies <- MCPolicies
    LockedMode = FALSE
    Faults = TRUE
    NoRow = NoRow
    Vendors = {"v1", "v2"}
    Offerings = {"o1", "o2"}
    VendorOf <- MCVendorOf
    ContractIds = {x1, x2}
    StatusInputs = {"active", "cancelled"}
    Dates = {1, 2}
    MaxEvents = 2
    RowIds = {x1, x2}
    Values = {"a", "b"}
    Profiles = {x1, x2}
    MaxHistory = 3
    ProjectIds = {"j1"}
    DemoIds = {"d1"}
    Rank <- MCRank
    DemoRowIds = {d1}
    Reviewers = {"ann", "usr-2"}
    ActorRef <- MCActorRef
    FormKeys = {x1, x2}
    FormInputs <- MCFormInputs
    AnswerInputs <- MCAnswerInputs
    StageInputs = {"scheduled", "closed"}
    OutcomeInputs = {"selected", "deferred"}
    MaxVersions = 2
    MaxReviews = 2
    VendorIds = {x1, x2}
    OfferingIds = {"o1", "o2"}
    ProjectRowIds = {p1}
    JobIds = {b1}
    Uploads = {y1, y2}
    Catalogues <- MCCatalogues
    Files <- MCFiles
    GroupOf <- MCGroupOf
    Score <- MCScore
    Requested <- MCRequested
    Near <- MCNear
    LoginOf <- MCLoginOf
    DomainOf <- MCDomainOf
    IMPORT_PREVIEW_MAX_ITEMS = 1
    MaxRemaps = 1
    MaxUnread = 1
SPECIFICATION Spec
SYMMETRY Symmetry
INVARIANTS
    CatalogueTypeOK
    FiledUnderItsVendor
    ContractsAgree
    TrailReplays
    HistoryTells
    PrimaryIsAttached
    SummaryIsLatest
    ChildrenOnce
    JobsTell
CHECK_DEADLOCK FALSE
