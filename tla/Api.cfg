SPECIFICATION Spec
CONSTANTS
    r1 = r1 r2 = r2
    Requests <- TwoRequests
    Inputs <- SmallInputs
    Addresses <- FourAddresses
    Admin = "admin"
    Nobody = "nobody"
    NoAccount = NoAccount
    Organizations = {0, 1, 2}
    Null = Null
    Missing = Missing
    InitialAccounts <- SmallDatabases
    OldAssets <- OneAsset
    OldEvents <- TwoEvents
    SecretsEnabled = TRUE
    DefaultPerPage = 2
    ItemsLimit = 5
    MaxToggles = 1
INVARIANTS
    TypeOK
    EveryConditionHeld
    ReadsAreAllowed
    NoRightFromNowhere
    StoredIsValid
SYMMETRY Symmetry
CHECK_DEADLOCK FALSE
