SPECIFICATION Spec
CONSTANTS
    q1 = q1
    q2 = q2
    Requests <- MCRequests
    Tenants <- MCTenants
    Alike <- MCAlike
    Lower <- MCLower
    LowerIn <- MCLowerIn
    TableOrder <- MCTableOrder
    ColumnsOf <- MCColumnsOf
    Texts <- MCTexts
    DefaultLimit = 4
    HardLimit = 3
    Dotted <- MCDotted
    Scenarios <- MCScenarios
INVARIANTS
    TypeOK
    StableRowsAreShown
    PagesMeet
    GroupedByType
    DeletesAreComplete
PROPERTIES
    StaleListHeals
CHECK_DEADLOCK FALSE
