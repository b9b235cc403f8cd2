SPECIFICATION Spec
CONSTANTS
    t1 = t1
    t2 = t2
    Tasks <- MCTasks
    EntityTypes <- MCTypes
    AddressKeys <- MCAddressKeys
    Column <- MCColumn
    NgsiTypes <- MCNgsiTypes
    Scenarios <- MCScenarios
    MaxRetries = 1
INVARIANTS
    TypeOK
    
    CopiesWithinRuns
    RowsUnderOwnPath
    RetriesStoreTheSameRow
    ConformingValueKept
PROPERTIES
    DeliveryRefined
    EventuallySettles
CHECK_DEADLOCK FALSE
