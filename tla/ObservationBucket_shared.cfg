SPECIFICATION FairSpec
CONSTANTS
    h1 = h1
    h2 = h2
    h3 = h3
    o1 = o1
    o2 = o2
    o3 = o3
    NoThread = NoThread
    Threads <- ThreeThreads
    Observations <- TwoObservations
    Threshold = 1
INVARIANTS
    TypeOK
    Confined
    NoObservationLost
    FilesAreComplete
    MemoryCapped
PROPERTIES
    FlushedIsSaved
