SPECIFICATION Spec
CONSTANTS
    h1 = h1
    h2 = h2
    Threads <- MCThreads
    Deployments <- MCDeployments
    MaxRequests = 3
    MaxSamples = 2
    MaxOutages = 1
INVARIANTS
    OnlyLateSamplesLost
    OwnDurations
    FailedConnectionDropped
CHECK_DEADLOCK FALSE
