SPECIFICATION FairSpec
CONSTANTS
    t1 = t1
    t2 = t2
    w1 = w1
    w2 = w2
    NoTask = NoTask
    Tasks <- TwoTasks
    Workers <- TwoWorkers
    MaxRetries = 2
    Offload = {TRUE, FALSE}
    Recover = FALSE
    RedisFails = TRUE
    CrashAt = {"running"}
    Deletes = FALSE
    PromptHandler = TRUE
INVARIANTS
    NoTaskInLimbo
PROPERTIES
    LifecycleRefined
    StoppedNeverRunsAgain
    EventuallySettles
CHECK_DEADLOCK FALSE
