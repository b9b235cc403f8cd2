SPECIFICATION Spec
CONSTANTS
    t1 = t1
    t2 = t2
    w1 = w1
    w2 = w2
    NoTask = NoTask
    Tasks <- OneTask
    Workers <- OneWorker
    MaxRetries = 1
    Offload = {TRUE, FALSE}
    Recover = FALSE
    RedisFails = FALSE
    CrashAt = {}
    Deletes = FALSE
    PromptHandler = TRUE
INVARIANTS
    StoppedTaskIsFailed
CHECK_DEADLOCK FALSE
