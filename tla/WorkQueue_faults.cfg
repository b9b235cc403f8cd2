SPECIFICATION CountSpec
CONSTANTS
    t1 = t1
    t2 = t2
    w1 = w1
    w2 = w2
    NoTask = NoTask
    Tasks <- TwoTasks
    Workers <- TwoWorkers
    MaxRetries = 1
    Offload = {TRUE, FALSE}
    Recover = TRUE
    RedisFails = TRUE
    CrashAt = {"running", "save", "check", "unschedule", "fail"}
    Deletes = TRUE
    PromptHandler = TRUE
SYMMETRY Symmetry
INVARIANTS
    TypeOK
    RunsWithinRetries
    TaskInOneRegistry
    CountOffByMoves
CHECK_DEADLOCK FALSE
