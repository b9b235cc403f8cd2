SPECIFICATION Spec
CONSTANTS
    w1 = w1
    w2 = w2
    a = a
    b = b
    id = id
    Procs <- OneWorker
    Attrs <- TwoAttrs
    Base <- OneBase
    Deployments <- Flaky
    MaxOps = 3
PROPERTIES
    MetadataKeepsPreviousInserts
CHECK_DEADLOCK FALSE
