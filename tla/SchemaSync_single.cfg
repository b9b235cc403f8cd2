SPECIFICATION Spec
CONSTANTS
    w1 = w1
    w2 = w2
    a = a
    b = b
    id = id
    Procs <- OneWorker
    Attrs <- TwoAttrs
    Base <- OneBase
    Deployments <- Quiet
    MaxOps = 5
INVARIANTS
    SerialInsertsSucceed
    SerialSchemaAgrees
    StoredDataIsVisible
CHECK_DEADLOCK FALSE
