SPECIFICATION Spec
CONSTANTS
    w1 = w1
    w2 = w2
    a = a
    b = b
    id = id
    Procs <- TwoWorkers
    Attrs <- TwoAttrs
    Base <- OneBase
    Deployments <- Everything
    MaxOps = 3
SYMMETRY Symmetry
INVARIANTS
    TypeOK
    MetadataBacked
    InsertFindsItsColumns
CHECK_DEADLOCK FALSE
