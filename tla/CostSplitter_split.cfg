SPECIFICATION Spec
CONSTANTS
    Costs = {0, 1, 2, 5}
    MaxCost = 4
    MaxLen = 5
INVARIANTS
    BatchesJoinToStream
    FewestWithinGoal
PROPERTIES
    StreamIsSplit
CHECK_DEADLOCK FALSE
