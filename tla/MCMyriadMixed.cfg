SPECIFICATION Spec
CONSTANTS
    Networks = {"a"}
    Requests = {"a1", "a2"}
    NetworkOf <- One
    FifoElements = 2
    MaxStarts = 2
    MaxRefused = 0
    Sharings <- Unshared
    Usages <- Mixed
INVARIANTS
    ResultsMatchInputs
CHECK_DEADLOCK FALSE
