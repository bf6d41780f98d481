SPECIFICATION Spec
CONSTANTS
    Networks = {"a", "b"}
    Requests = {"a1", "a2", "a3", "b1"}
    NetworkOf <- Owner
    FifoElements = 2
    MaxStarts = 4
    MaxRefused = 2
    Sharings <- AnySharing
    Usages <- OneWay
INVARIANTS
    IntactResultsMatch
    FifosFollowLines
PROPERTIES
    EveryStartEnds
CHECK_DEADLOCK FALSE
