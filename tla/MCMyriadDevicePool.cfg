SPECIFICATION PoolSpec
CONSTANTS
    ExecutableNetworks = {n1, n2, n3, n4}
    Devices <- Sticks
    PlatformOf <- TwoKinds
    MaxGraphNum <- Capacity
    Configs <- Wishes
    Unset = "any"
    Mock = "mock"
SYMMETRY Symmetry
INVARIANTS
    CountsAreExact
    GraphsFit
PROPERTIES
    SharesOnlyIfNoneEmpty
CHECK_DEADLOCK FALSE
