SPECIFICATION Spec
CONSTANTS
    Boxes = {1, 2, 3, 4}
    Inputs <- Multisets
    None = None
    MaxTime = 3
    MaxSize = 2
INVARIANTS
    SlotsExist
    BoxesDoNotOverlap
    DepthIsExact
PROPERTIES
    LowestPlace
    SolveReturns
CHECK_DEADLOCK FALSE
