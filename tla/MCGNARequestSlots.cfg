SPECIFICATION Spec
CONSTANTS
    Requests = {r1, r2, r3}
    NumSlots = 2
    MaxInferences = 5
    Layouts = {"NC", "CN", "NCHW"}
    Reuses = FALSE
    None = None
SYMMETRY Symmetry
INVARIANTS
    ExportedResultsAreOwn
    TakenSlotsArePending
CHECK_DEADLOCK FALSE
