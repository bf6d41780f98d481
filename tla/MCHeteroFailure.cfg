SPECIFICATION Spec
CONSTANTS
    Clients = {c1}
    Callback = callback
    Length = 2
    CpuSubs = {1}
    Names = {"in", "mid", "out"}
    Topologies <- Rows
    UsageChoices <- FailingUsages
    MaxRounds = 3
    MaxBlobs = 2
INVARIANT EndMeansCallback
CHECK_DEADLOCK FALSE
