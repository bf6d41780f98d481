SPECIFICATION Spec
CONSTANTS
    Clients = {c1}
    Callback = callback
    Length = 3
    CpuSubs = {1, 3}
    Names = {"in", "mid", "out"}
    Topologies <- Rows
    UsageChoices <- SoundUsages
    MaxRounds = 3
    MaxBlobs = 2
INVARIANTS
    TypeOK
    NextSubRequestIsFree
    WaitOkMeansComplete
    InferenceUsesItsBlobs
    EndMeansCallback
PROPERTIES
    ImplementsChain
    FlagIsLowered
CHECK_DEADLOCK FALSE
