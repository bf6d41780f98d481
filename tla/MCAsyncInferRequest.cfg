SPECIFICATION Spec
CONSTANTS
    Clients = {c1, c2}
    UsageChoices <- SoundUsages
    MaxTasks = 4
    MaxStarts = 4
    Nil = Nil
INVARIANTS
    TypeOK
    InferenceIsExclusive
    BusyGuardsInference
    EachStartServedOnce
    NoUseAfterDestruction
    WaitReturnsAfterCallback
PROPERTIES
    CallbackToldOutcome
    DestructorReturns
    StartsAreServed
CHECK_DEADLOCK FALSE
