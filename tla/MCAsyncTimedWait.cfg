SPECIFICATION Spec
CONSTANTS
    Clients = {c1}
    UsageChoices <- TimedUsages
    MaxTasks = 3
    MaxStarts = 3
    Nil = Nil
INVARIANT InferenceIsExclusive
CHECK_DEADLOCK FALSE
