SPECIFICATION Spec
CONSTANTS
    Tasks = {k1, k2, k3}
    Clients = {c1, c2}
    Workers = {w1, w2, w3}
    Owner = owner
    MaxStarts = 4
    MaxElsewhere = 1
    CounterModulus = 6
    None = None
CHECK_DEADLOCK FALSE
INVARIANTS
    TasksRunOnLoadedGraphs
    SleepingWorkersNotNeeded
    WaitingCounterIsExact
PROPERTIES
    ImplementsTaskQueue
    DestructorReturns
