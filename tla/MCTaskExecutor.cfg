SPECIFICATION Spec
CONSTANTS
    Tasks = {k1, k2}
    Clients = {c1, c2}
    None = None
PROPERTIES
    ImplementsTaskQueue
    DestructorReturns
    WaitReturns
