SPECIFICATION Spec
CONSTANTS
    Threads = {t1, t2, t3, t4}
    MaxTasksInQueue = 3
    IdModulus = 5
    None = None
INVARIANTS
    MutualExclusion
    TicketsBelongToThreads
PROPERTY
    ImplementsFifoLock
