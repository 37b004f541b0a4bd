\* A shutdown races two submissions that compete for the only unit of active_tasks.
SPECIFICATION Spec
CONSTANTS
    Tasks = {t1, t2}
    NoTask = NoTask
    MaxTasks = 1
    TaskQueueLimit = 1
    TaskWorkers = 1
    Faults = {"denied", "build_panic", "header_overflow", "frame_storage"}
    UsedHandles = {}
    Deadlines = {1}
    MaxShutdowns = 1
SYMMETRY TaskSymmetry
INVARIANTS
    CountersExact
    ShutdownComplete
PROPERTIES
    ImplementsContract
\* All submissions can be over.
CHECK_DEADLOCK FALSE
