\* Two tasks race for one queue slot; every fault, every owner operation.
SPECIFICATION Spec
CONSTANTS
    Tasks = {t1, t2}
    NoTask = NoTask
    MaxTasks = 2
    TaskQueueLimit = 1
    TaskWorkers = 1
    Faults = {"denied", "build_panic", "header_overflow", "frame_storage"}
    UsedHandles = {t1, t2}
    Deadlines = {1}
    MaxShutdowns = 0
SYMMETRY TaskSymmetry
INVARIANTS
    FrameDiscipline
    WitnessSound
    CountersExact
PROPERTIES
    OutcomeFinal
\* All submissions can be over.
CHECK_DEADLOCK FALSE
