\* One task with every fault, owner operation and a shutdown; bodies return.
SPECIFICATION HungSpec
CONSTANTS
    Tasks = {t1}
    NoTask = NoTask
    MaxTasks = 1
    TaskQueueLimit = 1
    TaskWorkers = 1
    Faults = {"denied", "build_panic", "header_overflow", "frame_storage"}
    UsedHandles = {t1}
    Deadlines = {1, 2}
    MaxShutdowns = 1
PROPERTIES
    FirstCauseWins
    TasksFinish
    CallsEnd
\* All submissions can be over.
CHECK_DEADLOCK FALSE
