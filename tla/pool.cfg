\* Two calls, of the same task, of a task and outside of one, or both outside;
\* one worker, one queue slot.
SPECIFICATION Spec
CONSTANTS
    NoJob = NoJob
    NoTask = NoTask
    Job = {j1, j2}
    Worker = {w1}
    Task = {t1}
    QueueLimit = 1
INVARIANTS
    ShutdownDrained
    ObligationsCounted
PROPERTIES
    CancelledCallReturns
    JobsRetire
CHECK_DEADLOCK FALSE
