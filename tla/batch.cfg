\* Two programs that may run at once.
SPECIFICATION FairSpec
CONSTANTS
    j1 = j1
    j2 = j2
    Job = {j1, j2}
    Jobs <- TwoJobs
    Streams = 1
    MaxRunning = 2
    Limit = 1
    Bytes <- OneWrites
    Outsider = {j1}
    Deadline = 1
    Grace = 1
    StopGrace = 1
    Faults = 1
    MaxTime = 2
INVARIANTS
    MemoryCovered
    ReceiptsSound
    AbortKills
PROPERTIES
    CommandEnds
CHECK_DEADLOCK FALSE
