\* Three tasks of two levels, awaited by anybody, on one worker and the root
\* thread.
SPECIFICATION Spec
CONSTANTS
    a = a
    b = b
    c = c
    Root = Root
    NoTask = NoTask
    NoThread = NoThread
    Task = {a, b, c}
    Worker = {w1}
    Creator <- ForestCreator
    MayAwait <- TravellingAwait
    Cancellable = {a}
    MAX_AWAIT_DEPTH = 2
INVARIANTS
    WaitsSound
    AdmittedGetsResult
PROPERTIES
    AwaitEnds
CHECK_DEADLOCK FALSE
