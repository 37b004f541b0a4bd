\* A POST /stop that arrives while a failed instance drains.
SPECIFICATION Spec
CONSTANTS
    FailureThreshold = 2
    RestartLimit = 1
    RestartWindow = 2
    BaseBackoff = 1
    MaxBackoff = 2
    StartupTimeout = 1
    DrainTimeout = 1
    MaxGeneration = 3
    Limited = FALSE
    Faults = {}
PROPERTIES
    AcknowledgedStopIsFinal
\* The command ends.
CHECK_DEADLOCK FALSE
