\* Crashes, failed launches, failed probes, stops and signals within three
\* generations and a restart limit of one per window.
SPECIFICATION Spec
CONSTANTS
    FailureThreshold = 2
    RestartLimit = 1
    RestartWindow = 2
    BaseBackoff = 1
    MaxBackoff = 2
    StartupTimeout = 1
    DrainTimeout = 1
    MaxGeneration = 3
    Limited = TRUE
    Faults = {"launch", "unconfirmed", "io"}
INVARIANTS
    NoOverlap
    IntensityBounded
    UnfinishedReported
PROPERTIES
    SignalEnds
    CrashReplaced
\* The command ends.
CHECK_DEADLOCK FALSE
