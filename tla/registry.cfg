\* Two threads, two versions, one disaster.
SPECIFICATION FairSpec
CONSTANTS
    Worker = {w1, w2}
    Version = {v1, v2}
    Bounds <- OneDisaster
INVARIANTS
    IndexTrue
    StorageSafe
    AuditAccepts
PROPERTIES
    ComesBack
CHECK_DEADLOCK FALSE
