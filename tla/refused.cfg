\* A process death and later a power loss.
SPECIFICATION Spec
CONSTANTS
    Worker = {w1, w2}
    Version = {v1, v2}
    Bounds <- TwoDisasters
INVARIANTS
    AuditAccepts
CHECK_DEADLOCK FALSE
