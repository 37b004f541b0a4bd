\* Two scopes and two tasks; the inner scope is the body of a try statement
\* with a finally block.
SPECIFICATION FairSpec
CONSTANTS
    Child = {c1, c2}
    Depth = 2
    Movable = {c1}
    Modes <- PlainAndOpaque
    Finally = {1}
    Budget = 1
    Grace = 1
    HandlerDeadline = 2
    MaxTime = 2
INVARIANTS
    NormalParentNotCancelled
    SuccessMeansSettled
    OwnedTasksAsked
PROPERTIES
    CauseKept
    BudgetShared
    ExitEnds
CHECK_DEADLOCK FALSE
