SPECIFICATION RouterSpec
CONSTANTS
    Call = {1, 2, 3}
    MaximumCalls = 2
    TargetAttempts = 1
    KeepsRequest = FALSE
INVARIANTS
    ParentContextFrozen
CHECK_DEADLOCK FALSE
