SPECIFICATION Spec
CONSTANTS
    Client = {x1}
    Credential = {1, 2}
    MaxChanges = 1
INVARIANTS
    RefusedOnlyAfterDrift
CHECK_DEADLOCK FALSE
