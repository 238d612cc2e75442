SPECIFICATION Spec
CONSTANTS
    Execution = {e1}
    Owner = {o1}
    Key = {}
    NoKey = NoKey
    Hash = {h1}
    Task = {1}
    AttemptLimit = 2
    Instance = {i1, i2}
    Scenarios <- Executions
    MaxRevision = 5
SYMMETRY Symmetry
INVARIANTS
    LogMatchesRecord
    ExclusiveOwner
PROPERTIES
    RetryNotEarly
    TaskOutcomeConfirmed
CHECK_DEADLOCK FALSE
