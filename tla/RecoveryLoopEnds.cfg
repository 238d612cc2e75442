SPECIFICATION Spec
CONSTANTS
    Execution = {e1}
    Owner = {o1}
    Key = {}
    NoKey = NoKey
    Hash = {h1}
    Task = {1}
    AttemptLimit = 2
    Instance = {i1}
    Scenarios <- RetriedTask
    MaxRevision = 6
INVARIANTS
    RecoveryLoopSurvives
CHECK_DEADLOCK FALSE
