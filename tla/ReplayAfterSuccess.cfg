SPECIFICATION Spec
CONSTANTS
    Execution = {e1}
    Owner = {o1}
    Key = {}
    NoKey = NoKey
    Hash = {h1}
    Task = {}
    AttemptLimit = 2
    Instance = {i1}
    Scenarios <- ImmediateOnly
    MaxRevision = 6
PROPERTIES
    NoReplayAfterSuccess
CHECK_DEADLOCK FALSE
