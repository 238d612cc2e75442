SPECIFICATION FairSpec
CONSTANTS
    Execution = {e1}
    Owner = {o1}
    Key = {}
    NoKey = NoKey
    Hash = {h1}
    Task = {}
    AttemptLimit = 3
    Instance = {i1}
    Scenarios <- Retries
    MaxRevision = 6
INVARIANTS
    DispatchesAccounted
    RetryEndTold
PROPERTIES
    EventuallyTerminal
    ImplementsClients
CHECK_DEADLOCK FALSE
