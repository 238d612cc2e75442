SPECIFICATION PartsSpec
CONSTANTS
    Execution = {x1, x2}
    Owner = {o1}
    Key = {k1}
    NoKey = NoKey
    Hash = {h1, h2}
    Task = {}
    AttemptLimit = 1
    MaxRevision = 3
    Requests <- KeyedRequests
    Client = {x1, x2}
    Secret = {n1, n2, n3}
    Worker = {n1, n2, n3}
    NoSecret = NoSecret
    MaxVersion = 4
    MaxOther = 1
    MaxDeaths = 1
    Caller = {r1, r2}
    Tries = 2
    ExpiresAt = 3
    LastMoment = 3
    MaxUpdates = 5
    Policies <- SomePolicies
    CycleLimit = 3
    Retention = 8
    Hints = {2, 6}
    RetryHorizon = 9
    TTL = 2
    Readings = {0, 1, 2, 3}
    ClockHorizon = 9
    Call = {1, 2, 3}
    MaximumCalls = 2
    TargetAttempts = 1
    KeepsRequest = TRUE
SYMMETRY Symmetry
INVARIANTS
    OneExecutionPerKey
    NoDanglingReference
    NoOrphanSecrets
    ReadFailsOnlyWhenReplaced
    UsesAreRecorded
    RetryWithinBounds
    HolderOwnsRow
    ReplayStable
    ResultsWithinBudgets
PROPERTIES
    NoLostUpdate
    NoLostCommit
    RevocationStands
CHECK_DEADLOCK FALSE
