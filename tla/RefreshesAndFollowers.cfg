SPECIFICATION PartsSpec
CONSTANTS
    Instance = {i1, i2}
    Worker = {w1, w2}
    Handler = {h1}
    QueueLimit = 1
    Free = Free
    Follower = {f1}
    MaxSaves = 5
    MaxEvents = 4
    MaxBreaks = 1
INVARIANTS
    OneRefresher
    PendingExact
    DeliveredInOrder
PROPERTIES
    AcceptedIsRefreshed
    FollowerSeesTheEnd
CHECK_DEADLOCK FALSE
