SPECIFICATION ResponsesSpec
CONSTANTS
    account = account
    own1 = own1
    own2 = own2
    Request = {r1, r2}
    Key <- AllKeys
    Paths <- TwoPaths
    Proven <- OwnStates
    Transient = 2
    QuotaCap = 3
    Named = {3}
    Horizon = 2
    MaxReports = 3
    Pool = {p1, p2, p3}
    Sparing = {p3}
    ResponsesFrames = 2
    ChatChunks = 3
INVARIANTS
    HistoryInOrder
CHECK_DEADLOCK FALSE
