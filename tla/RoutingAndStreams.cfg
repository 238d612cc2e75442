SPECIFICATION PartsSpec
CONSTANTS
    account = account
    own1 = own1
    own2 = own2
    Request = {r1, r2}
    Key <- AllKeys
    Paths <- TwoPaths
    Proven <- OwnStates
    Transient = 2
    QuotaCap = 3
    Named = {3}
    Horizon = 2
    MaxReports = 3
    Pool = {p1, p2, p3}
    Sparing = {p3}
    ResponsesFrames = 4
    ChatChunks = 3
SYMMETRY Symmetry
INVARIANTS
    CoolingBounded
    RotationVisitsAll
    ReaderSeesTheResponse
    ItemsAsTold
PROPERTIES
    WholeOutcomes
    OneEscalationPerWindow
    CoolingRespected
    FinalStands
CHECK_DEADLOCK FALSE
