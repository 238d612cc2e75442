SPECIFICATION PartsSpec
CONSTANTS
    image = image
    file = file
    Resource <- AllResources
    Media <- MediaResources
    Lasting = {image}
    Handled = {file}
    Size <- Sizes
    Quota = 4
    Call = {c1, c2}
    Upload = {1, 2}
    a = a
    b = b
    fa = fa
    ra = ra
    ea = ea
    xb = xb
    da = da
    None = None
    Credential = {a, b}
    Held = {a}
    Refresh = {fa}
    Rotation = {ra}
    Supplied = {}
    Edit = {ea}
    Attachment = {xb}
    Deletion = {da}
    Target <- Targets
SYMMETRY Symmetry
INVARIANTS
    ReusableBindingsWork
    CleanupCanResume
    NothingOrphaned
    BindingsHaveCredentials
    
PROPERTIES
    ImplementsContract
    OthersKept
CHECK_DEADLOCK FALSE
