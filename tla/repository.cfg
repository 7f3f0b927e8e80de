SPECIFICATION Spec
CONSTANTS
    c1 = c1
    c2 = c2
    u1 = u1
    u2 = u2
    k1 = k1
    k2 = k2
    CacheKey = {k1, k2}
    Putter = {u1, u2}
    Length <- TwoLengths
    NoPut = NoPut
    Format = {k1, k2}
    Uploader = {c1, c2}
    MaxAttempt = 2
    MaxArtifacts = 2
    NoFile = NoFile
    Branch = {1, 2}
    Level = {30, 40}
    Rule <- OneRule
    Pusher = {c1, c2}
    Commands <- SomePushes
    MaxPush = 2
    MaxCommit = 3
    MaxRow = 3
    NoPush = NoPush
    Path = {k1, k2}
    Caller = {c1, c2}
    MaxCommits = 3
    NoCall = NoCall
    RowCall = {c1, c2}
    Idle = Idle
    MaxKey = 2
    MaxRows = 2
    OwnerCall = {c1, c2}
    NoRequest = NoRequest
    MaxOwner = 2
    MaxBirth = 2
    MaxOwned = 2
    MaxRowId = 4
    MaxChange = 2
INVARIANTS
    TypeOK
    ArtifactsAreThere
    ChangesAreKept
    KeysAreUnique
    NothingInherited
    WalkIsExact
PROPERTIES
    ServedIsWhole
    RowsAreRepaired
    PushHasPipeline
SYMMETRY Symmetry
CHECK_DEADLOCK FALSE
