SPECIFICATION Spec
CONSTANTS
    A = A
    B = B
    CiProject = {A, B}
    Creator = {c1, c2}
    MaxRequested = 2
    MaxPipelines = 4
    Interruptible = TRUE
    Schedule = {1, 2}
    Limit = 2
    MaxWait = 2
    Nothing = Nothing
    CiFile = {"main", "x", "y"}
    Name = {"build", "test", ".base"}
    Hidden = {".base"}
    Unset = Unset
    Rejected = Rejected
    IncludeLimit = 2
    ExtendsLimit = 2
    Documents <- MCDocuments
    Path = {A, B}
    NoUrl = NoUrl
    NoDir = NoDir
    NoImport = NoImport
    MaxImport = 2
    MaxFound = 2
INVARIANTS
    TypeOK
    IidsAreDense
    CommittedIsWhole
    BridgesAgree
    DeadlockIsInOneStage
    InheritedIsNearest
    ImportsAreAccounted
PROPERTIES
    CreationEnds
    OneRunPerDueTime
    DueIsServed
CHECK_DEADLOCK FALSE
