SPECIFICATION Spec
CONSTANTS
    Job = {1, 2, 3}
    Pipeline = {1, 2}
    Ref <- SameRef
    Def <- Superseded
    ExitCode = {1, 2}
    NoExit = NoExit
    NoExitCode = NoExit
    ByStage = ByStage
    ByStageNeeds = ByStage
    Runner = {1}
    Eligible <- AnyJob
    Ending <- PassOrFail
    Ops <- AllOps
    Split = {}
    Slot = {}
    Idle = Idle
    Lossy = FALSE
    MaxToken = 2
INVARIANTS
    TypeOK
    ResultsAreEarned
    SuccessIsEarned
    FinishedIsStamped
PROPERTIES
    FollowsLedger
CHECK_DEADLOCK FALSE
