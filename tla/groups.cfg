SPECIFICATION Spec
CONSTANTS
    Job = {1, 2}
    Pipeline = {1}
    Ref <- SameRef
    Def <- TwoOfOneGroup
    ExitCode = {1, 2}
    NoExit = NoExit
    NoExitCode = NoExit
    ByStage = ByStage
    ByStageNeeds = ByStage
    Runner = {1}
    Eligible <- AnyJob
    Ending <- PassOrFail
    Ops = {"update", "retry", "requeue", "retry_pipeline"}
    Split = {"retry", "retry_pipeline"}
    Slot = {1, 2}
    Idle = Idle
    Lossy = TRUE
    MaxToken = 2
INVARIANTS
    PendingIsFresh
    RunningIsHanded
    AutoRetryBudget
    GroupIsSerialized
CHECK_DEADLOCK FALSE
