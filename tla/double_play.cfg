SPECIFICATION Spec
CONSTANTS
    Job = {1, 2}
    Pipeline = {1}
    Ref <- SameRef
    Def <- OneManual
    ExitCode = {1, 2}
    NoExit = NoExit
    NoExitCode = NoExit
    ByStage = ByStage
    ByStageNeeds = ByStage
    Runner = {1}
    Eligible <- AnyJob
    Ending <- PassOrFail
    Ops = {"play", "update"}
    Split = {"play"}
    Slot = {1, 2}
    Idle = Idle
    Lossy = FALSE
    MaxToken = 2
INVARIANTS
    PendingIsFresh
CHECK_DEADLOCK FALSE
