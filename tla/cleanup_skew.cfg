SPECIFICATION Spec
CONSTANTS
    Job = {1, 2, 3}
    Pipeline = {1}
    Ref <- SameRef
    Def <- TwoThenCleanup
    ExitCode = {1, 2}
    NoExit = NoExit
    NoExitCode = NoExit
    ByStage = ByStage
    ByStageNeeds = ByStage
    Runner = {1}
    Eligible <- AnyJob
    Ending <- PassOrFail
    Ops = {"update"}
    Split = {"update"}
    Slot = {1, 2}
    Idle = Idle
    Lossy = FALSE
    MaxToken = 2
INVARIANTS
    OnFailureIsSettled
CHECK_DEADLOCK FALSE
