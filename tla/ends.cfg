SPECIFICATION FairSpec
CONSTANTS
    Job = {1, 2, 3, 4, 5, 6}
    Pipeline = {1}
    Ref <- SameRef
    Def <- Release
    ExitCode = {1, 2}
    NoExit = NoExit
    NoExitCode = NoExit
    ByStage = ByStage
    ByStageNeeds = ByStage
    Runner = {1, 2}
    Eligible <- ByTag
    Ending <- PassOrFail
    Ops = {"update", "promote"}
    Split = {}
    Slot = {}
    Idle = Idle
    Lossy = FALSE
    MaxToken = 2
INVARIANTS
    RanInOrder
    WaitingHasAReason
    OnFailureIsSettled
PROPERTIES
    PipelineEnds
CHECK_DEADLOCK FALSE
