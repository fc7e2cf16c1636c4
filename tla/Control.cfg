CONSTANTS
    NumFlows = 2
    Silenced = {2}
    Aligned = {1, 2}
    CmdNames <- ControlCmd
    CmdSpared <- ControlSpared
    Calls <- ControlCalls
    Segments <- ControlSegments
    Names <- MCNames
    Regs = {"r1"}
    Vals = {1}
    None = None
    ClusterMode = FALSE
    PostDelay = TRUE
    MaxSteps = 4
    MaxDepth = 3
SPECIFICATION FairSpec
INVARIANTS
    TypeOK
    VerificationDrivesNothing
    SilentBetweenActions
    TyposFoundBeforeRun
    InvalidNeverDriven
    RunStartsUnstopped
PROPERTIES
    StopFlowDrains
    ImplementsTwoPass
    ErrorsFail
