CONSTANTS
    NumFlows = 1
    Silenced = {}
    Aligned = {1}
    CmdNames <- NoCmd
    CmdSpared <- NoCmd
    Calls <- NestedCalls
    Segments = {}
    Names <- MCNames
    Regs = {"r1"}
    Vals = {1, 2}
    None = None
    ClusterMode = FALSE
    PostDelay = FALSE
    MaxSteps = 4
    MaxDepth = 2
SPECIFICATION Spec
INVARIANTS
    SilentActionDrivesNothing
