CONSTANTS
    NumFlows = 2
    Silenced = {}
    Aligned = {2}
    CmdNames <- SegmentCmd
    CmdSpared <- NoCmd
    Calls <- LockSegmentCalls
    Segments <- SegmentKinds
    Names <- MCNames
    Regs = {"r1"}
    Vals = {1, 2}
    None = None
    ClusterMode = TRUE
    PostDelay = FALSE
    MaxSteps = 4
    MaxDepth = 2
SPECIFICATION Spec
INVARIANTS
    LockKept
    ClusterDrivesIpOnly
PROPERTIES
    StopAllHolds
