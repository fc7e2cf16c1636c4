CONSTANTS
    Stops <- MCStops
    Hubs <- MCHubs
    Above <- MCAbove
    MaxGid = 3
    RingDelay <- MCRingDelay
    StopDelay <- MCStopDelay
    Deskew <- MCDeskew
    PacketSize = 20
    PacketFields <- MCPacketFields
    FieldEnds <- MCFieldEnds
    PacketDefault <- MCPacketDefault
    Strobed = {"DATA"}
    Fields = {"f", "k"}
    Default <- MCDefault
    FieldMax = 1
    Usrops = 2
    ActionAddr = "L"
    DocFields <- MCDocFields
    Lsb <- MCLsb
    Msb <- MCMsb
    ResetOf <- MCResetOf
    Here <- MCHere
    Scopes = {"s1", "s2"}
    CrFields = {"p", "q"}
    CrLsb <- MCCrLsb
    CrMsb <- MCCrMsb
    CrReset <- MCCrReset
    UbpActions <- MCUbpActions
    Ip <- MCIp
    Ubp <- MCUbp
    HasEnable = {"k0", "k1", "k2"}
    Trigger <- MCTrigger
    Rearm = {"c"}
    TapTrigger <- MCTapTrigger
    PinNames = {"pin", "bus"}
    PinWidth <- MCPinWidth
    PathsOf <- MCPathsOf
    Chosen <- MCChosen
    DisableSigs = {"c0.u"}
    Period <- MCPeriod
    PatVecClock = "bclk"
    Names <- MCNames
    Indexed <- MCIndexed
    Actions <- MCActions
    TeConfs <- MCTeConfs
    MaxScript = 3
SPECIFICATION Spec
CHECK_DEADLOCK FALSE
INVARIANTS
    TypeOK
    VerifiedRuns
    WritesReach
    HistoryTrue
    SyncStartsFirst
    LabelsClear
    TemplateDeclares
PROPERTIES
    IncrementalKeeps
    NamedReaches
    FiresNamed
    TimeKept
