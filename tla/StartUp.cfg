CONSTANTS
    None = None
    EnvArgs <- MCEnvArgs
    CfgArgs <- MCCfgArgs
    Clocks = {"clk"}
    Declared <- MCDeclared
    FlowClasses <- MCFlowClasses
    Documents <- MCDocuments
    FunctorValue <- MCFunctors
    Digits = {"0", "1", "2", "3"}
    DigitWords = {"0", "1", "2", "3"}
    LinesPerPart = 2
    SecondLevel = 6
    Heavy = 4
    Starts <- MCStarts
    Texts <- MCTexts
    Signals <- MCSignals
    ProcNum = 2
    LightNum = 1
    MaxKills = 1
SPECIFICATION Spec
INVARIANT CommandLineKept
INVARIANT SecondWalkStable
INVARIANT LargeAsSmall
PROPERTY PartsMerged
