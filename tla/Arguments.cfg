\* Any five calls of a container with two names.
CONSTANTS
    Names = {"number", "flag"}
    Types <- MCTypes
    Obligatory = {"number"}
    Width = 5
    Inputs <- MCInputs
    DeclaredOnly = FALSE
    MaxCalls = 5
SPECIFICATION Spec
CHECK_DEADLOCK FALSE
INVARIANTS
    TypeOK
    LastWriteWins
    ObligatoryHasValue
