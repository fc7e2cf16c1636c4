\* Three invocations that share a checkpoint, one key of each kind; users may
\* stop calling the executer, so the end of the bound is no deadlock.
CONSTANTS
    Keys = {lock, stf, result}
    RunOnly = {lock}
    Results = {result}
    Confs <- MCConfs
    MaxInv = 3
    None = None
    Torn = Torn
    lock = lock
    stf = stf
    result = result
SPECIFICATION Spec
CHECK_DEADLOCK FALSE
INVARIANTS
    FlowOneDeletes
