CONSTANTS
    p1 = p1
    p2 = p2
    p3 = p3
    Procs = {p1, p2}
    NumDicts = 1
    Entities <- OneEntity
    Wanted <- AllWanted
    Openers = {p1, p2}
    Writers = {p1, p2}
    Compilers = {p1, p2}
    Impatient = {p2}
    None = None
SPECIFICATION Spec
INVARIANTS
    NoLockNoWrite
