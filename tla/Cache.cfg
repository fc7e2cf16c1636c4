CONSTANTS
    p1 = p1
    p2 = p2
    p3 = p3
    Procs = {p1, p2, p3}
    NumDicts = 3
    Entities <- MCEntities
    Wanted <- MCWanted
    Openers = {p1, p2}
    Writers = {p1, p2}
    Compilers = {p1, p2, p3}
    Impatient = {p1}
    None = None
SPECIFICATION FairSpec
INVARIANTS
    TypeOK
    WritersHoldLock
    LoadsWhole
    LocksAreForWriting
PROPERTIES
    ImplementsImageStore
    EveryoneEnds
