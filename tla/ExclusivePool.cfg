SPECIFICATION FairSpec
CONSTANTS
    Procs = {p1, p2, p3}
    Identities = {a, b}
    Mutexes = {m1, m2, m3}
    NoProc = NoProc
    NoMutex = NoMutex
INVARIANTS
    IInv
    MutualExclusion
PROPERTIES
    CheckInReturns
    KeyedLockSpec
