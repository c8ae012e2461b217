SPECIFICATION Spec
CONSTANTS
    Procs = {p1, p2}
    Conns = {c1, c2}
    a = a
    b = b
    v1 = v1
    f = f
    g = g
    x = x
    y = y
    Names = {a, b}
    Vers = {v1}
    FileNames = {f, g}
    Shas = {x, y}
    Requests <- MixedRequests
    MaxRequests = 2
SYMMETRY Symmetry
CHECK_DEADLOCK FALSE
INVARIANTS
    IInv
    BlobBytesStored
    FileRowsResolve
    SentUnlessLostRace
