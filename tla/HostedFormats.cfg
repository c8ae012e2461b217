SPECIFICATION Spec
CONSTANTS
    Procs = {p1, p2}
    n1 = n1
    n2 = n2
    v1 = v1
    v2 = v2
    x = x
    y = y
    bad = bad
    Repos <- AllRepos
    Names = {n1, n2}
    Vers = {v1, v2}
    VerOf <- Versions
    Bodies <- Sent
    Malformed = {bad}
    DefaultName = n1
    Pom = n1
    Nupkg = n1
    Nuspec = n2
    MaxEvents = 1
    None = None
SYMMETRY Symmetry
VIEW View
INVARIANTS
    AckedFileStays
    NoOrphanVersion
    ListedIsDescribed
    OneRepositoryKey
    TagResolves
    PomDescribesVersion
