SPECIFICATION Spec
CONSTANTS
    Callers = {c1, c2}
    t1 = t1
    t2 = t2
    Tenants = {t1, t2}
    index = index
    page = page
    project = project
    wheel = wheel
    pypi = pypi
    home = home
    mirror = mirror
    files = files
    Docs = {index, page, project, wheel}
    Formats = {pypi}
    URLs = {home, mirror, files}
    None = None
    FormatOf <- Format
    Metadata = {index, page, project}
    AbsoluteURL <- Absolute
    SizesOf <- Sizes
    Supported = {pypi}
    DefaultURL <- Default
    Allowed = {home, mirror, files}
    DefaultOff = FALSE
    DefaultTTL = 1
    Rows <- SomeRows
    Scenarios <- Some
    CacheMaxBytes = 2
    MaxBytesPerFetch = 3
    Rpm = 2
    TickSec = 20
    FetchTimeout = 1
    MaxFetches = 3
SYMMETRY Symmetry
INVARIANTS
    CacheBooksBalance
    StaleBounded
    RateBound
    WholeUnlessShared
CHECK_DEADLOCK FALSE
