SPECIFICATION Spec
CONSTANTS
    Procs = {p1, p2}
    b1 = b1
    m1 = m1
    m2 = m2
    Tags = {t1}
    Blobs = {b1}
    Manifests = {m1, m2}
    Refs <- ImageAndIndex
    MaxEvents = 1
    Elsewhere = Elsewhere
    NoTag = NoTag
    NoDigest = NoDigest
SYMMETRY Symmetry
INVARIANTS
    TaggedImageComplete
    AckedStays
PROPERTIES
    PullNeverIncomplete
