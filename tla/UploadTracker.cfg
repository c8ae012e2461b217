SPECIFICATION FairSpec
CONSTANTS
    Procs = {p1, p2}
    Sessions = {s1}
    Chunks = {a}
    MaxLen = 2
    Earlier <- OneChunk
    NoDigest = NoDigest
    NoChunk = NoChunk
    NoSession = NoSession
    Garbled = Garbled
    NoBlob = NoBlob
INVARIANTS
    StoredBytesUnlessSpoiled
    SingleOwner
    NoLeakedStaging
PROPERTIES
    IdleStagingDrains
