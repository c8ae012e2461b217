SPECIFICATION Spec
CONSTANTS
    Procs = {p1, p2}
    f1 = f1
    f2 = f2
    v1 = v1
    v2 = v2
    x = x
    y = y
    Vers = {v1}
    Files = {f1}
    VerOf <- OneFile
    Contents = {x, y}
    Young = {v1}
    Rules <- AllRules
    Licenses = {"none", "bad"}
    Env = {"upstream", "delete", "fail"}
    MaxEvents = 1
    NoFile = NoFile
    NoContent = NoContent
SYMMETRY Symmetry
INVARIANTS
    UpstreamBytesVerified
    YoungNeverServed
    MirroredUnlessOverlap
