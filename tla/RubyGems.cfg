SPECIFICATION Spec
CONSTANTS
    Procs = {p1, p2}
    f1 = f1
    v1 = v1
    x = x
    y = y
    Vers = {v1}
    Files = {f1}
    VerOf <- OneFile
    Contents = {x, y}
    LicenseOf <- OneLicensed
    Young = {v1}
    Rules <- AllRules
    Licenses = {}
    Env = {"upstream", "mode", "delete", "flip", "quarantine", "fail", "crash"}
    MaxEvents = 1
    NoFile = NoFile
    NoContent = NoContent
SYMMETRY Symmetry
INVARIANTS
    GemVerified
    YoungNeverServed
PROPERTIES
    YankedNotReplaced
