SPECIFICATION FairSpec
CONSTANTS
    Procs = {p1, p2}
    f1 = f1
    f2 = f2
    v1 = v1
    v2 = v2
    x = x
    y = y
    Vers = {v1}
    Files = {f1}
    VerOf <- OneFile
    Contents = {x}
    Young = {}
    Rules <- ReleasedRules
    Licenses = {"none"}
    Env = {"rule", "mode", "upstream", "delete", "quarantine", "fail", "crash"}
    MaxEvents = 1
    NoFile = NoFile
    NoContent = NoContent
PROPERTIES
    GateIsNextRead
    Heals
