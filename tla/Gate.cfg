SPECIFICATION Spec
CONSTANTS
    Procs = {p1, p2}
    t1 = t1
    t2 = t2
    root = root
    ann = ann
    lib = lib
    app = app
    deb = deb
    gem = gem
    v1 = v1
    v2 = v2
    mit = mit
    Users = {root, ann}
    Tenants = {t1, t2}
    Admins = {root}
    DefaultTenant = t1
    DefaultPublic = FALSE
    BootstrapAdmin = root
    RuleIds = {1, 2, 3, 4}
    TokenIds = {1, 2, 3, 4}
    AuditReads = {t2}
    RetentionOf <- Retentions
    SystemRetention = 2
    Subjects <- SomeSubjects
    QueueCap = 1
    Interval = 1
    Scenarios <- Some
    Anonymous = Anonymous
    None = None
    BadConfig = BadConfig
SYMMETRY Symmetry
INVARIANTS
    AuditAccounted
    UpsertStands
    CascadeDecides
    RulesFresh
    GrantedOnGrounds
CHECK_DEADLOCK FALSE
