SPECIFICATION Spec
CONSTANTS
    u0 = u0
    r1 = r1
    r2 = r2
    r3 = r3
    r4 = r4
    Requests = {u0, r1, r2, r3}
    Seeded <- OneUpload
    Sessions = {s1, s2}
    Faults = {"abort", "replace", "chmod", "unlink", "rollback", "commit", "ack", "refresh", "crash"}
    NoRequest = NoRequest
SYMMETRY Symmetry
INVARIANTS
    TypeOK
    ObjectsAccountedFor
    StagingAccountedFor
    MissingObjectsExplained
    DeletionErases
CHECK_DEADLOCK FALSE
