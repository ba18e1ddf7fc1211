SPECIFICATION Spec
CONSTANTS
    u0 = u0
    r1 = r1
    r2 = r2
    r3 = r3
    r4 = r4
    Requests = {u0, r1, r2}
    Seeded <- OneUpload
    Sessions = {s1, s2}
    Faults = {}
    NoRequest = NoRequest
SYMMETRY Symmetry
INVARIANTS
    RowsKeepObjects
CHECK_DEADLOCK FALSE
