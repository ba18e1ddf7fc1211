SPECIFICATION Spec
CONSTANTS
    role = role
    need = need
    report = report
    plan = plan
    Role = role
    Need = need
    Report = report
    Plan = plan
    Requests = {role, need, report, plan, r1, r2}
    Seeded <- WithAnalysis
    CVs = {v1, v2}
    Kinds <- AllKinds
SYMMETRY Symmetry
INVARIANTS
    TypeOK
    RowsWired
    PlanComplete
    NeverConflicts
    ReportStays
    RejectedGenerationsExplained
    KnownDeadlocks
CHECK_DEADLOCK FALSE
