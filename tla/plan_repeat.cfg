SPECIFICATION Spec
CONSTANTS
    role = role
    need = need
    report = report
    plan = plan
    Role = role
    Need = need
    Report = report
    Plan = plan
    Requests = {role, need, report, plan, r1, r2}
    Seeded <- WithPlan
    CVs = {v1, v2}
    Kinds <- Planning
SYMMETRY Symmetry
INVARIANTS
    RepeatedGenerationServed
CHECK_DEADLOCK FALSE
