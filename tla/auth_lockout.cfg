SPECIFICATION Spec
CONSTANTS
    t1 = t1
    t2 = t2
    b1 = b1
    b2 = b2
    Tabs = {t1, t2}
    Browsers = {b1, b2}
    Emails = {known, new}
    Known = known
    Seed = seed
    None = none
    Home = b1
    Placements <- TogetherOrApart
    Expiring = {}
    PoolSize = 2
    Builds = {FALSE}
INVARIANT BootstrapIssuesToken
CHECK_DEADLOCK FALSE
