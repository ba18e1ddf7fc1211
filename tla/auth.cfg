SPECIFICATION FairSpec
CONSTANTS
    t1 = t1
    t2 = t2
    b1 = b1
    b2 = b2
    Tabs = {t1, t2}
    Browsers = {b1, b2}
    Emails = {known, new}
    Known = known
    Seed = seed
    Home = b1
    Placements <- TogetherOrApart
    Expiring = {seed}
    None = none
    PoolSize = 2
    Builds = {TRUE, FALSE}
INVARIANTS
    TypeOK
    RegistrationsExact
    CsrfRefusalsExplained
    SessionsHonoured
    CookiesBacked
    AuditExact
PROPERTIES
    RevocationIsFinal
    TabsAnswered
CHECK_DEADLOCK FALSE
