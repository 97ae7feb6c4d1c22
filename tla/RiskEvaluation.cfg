SPECIFICATION Spec
CONSTANTS
    w1 = w1
    w2 = w2
    a1 = a1
    a2 = a2
    t0 = t0
    t1 = t1
    t2 = t2
    v0 = v0
    v1 = v1
    v2 = v2
    NoBook = NoBook
    Admins <- MCAdmins
    Versions <- MCVersions
    InitialVersion = v0
    Books <- MCBooks
    InitialBook <- Seeded
    Proposals <- MCProposals
    MaxPosts = 2
    Retention = 13
    OneMinute = 1
    FiveMinutes = 5
    Earlier <- MCEarlier
    Workers <- MCWorkers
    Events <- MCEvents
    Limit1 = 2
    Limit5 = 1
    Findings <- MCFindings
    Models <- MCModels
    MaxStarts = 2
SYMMETRY Interchangeable
INVARIANTS
    TypeOK
    ScoredWithRecordedRules
    WindowsComplete
    ModelOnlyAssists
PROPERTY ServedNeverGoesBack
