SPECIFICATION LiveSpec
CONSTANTS
    r1 = r1
    r2 = r2
    g1 = g1
    Requests <- MCRequests
    Pages <- MCPages
    MaxMoves = 3
    MaxFaults = 1
INVARIANTS
    TypeOK
    FromWasStatus
    StatusIsLastUnlessOverlap
    VerdictIsRecorded
PROPERTY FeedbackFollows
