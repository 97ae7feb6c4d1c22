SPECIFICATION Spec
CONSTANTS
    p1 = p1
    p2 = p2
    e1 = e1
    e2 = e2
    bad = bad
    worse = worse
    t1 = t1
    t2 = t2
    Workers = {w1, w2}
    Partitions = {p1, p2}
    Events = {e1, e2, bad, worse}
    Transactions = {t1, t2}
    Log <- RetryLog
    TxOf <- RetryTxOf
    Malformed = {bad}
    Invalid = {worse}
    Decisions = {"APPROVE", "BLOCK"}
    Alerting = {"BLOCK"}
    Undecided = Undecided
    NoWorker = NoWorker
    NoMessage = NoMessage
    MaxAttempts = 2
    MaxFaults = 2
SYMMETRY WorkerSymmetry
INVARIANTS
    TypeOK
    ClaimExclusive
    LossNeedsFault
    PoisonNeverClaimed
    OutboxPerEvent
    AnnouncedIsPersisted
    CompletedIsDone
    DecisionHasProvenance
PROPERTIES
    DecisionImmutable
    CommitInOrder
    ImplementsLedger
