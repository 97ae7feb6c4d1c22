SPECIFICATION LiveSpec
CONSTANTS
    d1 = d1
    d2 = d2
    d3 = d3
    t1 = t1
    t2 = t2
    a1 = a1
    a2 = a2
    Events = {d1, d2, d3}
    Transactions = {t1, t2}
    Accounts = {a1, a2}
    Log <- DecisionLog
    TxOf <- DecisionTxOf
    AccountOf <- DecisionAccountOf
    Seeded = {a2}
    Alerting = {d1, d2}
    Nobody = Nobody
    MaxAttempts = 2
    MaxFaults = 2
INVARIANTS
    TypeOK
    OncePerEvent
    CasePerTransaction
    AlertAfterCase
    CompletedIsDone
PROPERTIES
    TopicDrains
    FaultFreeCompletes
