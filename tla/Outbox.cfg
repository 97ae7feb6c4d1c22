SPECIFICATION LiveSpec
CONSTANTS
    p1 = p1
    p2 = p2
    Producers <- MCProducers
    Dispatchers = {d1, d2}
    RowsPer <- MCRowsPer
    BatchSize = 2
    MaxFaults = 2
INVARIANTS
    TypeOK
    MarkedIsDelivered
    FirstCopiesInOrder
    CopiesBounded
PROPERTY AllDispatched
