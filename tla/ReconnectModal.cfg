SPECIFICATION LiveSpec
CONSTANTS
    c1 = c1
    c2 = c2
    Calls <- MCCalls
    MaxLosses = 3
INVARIANTS
    TypeOK
    DialogShowsOutage
    FailedKeepsListening
PROPERTIES
    ReloadOnlyOnRefusal
    SessionComesBack
