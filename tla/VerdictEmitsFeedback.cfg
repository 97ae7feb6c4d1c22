SPECIFICATION Spec
CONSTANTS
    r1 = r1
    r2 = r2
    g1 = g1
    Requests <- MCOneRequest
    Pages <- MCPages
    MaxMoves = 2
    MaxFaults = 0
INVARIANT VerdictEmitsFeedback
