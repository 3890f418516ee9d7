SPECIFICATION Spec
CONSTANTS
    a1 = a1
    q1 = q1
    q2 = q2
    q3 = q3
    p1 = p1
    p2 = p2
    ApprovalIds <- MCApprovalIds
    Requests <- MCRequests
    None = None
    GateKinds <- MCGateKinds
    Scopes <- MCScopes
    MaxTime = 1
SYMMETRY MCSymmetry
INVARIANTS
    TypeOK
    UsedOnce
    InTime
    TrailTellsTheStory
PROPERTIES
    FinalStays
CHECK_DEADLOCK FALSE
