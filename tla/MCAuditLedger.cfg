SPECIFICATION Spec
SYMMETRY Symmetry
CONSTANTS
    c1 = c1
    c2 = c2
    c3 = c3
    Unread = Unread
    Calls <- MCCalls
    MaxLives = 2
    MaxFailures = 1
INVARIANTS
    ReportedIsRecorded
    CollisionNeedsOverlap
CHECK_DEADLOCK FALSE
