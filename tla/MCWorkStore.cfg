SPECIFICATION Spec
CONSTANTS
    i1 = i1
    a1 = a1
    a2 = a2
    c1 = c1
    c2 = c2
    Items <- MCItems
    Attempts <- MCAttempts
    Clients <- MCClients
    None = None
    MaxRevision = 6
SYMMETRY MCSymmetry
INVARIANTS
    TypeOK
    OneActiveAttempt
    CurrentIsTheActiveAttempt
    ReadsStillHold
PROPERTIES
    ImplementsAtomicStore
CHECK_DEADLOCK FALSE
