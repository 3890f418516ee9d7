SPECIFICATION Spec
CONSTANTS
    c1 = c1
    c2 = c2
    f1 = f1
    Calls <- MCCalls
    NoCall = NoCall
    Requests <- MCRequests
    Offers <- MCOffers
    Scopes <- MCScopes
    InitialGate = "OWNER_PLAN_REVIEW"
    MaxGrants = 3
SYMMETRY MCSymmetry
INVARIANTS
    GrantUsedOnce
    SensitiveActionsAreBacked
    GitIsGitInTheShell
CHECK_DEADLOCK FALSE
