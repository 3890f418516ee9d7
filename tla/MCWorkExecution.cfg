SPECIFICATION Spec
CONSTANTS
    i1 = i1
    a1 = a1
    a2 = a2
    h1 = h1
    h2 = h2
    r1 = r1
    v1 = v1
    v2 = v2
    Items <- MCItems
    Attempts <- MCAttempts
    Hosts <- MCOneHost
    Resumers <- MCResumers
    Verifiers <- MCVerifiers
    None = None
    PollBatchSize = 5
    MaxRevision = 11
    MaxFaults = 1
    MaxVerdicts = 1
SYMMETRY MCSymmetry
INVARIANTS
    TypeOK
    VerificationNeedsSuccess
    CompletedIsVerified
CHECK_DEADLOCK FALSE
