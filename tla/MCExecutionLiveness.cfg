SPECIFICATION FairSpec
CONSTANTS
    i1 = i1
    a1 = a1
    a2 = a2
    h1 = h1
    h2 = h2
    r1 = r1
    v1 = v1
    v2 = v2
    Items <- MCItems
    Attempts <- MCAttempts
    Hosts <- MCHosts
    Resumers <- MCResumers
    Verifiers <- MCNobody
    None = None
    PollBatchSize = 5
    MaxRevision = 11
    MaxFaults = 0
    MaxVerdicts = 2
PROPERTIES
    LateWriterCannotSettle
    InFlightSettles
    ReadyIsPickedUp
CHECK_DEADLOCK FALSE
