SPECIFICATION Spec
CONSTANTS
    WorkItems <- MCWorkItems
    Assessed = "w1"
    EvidenceRecords <- MCEvidenceRecords
    VerificationRecords <- MCVerificationRecords
    InitialEvidence <- MCInitialEvidence
    Names <- MCNames
    ItemMoves <- MCItemMoves
    MaxRevision = 2
    MaxUnsound = 1
INVARIANTS
    FailureBlocksCompletion
    CompleteStaysBacked
    EnginesAgree
CHECK_DEADLOCK FALSE
