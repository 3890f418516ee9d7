SPECIFICATION Spec
CONSTANTS
    c1 = c1
    c2 = c2
    ask1 = ask1
    ask2 = ask2
    Calls <- MCOneCall
    Asks <- MCOneAsk
    NoAsk = NoAsk
    Decisions <- MCDecisions
    MaxRepairAttempts = 1
    MaxEvents = 12
    MaxFaults = 1
INVARIANTS
    UnsafeOutcomeBlocks
CHECK_DEADLOCK FALSE
