SPECIFICATION Spec
CONSTANTS
    c1 = c1
    c2 = c2
    ask1 = ask1
    ask2 = ask2
    Calls <- MCCalls
    Asks <- MCOneAsk
    NoAsk = NoAsk
    Decisions <- MCDecisions
    MaxRepairAttempts = 1
    MaxEvents = 9
    MaxFaults = 1
INVARIANTS
    TypeOK
    OneDriver
    EveryStartHasItsCause
    FailedRepairsBounded
PROPERTIES
    FinalStaysFinal
    CallsEnd
CHECK_DEADLOCK FALSE
