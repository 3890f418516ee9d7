SPECIFICATION Spec
CONSTANTS
    k1 = k1
    k2 = k2
    c1 = c1
    AutoFlush = AutoFlush
    Keys <- MCKeys
    Callers <- MCCallers
    BatchSize = 2
    MaxRetries = 1
    NoHash = NoHash
    EmptyHash = EmptyHash
    Times = {1}
    MaxSequence = 3
    MaxRecords = 3
    MaxLives = 2
INVARIANTS
    NoRecordForgotten
    
PROPERTIES
    QueueDrains
    ImplementsDurableLog
CHECK_DEADLOCK FALSE
