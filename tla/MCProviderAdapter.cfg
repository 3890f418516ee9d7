SPECIFICATION AdapterSpec
CONSTANTS
    NoContent = NoContent
    Contents <- MCContents
    MaxRetries = 3
INVARIANTS
    AdapterTypeOK
    ToolsAreNotRetried
    CompletedDidEverything
    CompletedIsReadWhole
PROPERTIES
    AbortStopsRequests
    RunEnds
CHECK_DEADLOCK FALSE
