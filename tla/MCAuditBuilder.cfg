SPECIFICATION Spec
CONSTANTS
    MaxBodyBytes = 3
    Text <- MCText
    Trim <- MCTrim
    Bodies <- MCBodies
    Infos <- MCInfos
    Headers <- MCHeaders
    StatusCodes = {201, 500}
INVARIANTS
    NoPartialObject
    TruncationVisible
    RefFollowsResponse
    StatusReported
    SourceIPsFirstSeen
CHECK_DEADLOCK FALSE
