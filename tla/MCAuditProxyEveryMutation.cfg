SPECIFICATION Spec
CONSTANTS
    r1 = r1
    r2 = r2
    Requests <- OneRequest
    Inbound <- MCInbound
    BackendStatus = {201}
    RequiresVerified = TRUE
INVARIANT
    EveryMutationAudited
CHECK_DEADLOCK FALSE
