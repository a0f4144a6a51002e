SPECIFICATION FairSpec
CONSTANTS
    r1 = r1
    r2 = r2
    Requests <- OneRequest
    Inbound <- EveryInbound
    BackendStatus = {201, 409}
    RequiresVerified = FALSE
PROPERTIES
    CancelReleasesHandler
    AuditSettles
CHECK_DEADLOCK FALSE
