SPECIFICATION Spec
CONSTANTS
    r1 = r1
    r2 = r2
    Requests <- MCRequests
    Inbound <- MCInbound
    BackendStatus = {201, 409}
    RequiresVerified = TRUE
SYMMETRY Symmetry
INVARIANTS
    EventTruthful
    RelayedIsAudited
    TempFilesOwned
    TelemetryTruthful
PROPERTIES
    AnsweredOnce
    ImplementsTrail
CHECK_DEADLOCK FALSE
