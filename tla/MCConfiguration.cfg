SPECIFICATION Spec
CONSTANTS
    Flags <- MCFlags
    Schemes = {"http", "https", "ftp"}
    Modes = {"requestheader", "impersonation", "token"}
INVARIANTS
    NoFlagIgnored
    BackendTrustDecided
CHECK_DEADLOCK FALSE
