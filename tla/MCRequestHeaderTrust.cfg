SPECIFICATION FairSpec
CONSTANTS
    Requests = {r1}
    CAs = {"caA", "caB"}
    ConfigMaps <- MCConfigMaps
    Certs <- MCCerts
    MaxVersions = 3
INVARIANTS
    AcceptedUnderPublishedTrust
    TrustIsKept
PROPERTIES
    GateOpensOnUsableTrust
    StartupEnds
    AdoptsLatest
CHECK_DEADLOCK FALSE
