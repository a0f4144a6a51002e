SPECIFICATION Spec
CONSTANTS
    c1 = c1
    c2 = c2
    c3 = c3
    Conns <- MCConns
INVARIANTS
    TrackerFollowsServer
    ScrapeTruthful
PROPERTY
    ImplementsGauge
CHECK_DEADLOCK FALSE
