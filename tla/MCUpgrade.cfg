SPECIFICATION Spec
CONSTANTS
    Inbound <- MCInbound
    Identities <- MCIdentities
    Backends <- MCBackends
    Answers <- MCAnswers
    Byte <- MCByte
    Illegal <- MCIllegal
    Hex <- MCHex
    Lower <- MCLower
INVARIANT
    UpgradeReachesBackend
CHECK_DEADLOCK FALSE
