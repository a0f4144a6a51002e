SPECIFICATION Spec
CONSTANTS
    Inbound <- MCInbound
    Identities <- MCIdentities
    Backends <- MCBackends
    Answers <- MCAnswers
    Byte <- MCByte
    Illegal <- MCIllegal
    Hex <- MCHex
    Lower <- MCLower
INVARIANTS
    BackendDecodesUser
    EndToEndHeadersArrive
    PathsForwardAlike
    TargetKeepsRequest
    ReplyKeepsHeaders
CHECK_DEADLOCK FALSE
