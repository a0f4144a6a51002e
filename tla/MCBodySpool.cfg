SPECIFICATION Spec
CONSTANTS
    Byte <- MCByte
    Bodies <- MCBodies
    MaxCapture = 3
    BufferSize = 2
INVARIANTS
    CapturedIsPrefix
    TruncatedIsExact
    CopyIsFaithful
    NoFileLeftBehind
