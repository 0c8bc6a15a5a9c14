SPECIFICATION ReassemblySpec
CONSTANTS
    kWindowSize = 3
    kMaxSequence = 10
    Step = 8
    BitsPerByte = 4
    MaxMessageBits = 11
    SSL_MAX_HANDSHAKE_FLIGHT = 3
    MaxSeq = 4
    MaxLen = 2
    Types = {T}
    Values = {v1, v2}
    Uninit = Uninit
CHECK_DEADLOCK FALSE
INVARIANT FutureIgnored
