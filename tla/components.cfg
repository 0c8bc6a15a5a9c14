SPECIFICATION Spec
CONSTANTS
    kWindowSize = 3
    kMaxSequence = 10
    Step = 8
    BitsPerByte = 4
    MaxMessageBits = 9
    SSL_MAX_HANDSHAKE_FLIGHT = 2
    MaxSeq = 4
    MaxLen = 2
    Types = {T}
    Values = {v1, v2}
    Uninit = Uninit
    Bytes = {0, 1}
    Size1 = 3
    Size2 = 1
    MaxCall = 2
    ERR_NUM_ERRORS = 3
    Codes = {1, 2}
    Strings = {1, 2}
    Elements = {1, 2, 3, 4}
    kMinSize = 2
    MaxNum = 5
    Keys = {0, 1, 2}
    kMinNumBuckets = 1
    kMaxAverageChainLength = 1
    kMinAverageChainLength = 1
    Radix = 8
    MaxLenBytes = 2
    Capacities = {8}
    HeapLimits = {10, 40}
    MaxDepth = 2
    M = 4
    PerMs = 2
    Slack = 2
    Max64 = 15
    TvSecMax = 2
    MaxDuration = 7
    Durations = {1, 3, 6}
    Clocks = {1, 6, 7, 61}
    MaxBits = 6
    Pow <- MCPow
    Widths = {2, 4, 6}
    Threads = {x1, x2}
    Interval = 2
    MaxTime = 6
    MaxKeys = 3
CHECK_DEADLOCK FALSE
INVARIANTS NoReplay DiscardJustified BitmapExact CompleteIsWritten StringsOwned TableExact BuilderExact InverseRight NoInverseRight TicketLifetime
PROPERTIES CompleteIsStable StreamSpec LogSpec FindsFirst TimersExact
