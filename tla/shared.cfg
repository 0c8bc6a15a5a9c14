SPECIFICATION Spec
CONSTANTS
    Threads = {x1, x2, x3}
    Slots = {s1}
    Bufs = {y1, y2}
    Datas = {d1}
    CRYPTO_REFCOUNT_MAX = 3
    NULL = NULL
    Pair = {y1, y2}
    SessionObjects = {x1, x2, x3}
    Ids = {1, 2, 3}
    Limits = {0, 1}
    FlushEvery = 2
    HEAD = HEAD
    TAIL = TAIL
    Procs = {p1, p2}
    Root = p1
    kReseedInterval = 2
    MaxEntropy = 3
    MaxCalls = 3
    MaxBusy = 2
    MaxEnables = 1
    Users = {x1, x2, x3}
    BlindingIds = {1, 2, 3}
    MAX_BLINDINGS_PER_RSA = 2
    BN_BLINDING_COUNTER = 2
    MaxDraws = 2
    MaxForks = 1
CHECK_DEADLOCK FALSE
INVARIANTS NoUseAfterFree NothingLeaks SessionsExact FactorUsedOnce
PROPERTIES QueueSpec NoRepeatedOutput
SYMMETRY Symmetry
