SPECIFICATION ConnectionsSpec
CONSTANTS
    Client = Client
    Server = Server
    SSL_MAX_HANDSHAKE_FLIGHT = 7
    DTLS_MAX_EXTRA_WRITE_EPOCHS = 2
    DTLS_MAX_ACK_BUFFER = 4
    DTLS1_MAX_TIMEOUTS = 12
    DTLS1_HM_HEADER_LENGTH = 1
    RecordOverhead = 1
    Mtu = 6
    MaxAcksPerRecord = 3
    ServerFlight <- FragmentedFlight
    ClientFlight <- FinishedOnly
    NumTickets = 1
    HelloLen = 1
    RequestTypes = {"KU", "KU requested"}
    MaxLoss = 1
    MaxDup = 1
    MaxEarlyTimeouts = 1
    MaxBioFailures = 0
    MaxKeyUpdates = 2
    MaxAppData = 1
    MaxExpiry = 1
    Capacity = 3
    max_send_fragment = 2
    kMaxEmptyRecords = 1
    kMaxWarningAlerts = 1
    kMaxKeyUpdates = 1
    PartialWrite = {"server"}
    Limits <- MCLimits
CHECK_DEADLOCK FALSE
INVARIANTS NoSpuriousFailure AckedIsReceived EpochsAgree NothingStalls WritesAccounted FailureJustified AlertIsLast
PROPERTIES NothingForgotten AppDataReadable StreamPromise
