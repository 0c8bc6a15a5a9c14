SPECIFICATION FinishedSpec
CONSTANTS
    Client = Client
    Server = Server
    SSL_MAX_HANDSHAKE_FLIGHT = 7
    DTLS_MAX_EXTRA_WRITE_EPOCHS = 2
    DTLS_MAX_ACK_BUFFER = 4
    DTLS1_MAX_TIMEOUTS = 12
    DTLS1_HM_HEADER_LENGTH = 1
    RecordOverhead = 1
    Mtu = 6
    MaxAcksPerRecord = 3
    ServerFlight <- ResumptionFlight
    ClientFlight <- FinishedOnly
    NumTickets = 0
    HelloLen = 1
    RequestTypes = {"KU", "KU requested"}
    MaxLoss = 0
    MaxDup = 0
    MaxEarlyTimeouts = 0
    MaxBioFailures = 0
    MaxKeyUpdates = 2
    MaxAppData = 0
    MaxExpiry = 0
CHECK_DEADLOCK FALSE
PROPERTY QueuedStays
