\* Every configuration: versions, resumption, early data, client certificates
SPECIFICATION FairSpec
CONSTANTS
    Configs <- MCConfigs
    kMaxRetries = 1
    MaxEarlyData = 1
    kMaxEarlyDataSkipped = 2
    WriteSizes = {1}
    MaxBytes = 2
INVARIANTS NoSpuriousFailure Agreement Authenticated DataExact
PROPERTIES NoncesFresh HandshakeCompletes
CHECK_DEADLOCK FALSE
