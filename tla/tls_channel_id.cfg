\* Channel ID and client certificates in TLS 1.2
SPECIFICATION Spec
CONSTANTS
    Configs <- MCChannelIDConfigs
    kMaxRetries = 1
    MaxEarlyData = 1
    kMaxEarlyDataSkipped = 2
    WriteSizes = {1}
    MaxBytes = 2
INVARIANT RequestedIffNoChannelID
CHECK_DEADLOCK FALSE
