\* Two-byte writes across a rejection of early data
SPECIFICATION Spec
CONSTANTS
    Configs <- MCRejectConfigs
    kMaxRetries = 1
    MaxEarlyData = 1
    kMaxEarlyDataSkipped = 2
    WriteSizes = {2}
    MaxBytes = 2
INVARIANT FreshAfterReset
CHECK_DEADLOCK FALSE
