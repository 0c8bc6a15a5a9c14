SPECIFICATION FairSpec
CONSTANTS
    Capacity = 3
    max_send_fragment = 2
    kMaxEmptyRecords = 1
    kMaxWarningAlerts = 1
    kMaxKeyUpdates = 1
    PartialWrite = {"server"}
    Limits <- MCLiveLimits
PROPERTIES WrittenIsRead CloseIsHeard
CHECK_DEADLOCK FALSE
