CONSTANTS
    Cap <- MCCap
    FlushBatch <- MCFlushBatch
    BackoffCap <- MCBackoffCap
    MaxScans = 5
    MaxFaults = 2
    Window = 3
    RetryCap = 12
    ResetAfter = 4
    Settle = 1
    WifiFaults = 3
    Keys = {"ssid", "pass"}
    Secrets = {"pass"}
    Values = {"", "old", "new"}
    Default = ""
    Invalid = "invalid"
    Clear = "null"
    Template = "{{}}"
    Absent = "absent"
    PowerCuts = 2
    Threads = {"reader", "worker"}
    Nobody = "nobody"
    Period = 8
    Horizon = 10
    MaxGap = 3
    MaxBytes = 4
    Sizes = {1, 3}
    LongestLine = 3
    MaxStuck = 1
SPECIFICATION PartSpec
INVARIANTS AllTypesOK ScansInOrder BackoffFresh SettingsHold LogHolds
PROPERTIES OfflineScansKept RadioLeftAlone DeviceReturns
