SPECIFICATION Spec
CONSTANTS
    Label = {"raw", "ws"}
    RawLabel = {"raw"}
    Configs <- MCConfigs
    NoServer = {8}
    NoClient = {9}
    Files <- RetryFiles
    Invalid <- MCInvalid
    Garbled = {}
    FromHTTP = FALSE
    Start <- First
    MaxEdits = 1
    MaxWeb = 1
    MaxRelays = 2
INVARIANT FailedLoadHarmless
CHECK_DEADLOCK FALSE
