SPECIFICATION FairSpec
CONSTANTS
    Label = {"raw", "ws"}
    RawLabel = {"raw"}
    Configs <- MCConfigs
    NoServer = {8}
    NoClient = {9}
    Files <- MCFiles
    Invalid <- MCInvalid
    Garbled <- MCGarbled
    FromHTTP = TRUE
    Start <- First
    MaxEdits = 1
    MaxWeb = 1
    MaxRelays = 2
INVARIANTS TypeOK SurvivesCalmReloads AppliedWhenCalm
PROPERTIES EventuallyApplied
CHECK_DEADLOCK FALSE
