SPECIFICATION FairSpec
CONSTANTS
    Conn = {c1, c2}
    SyncInterval = 15
    RetryMax = 1
    Raw = {"raw"}
    Ws = {"ws"}
    MaxConnection <- Limits
    Blocking = {"raw"}
    EnableUDP = {"raw"}
    MaxTraffic = 1
INVARIANTS TypeOK AccountedOnce ReportsHold NoLeak
PROPERTIES EventuallyReported
CHECK_DEADLOCK FALSE
