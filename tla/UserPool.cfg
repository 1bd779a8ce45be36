SPECIFICATION FairSpec
CONSTANTS
    Id = {"i1", "i2"}
    Key = {1, 9}
    BadKey = {9}
    Accounts <- MCAccounts
    Start <- MCStart
    proxyTags <- TwoTags
    Conn = {c1}
    MaxEdits = 1
    MaxUsers = 3
    MaxTraffic = 1
INVARIANTS TypeOK RoundReconciles AccessIsMetered TrafficConserved
PROPERTIES KillTakesEffect EventuallyReconciled
CHECK_DEADLOCK FALSE
