SPECIFICATION FairSpec
CONSTANTS
    Tag = {"trojan", "vless"}
    Addr = {"a1", "a2"}
    Files <- MCFiles
    StartFile <- MCStart
    Conn = {c1}
    MaxEdits = 1
INVARIANTS TypeOK OneInCharge PoolServesInstance StrandedOnlyIfLate
PROPERTIES OldSyncersEnd AppliedOnceDetached
CHECK_DEADLOCK FALSE
