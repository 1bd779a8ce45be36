SPECIFICATION FairSpec
CONSTANTS
    Req = {"r1", "r2"}
    Logger = {"r1", "r2"}
    Conn = {"r1", "r2"}
    TTL = 1
    MaxTime = 2
    MaxSid = 1
INVARIANTS TypeOK NoWriteAfterDetach
PROPERTIES AdmittedIffLive LogReturns
CHECK_DEADLOCK FALSE
