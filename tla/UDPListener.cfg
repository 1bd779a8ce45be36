SPECIFICATION FairSpec
CONSTANTS
    Addr = {a1, a2}
    Cap = 1
    MaxPackets = 3
INVARIANTS TypeOK SessionsReachable OwnPacketsInOrder
PROPERTIES CloseCompletes
CHECK_DEADLOCK FALSE
