SPECIFICATION WsSpec
CONSTANTS
    Relay = {"in", "mid"}
    WsSides <- MCWsSides
    Sniffing = {"in", "mid"}
    Scripts <- MCScripts
    PoolSize = 4
INVARIANTS WsTypeOK BuffersExclusive OwnFramesInOrder
CHECK_DEADLOCK FALSE
