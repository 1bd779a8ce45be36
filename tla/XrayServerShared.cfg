SPECIFICATION FairSpec
CONSTANTS
    Tag = {"trojan", "vless"}
    Addr = {"a1", "a2"}
    Files <- MCFiles
    StartFile <- MCStart
    Conn = {}
    MaxEdits = 1
PROPERTY ChangeNotMissed
CHECK_DEADLOCK FALSE
