SPECIFICATION FairSpec
CONSTANTS
    MaxChunks = 2
    IdleTimeout = 1
    TCPSides = {"remote"}
INVARIANTS TypeOK StatsNeverOvercount
PROPERTIES ImplementsPipe TransportReturns
CHECK_DEADLOCK FALSE
