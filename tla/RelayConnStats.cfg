SPECIFICATION Spec
CONSTANTS
    MaxChunks = 2
    IdleTimeout = 1
    TCPSides = {"client", "remote"}
INVARIANT StatsExact
CHECK_DEADLOCK FALSE
