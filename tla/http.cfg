SPECIFICATION Spec
CONSTANTS
    c1 = c1
    c2 = c2
    NoConn = NoConn
    Conn = {c1, c2}
    Setups <- Situations
    MaxFaults = 1
INVARIANTS
    ConnectionsKept
    NoLostWake
PROPERTIES
    PublishedWins
    ConnectionsEnd
CHECK_DEADLOCK FALSE
