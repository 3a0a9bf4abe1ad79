\* Two waves a connection, two connections, each of the three devices.
CONSTANTS
    w1 = w1
    w2 = w2
    Wave = {w1, w2}
    None = None
    MaxConnections = 2
    MaxQueued = 2
    CutAnywhere = FALSE
SPECIFICATION FairSpec
INVARIANTS
    ConfirmedInOrder
PROPERTIES
    WavesConfirmed
    DisconnectEnds
\* After the last connection.
CHECK_DEADLOCK FALSE
