\* As MCRdpSound.cfg, for connections that end anywhere.
CONSTANTS
    w1 = w1
    w2 = w2
    Wave = {w1, w2}
    None = None
    MaxConnections = 2
    MaxQueued = 2
    CutAnywhere = TRUE
SPECIFICATION Spec
INVARIANT
    WaveFollowsInfo
\* After the last connection.
CHECK_DEADLOCK FALSE
