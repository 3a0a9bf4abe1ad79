\* One channel, used again and again, two messages at most in each use.
CONSTANTS
    c1 = c1
    Channel = {c1}
    MaxMessages = 2
    MaxWire = 2
SPECIFICATION FairSpec
INVARIANTS
    FragmentsTogether
    NoDataAfterClose
    MessagesWhole
    CapabilitiesFirst
    Agreement
PROPERTIES
    DisconnectEnds
\* The end of the connection.
CHECK_DEADLOCK FALSE
