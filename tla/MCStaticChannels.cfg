\* Two plug-ins, three buffers, any number of reconnections; a client whose main
\* thread does everything, and the Android client, with its channel thread and
\* no disconnection before the end.
CONSTANTS
    p1 = p1
    p2 = p2
    b1 = b1
    b2 = b2
    b3 = b3
    Plugin = {p1, p2}
    Write = {b1, b2, b3}
    Main = Main
    Chan = Chan
    Quit = Quit
    None = None
    Clients <- TheClients
SPECIFICATION FairSpec
INVARIANTS
    CompletedBeforeDisconnected
    NothingAfterTerminated
    AllOpenWhenConnected
PROPERTIES
    DisconnectEnds
    CloseEnds
\* The end of the client.
CHECK_DEADLOCK FALSE
