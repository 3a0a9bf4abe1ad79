\* Two users, two consumers; the capacity grows from 1 to 2 and to 4.
CONSTANTS
    u1 = u1
    u2 = u2
    c1 = c1
    c2 = c2
    m1 = m1
    Thread = {u1, u2, c1, c2}
    Consumers = {c1, c2}
    Msg = {m1, Quit}
    Quit = Quit
    NoMsg = NoMsg
    InitialCapacity = 1
    MaxFailures = 1
    MaxSize = 3
SPECIFICATION FairSpec
\* A thread that failed to grow the queue keeps the lock: the others stop.
CHECK_DEADLOCK FALSE
INVARIANTS
    EventSetIffNonEmpty
    NoUnannouncedMessage
PROPERTIES
    ImplementsFifo
    Drained
