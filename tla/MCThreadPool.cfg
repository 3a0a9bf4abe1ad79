\* Two clients, two threads, two work objects, three instances, and malloc may
\* fail: safety, and that what is submitted runs.
CONSTANTS
    w1 = w1
    w2 = w2
    c1 = c1
    c2 = c2
    k1 = k1
    k2 = k2
    i1 = i1
    i2 = i2
    i3 = i3
    Worker = {w1, w2}
    Initial = {w1}
    Client = {c1, c2}
    Work = {k1, k2}
    Inst = {i1, i2, i3}
    None = None
    OutOfMemory = TRUE
    MaxOwed = 2
SPECIFICATION FairSpec
INVARIANTS
    CountIsOutstanding
    NoUseAfterFree
    WaitMeansDone
PROPERTIES
    SubmittedRuns
    WaitEnds
    CloseEnds
\* A freed pool is never used again.
CHECK_DEADLOCK FALSE
