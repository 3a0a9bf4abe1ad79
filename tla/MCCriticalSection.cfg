\* Three threads, nesting of two, spinning once or not at all.
CONSTANTS
    Thread = {t1, t2, t3}
    t1 = t1
    t2 = t2
    t3 = t3
    NoThread = NoThread
    SpinCounts = {0, 1}
    MaxDepth = 2
    Interrupts = FALSE
SPECIFICATION FairSpec
INVARIANTS
    CountInv
    FieldsMatchCalls
PROPERTIES
    NoOvertaking
    NoLostWakeup
    ImplementsMutex
