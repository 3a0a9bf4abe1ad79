\* Two wait windows at a time, one more than are ever meant to be up.
CONSTANTS
    d1 = d1
    d2 = d2
    Dialog = {d1, d2}
SPECIFICATION FairSpec
INVARIANTS
    ConversionSafe
    HiddenAtTheEnd
PROPERTIES
    WindowsEnd
