\* One editor; a list of three, and four packages to put in it.
CONSTANTS
    e1 = e1
    f1 = f1
    f2 = f2
    f3 = f3
    f4 = f4
    Editor = {e1}
    File = {f1, f2, f3, f4}
    maxItems = 3
    None = None
SPECIFICATION MRUSpec
INVARIANTS
    NeverThrows
PROPERTIES
    ListImplemented
