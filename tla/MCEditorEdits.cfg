SPECIFICATION Spec
CONSTANTS
  NoLoader = NoLoader
  Loaders = {l1}
  MaxSessions = 2
  Elevations = {TRUE, FALSE}
  EditParts = {"main", "fs", "reg"}
  ExtraOps = {"export", "swap"}
INVARIANTS
  UnsavedWorkIsFlagged
PROPERTIES
  NoSilentDiscard
  UIReturns
