SPECIFICATION Spec
CONSTANTS
  NoLoader = NoLoader
  Loaders = {l1}
  MaxSessions = 1
  Elevations = {TRUE}
  EditParts = {}
  ExtraOps = {"export"}
INVARIANTS
  LoaderFinishedBeforeClose
