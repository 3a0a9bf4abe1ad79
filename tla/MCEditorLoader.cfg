SPECIFICATION Spec
CONSTANTS
  NoLoader = NoLoader
  Loaders = {l1, l2}
  MaxSessions = 2
  EditParts = {}
  Elevations = {TRUE}
  ExtraOps = {"drop"}
INVARIANTS
  KeyOfOpenPackage
  SoleLoader
PROPERTIES
  RegistryShown
