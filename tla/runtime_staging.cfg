CONSTANTS
  Handlers = {"a", "b"}
  None = None
  MaxInstalls = 2
  MaxFaults = 2
SPECIFICATION Spec
INVARIANTS
  TypeOK
  CurrentIsComplete
  BinaryFits
PROPERTIES
  EnsureEnds
