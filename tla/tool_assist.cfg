CONSTANTS
  Texts = {"t", "u"}
  Validations = {"v", "w"}
  Devices = {"A", "B"}
  Kits = {"k", "l"}
  None = None
  MaxEvents = 3
SPECIFICATION Spec
INVARIANTS
  TypeOK
  StaticProblemsFit
  MetadataFits
  
PROPERTIES
  TypedIsValidated
CHECK_DEADLOCK FALSE
