CONSTANTS
  Panels = {"a", "b"}
  Jobs = {"x"}
  Texts <- MCTexts
  Progs <- MCProgs
  Compile <- MCCompile
  Convert <- MCConvert
  OwnKind = "plist"
  Sign = TRUE
  None = None
  MaxEdits = 1
  MaxFaults = 1
SPECIFICATION Spec
INVARIANTS
  TypeOK
  BaselinePairs
  UneditedExact
  KindFits
PROPERTIES
  OnlyAcceptedText
  HandlersEnd

