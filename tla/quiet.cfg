SPECIFICATION Spec
CONSTANTS
  p1 = p1  p2 = p2
  a = a  a2 = a2  b = b  bad = bad
  None = None
  Texts = {a, a2, b, bad}
  Progs = {p1, p2}
  Metas = {"icon", "red"}
  CompilerMeta = "icon"
  IDs = {"w1"}
  Compile <- MCCompile
  Decompile <- MCDecompile
  Acts = {"sync", "name", "create", "unlink", "shortcuts", "compare", "dismiss"}
  TypingDuringRun = FALSE
  HostEditsDuringRun = FALSE
  LegacyLink = FALSE
  MaxEdits = 3
  MaxFaults = 0
  MaxQueue = 0
INVARIANTS TypeOK InSyncAgrees
PROPERTY SyncsBothWays
