SPECIFICATION Spec
CONSTANTS
  p1 = p1  p2 = p2
  a = a  a2 = a2  b = b  bad = bad
  None = None
  Texts = {a, b}
  Progs = {p1, p2}
  Metas = {"icon"}
  CompilerMeta = "icon"
  IDs = {"w1"}
  Compile <- MCCompile
  Decompile <- MCDecompile
  Acts = {"toggle", "name"}
  TypingDuringRun = TRUE
  HostEditsDuringRun = FALSE
  LegacyLink = FALSE
  MaxEdits = 2
  MaxFaults = 0
  MaxQueue = 0
INVARIANT InSyncAgrees
