SPECIFICATION Spec
CONSTANTS
  p1 = p1  p2 = p2
  a = a  a2 = a2  b = b  bad = bad
  None = None
  Texts = {a, b}
  Progs = {p1, p2}
  Metas = {"icon"}
  CompilerMeta = "icon"
  IDs = {"w1"}
  Compile <- MCCompile
  Decompile <- MCDecompile
  Acts = {"sync", "name", "create", "unlink", "editor", "shortcuts", "compare", "dismiss"}
  TypingDuringRun = TRUE
  HostEditsDuringRun = TRUE
  LegacyLink = TRUE
  MaxEdits = 2
  MaxFaults = 1
  MaxQueue = 1
INVARIANTS DecidesOnCurrentLink PauseIsCurrent
