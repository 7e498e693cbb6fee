SPECIFICATION FairSpec
CONSTANTS
  p1 = p1  p2 = p2
  a = a  a2 = a2  b = b  bad = bad
  None = None
  Texts = {a, b}
  Progs = {p1, p2}
  Metas = {"icon"}
  CompilerMeta = "icon"
  IDs = {"w1"}
  Compile <- MCCompile
  Decompile <- MCDecompile
  Acts = {"toggle", "connect", "disconnect"}
  TypingDuringRun = TRUE
  HostEditsDuringRun = TRUE
  LegacyLink = FALSE
  MaxEdits = 1
  MaxFaults = 1
  MaxQueue = 0
INVARIANT DecidesOnCurrentLink
PROPERTIES LiveSyncSettles DisconnectPauses
