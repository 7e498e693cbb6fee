SPECIFICATION FairSpec
CONSTANTS
  Devices = {1, 2}
  Operations = {1, 2}
  SingleSimulator = TRUE
  ByHandDuring = FALSE
  MaxLaunches = 4
  MaxActs = 2
INVARIANTS TypeOK SessionTrue
PROPERTIES OnlyOwnSimulator ConnectRecovers CleanupSparesBridge OperationsEnd
