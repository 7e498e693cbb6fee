SPECIFICATION FairSpec
CONSTANTS
  Docs = {d1, d2}
  Keys <- MCKeys
  OwnKey <- MCOwnKey
  WorkflowKey <- MCWorkflowKey
  MaxRuns = 3
INVARIANTS OneRunPerKey InOrder Registered
PROPERTIES EveryRunSettles ExecutesSerially
CHECK_DEADLOCK FALSE
