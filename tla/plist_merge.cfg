SPECIFICATION Spec
CONSTANTS
  Sorts = {"action", "trigger", "plain"}
  Params = {"1", "2"}
  Marks = {"m", "n"}
  MaxItems = 2
  MaxEdits = 2
PROPERTIES PushShowsEditor HostOnlyKept RecompilationKeepsHost
