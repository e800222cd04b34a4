SPECIFICATION LiveSpec
CONSTANTS
  Orders = {1, 2}
  Statuses = {"pending", "processing"}
  Hooks = {}
  PageSize = 1
  Cap = 1
  Buffer = 2
  MaxTime = 3
  MaxChanges = 1
  MaxFaults = 1
  Env = {"db", "abort", "full", "bulk", "trash"}
PROPERTY DeletesOnlyGone
PROPERTY Converges
