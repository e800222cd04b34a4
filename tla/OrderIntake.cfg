SPECIFICATION LiveSpec
CONSTANTS
  Orders = {1}
  Statuses = {"pending", "processing"}
  Hooks = {h1}
  PageSize = 1
  Cap = 1
  Buffer = 2
  MaxTime = 3
  MaxChanges = 1
  MaxFaults = 1
  Env = {"db", "abort", "unkeyed", "expiry", "full", "bulk", "trash", "draft"}
INVARIANT TypeOK
INVARIANT Announced
INVARIANT CreatedOncePerSource
INVARIANT CheckpointSafe
