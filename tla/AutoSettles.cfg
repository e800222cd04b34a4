SPECIFICATION LiveSpec
CONSTANTS
  Nodes = {"t", "e1", "e2"}
  End = "end"
  Trigger = "t"
  Delays = {}
  Emails = {"e1", "e2"}
  Successors <- Straight
  Workers = {w1}
  MaxSteps = 2
  MaxTries = 2
  MaxStamps = 5
  LastPostpone = 3
  MaxFaults = 1
  Env = {"throw", "loss", "postpone", "edit", "flow", "evict", "cancel"}
PROPERTY EventuallySettles
PROPERTY OverIsOver
