SPECIFICATION Spec
CONSTANTS
  Nodes = {"t", "d1", "d2"}
  End = "end"
  Trigger = "t"
  Delays = {"d1", "d2"}
  Emails = {}
  Successors <- Waiting
  Workers = {w1, w2}
  MaxSteps = 5
  MaxTries = 2
  MaxStamps = 3
  LastPostpone = 0
  MaxFaults = 1
  Env = {"throw", "stall", "expiry", "crash", "redis"}
SYMMETRY WorkerSymmetry
INVARIANT TypeOK
INVARIANT RepeatsAreFaults
INVARIANT NothingSkipped
PROPERTY DelayHonoured
CHECK_DEADLOCK FALSE
