SPECIFICATION LiveSpec
CONSTANTS
  Generations = {g1}
  Requesters = {r1}
  MaxRevision = 1
  MaxFaults = 1
  Env = {"render"}
PROPERTY UpdatingEnds
CHECK_DEADLOCK FALSE
