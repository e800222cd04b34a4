SPECIFICATION LiveSpec
CONSTANTS
  Generations = {g1, g2}
  Requesters = {r1, r2}
  MaxRevision = 1
  MaxFaults = 1
  Env = {"crash", "enqueue", "render", "db", "commit", "late"}
INVARIANT TypeOK
INVARIANT OneActive
INVARIANT PublishedHasFile
PROPERTY ClosedStaysClosed
PROPERTY EverythingEnds
CHECK_DEADLOCK FALSE
