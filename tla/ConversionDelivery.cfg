SPECIFICATION LiveSpec
CONSTANTS
  Requests = {q1, q2}
  Passes = {p1, p2}
  Staff = {s1}
  MaxTries = 2
  MaxAttempts = 2
  MaxFaults = 2
  MaxSwitches = 2
  Env = {"crash", "db", "ingest", "lost", "old", "switch", "manual"}
INVARIANT TypeOK
INVARIANT RepeatsExcused
INVARIANT FailedRetryable
PROPERTY SentStays
PROPERTY EventuallySettled
CHECK_DEADLOCK FALSE
