SPECIFICATION LiveSpec
CONSTANTS
  Passes = {p1, p2, p3}
  Requests = {q1, q2}
  MaxAttempts = 5
  MaxFaults = 3
  Env = {"crash", "db", "refused", "lost", "overrun", "cancel"}
INVARIANT RedeliveryExcused
INVARIANT OneHolder
PROPERTY AckDurable
PROPERTY EventuallyUnscheduled
PROPERTY ImplementsDelivery
