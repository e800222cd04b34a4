SPECIFICATION FairSpec
CONSTANTS
  o1 = o1
  o2 = o2
  c1 = c1
  i1 = i1
  Orders = {o1}
  Comps = {c1}
  InternalComps = {}
  Qty <- QtySingle
  Consumers = {s1}
  Reversers = {v1}
  Recoverers = {r1}
  Conns = {k1}
  MaxGen = 2
  MaxPg = 1
  MaxDebt = 1
  MaxCrashes = 1
  Env = {"crash", "expiry", "overlap"}
PROPERTY EventuallySynced
INVARIANT PendingIsLatest
