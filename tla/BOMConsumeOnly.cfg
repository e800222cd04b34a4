SPECIFICATION Spec
CONSTANTS
  o1 = o1
  o2 = o2
  c1 = c1
  i1 = i1
  Orders = {o1}
  Comps = {c1, i1}
  InternalComps = {i1}
  Qty <- QtyPair
  Consumers = {s1, s2}
  Reversers = {}
  Recoverers = {r1}
  Conns = {k1}
  MaxGen = 2
  MaxPg = 1
  MaxDebt = 1
  MaxCrashes = 1
  Env = {"crash", "expiry", "redis", "db", "overlap"}
INVARIANT AppliedOnce
INVARIANT CompletedWasPushed
PROPERTY ImplementsOnce
