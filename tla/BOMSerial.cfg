SPECIFICATION Spec
CONSTANTS
  o1 = o1
  o2 = o2
  c1 = c1
  i1 = i1
  Orders = {o1, o2}
  Comps = {c1, i1}
  InternalComps = {i1}
  Qty <- QtyPlain
  Consumers = {s1}
  Reversers = {v1}
  Recoverers = {r1}
  Conns = {k1, k2}
  MaxGen = 2
  MaxPg = 1
  MaxDebt = 1
  MaxCrashes = 0
  Env = {"expiry", "redis"}
INVARIANT TypeOK
INVARIANT RestBalanced
