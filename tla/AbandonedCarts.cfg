SPECIFICATION LiveSpec
CONSTANTS
  Sessions = {s1}
  Unserved = {}
  Orders = {o1, o2}
  Scanners = {c1}
  Handlers = {h1, h2}
  Capped = {"order"}
  Take = 1
  MaxCarts = 2
  MaxEvents = 2
  MaxFaults = 1
INVARIANT TypeOK
INVARIANT OrderOnce
INVARIANT CapRespected
INVARIANT OneRecoveryPerCart
INVARIANT PurchaseStops
PROPERTY EventuallyEnrolled
