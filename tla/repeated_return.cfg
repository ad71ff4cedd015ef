SPECIFICATION Spec
CONSTANTS
  o1 = o1
  h1 = h1
  h2 = h2
  Orders <- MCOrders
  Handlers <- MCHandlers
  Ops <- PricedOps
  PatchTargets <- VendorTargets
  RefundAmounts = {1}
  StartStates <- BeforePickup
  MaxHistory = 8
  MaxRequests = 1
  MaxAborts = 0
  MaxRedeliveries = 1
SYMMETRY Symmetry
INVARIANT
  OneRefundPerRequest
CHECK_DEADLOCK FALSE
