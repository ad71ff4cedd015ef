SPECIFICATION Spec
CONSTANTS
  o1 = o1
  h1 = h1
  h2 = h2
  Orders <- MCOrders
  Handlers <- MCHandlers
  Ops <- ConfirmOps
  PatchTargets <- VendorTargets
  RefundAmounts = {1}
  StartStates <- SaleStart
  MaxHistory = 8
  MaxRequests = 0
  MaxAborts = 1
  MaxRedeliveries = 0
SYMMETRY Symmetry
INVARIANT
  EventsNeverLost
CHECK_DEADLOCK FALSE
