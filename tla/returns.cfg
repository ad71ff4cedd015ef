SPECIFICATION Spec
CONSTANTS
  o1 = o1
  h1 = h1
  h2 = h2
  Orders <- MCOrders
  Handlers <- MCHandlers
  Ops <- ReturnOps
  PatchTargets <- VendorTargets
  RefundAmounts = {1}
  StartStates <- ReturnStart
  MaxHistory = 8
  MaxRequests = 2
  MaxAborts = 0
  MaxRedeliveries = 0
SYMMETRY Symmetry
INVARIANTS
  RefundsAreRecorded
  AnnouncementsComplete
  PendingReturnRecorded
  PickedUpReturnsWait
CHECK_DEADLOCK FALSE
