SPECIFICATION Spec
CONSTANTS
  o1 = o1
  h1 = h1
  h2 = h2
  Orders <- MCOrders
  Handlers <- MCHandlers
  Ops <- MishapOps
  PatchTargets <- VendorTargets
  RefundAmounts = {0, 1}
  StartStates <- MishapStart
  MaxHistory = 6
  MaxRequests = 1
  MaxAborts = 1
  MaxRedeliveries = 0
SYMMETRY Symmetry
INVARIANTS
  HistoryConsistent
  AnnouncedOnce
PROPERTY
  TransitionsNeverUndone
CHECK_DEADLOCK FALSE
