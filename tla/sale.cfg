SPECIFICATION Spec
CONSTANTS
  o1 = o1
  h1 = h1
  h2 = h2
  Orders <- MCOrders
  Handlers <- MCHandlers
  Ops <- SaleOps
  PatchTargets <- VendorTargets
  RefundAmounts = {1}
  StartStates <- SaleStart
  MaxHistory = 9
  MaxRequests = 0
  MaxAborts = 0
  MaxRedeliveries = 0
SYMMETRY Symmetry
INVARIANTS
  TypeOK
  HistoryConsistent
  AnnouncedOnce
  WasSoldAccurate
  OneConversation
  DigitalConfirmedWithStock
  NoLostConfirmation
  AnnouncementsComplete
CHECK_DEADLOCK FALSE
