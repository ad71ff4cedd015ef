SPECIFICATION MessagingSpec
CONSTANTS
  o1 = o1
  h1 = h1
  h2 = h2
  Orders <- MCOrders
  Handlers <- MCHandlers
  Ops <- AnswerOps
  PatchTargets = {"IN_PREPARATION"}
  RefundAmounts = {1}
  StartStates <- CartStart
  MaxHistory = 9
  MaxRequests = 0
  MaxAborts = 1
  MaxRedeliveries = 0
  MaxMishaps = 0
INVARIANT
  RejectionReleases
CHECK_DEADLOCK FALSE
