SPECIFICATION Spec
CONSTANTS
  buyer = buyer
  vendor = vendor
  employee = employee
  system = system
  h1 = h1
  h2 = h2
  Customer <- buyer
  Vendor <- vendor
  Staff <- MCStaff
  System <- system
  Handlers <- MCHandlers
  Ops <- AllOps
  MaxCalls = 3
  MaxFaults = 1
SYMMETRY Symmetry
INVARIANTS
  TypeOK
  NeverOvercounts
  UnreadIsShown
  StoredIsAnnounced
PROPERTIES
  ClosedStaysClosed
  MembersNeverLost
CHECK_DEADLOCK FALSE
