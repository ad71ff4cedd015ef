SPECIFICATION Spec
CONSTANTS
  p1 = p1
  p2 = p2
  h1 = h1
  h2 = h2
  Products <- MCProducts
  Catalogs <- MCCatalogs
  Fees <- MCFees
  Handlers <- OneCall
  PaymentMethod = "wallet"
  Ids <- MCIds
  CarefulBuyer = FALSE
  MaxQuantity = 2
  MaxCalls = 4
INVARIANT
  ChargedForItsLines
CHECK_DEADLOCK FALSE
