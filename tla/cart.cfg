SPECIFICATION Spec
CONSTANTS
  p1 = p1
  p2 = p2
  h1 = h1
  h2 = h2
  Products <- MCProducts
  Catalogs <- MCCatalogs
  Fees <- MCFees
  Handlers <- TwoCalls
  PaymentMethod = "wallet"
  Ids <- MCIds
  CarefulBuyer = TRUE
  MaxQuantity = 2
  MaxCalls = 4
SYMMETRY CallSymmetry
INVARIANTS
  TypeOK
  SerialInvoiceMatchesCart
  PlacedAsInvoiced
CHECK_DEADLOCK FALSE
