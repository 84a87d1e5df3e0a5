\* Two orders of the same two products are placed and paid while the stock is corrected:
\* lock waits, wait cycles and updates of the same rows.
CONSTANTS
  Workers = {w1, w2}
  Customers = {alice, bob}
  Products = {lamp, desk}
  Orders = {o1, o2}
  Attempts = {k1}
  InitialStock <- Two
  InitialCarts <- OneOfEach
  AdminGoals <- OrderStatuses
  StockDeltas <- Corrections
  MaxStock = 2
  MaxFaults = 0
  MaxRefunds = 2
  Traffic = {"checkout", "payment", "stock"}
  None = None
SPECIFICATION FairSpec
CHECK_DEADLOCK FALSE
INVARIANTS
  SessionsIsolated
PROPERTIES
  EveryRequestEnds
  PurchaseTakesExactlyTheOrder
