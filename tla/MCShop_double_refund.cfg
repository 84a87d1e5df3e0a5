\* Two admins refund the same order.
CONSTANTS
  Workers = {w1, w2}
  Customers = {alice}
  Products = {lamp}
  Orders = {o1}
  Attempts = {k1}
  InitialStock <- Two
  InitialCarts <- OneOfEach
  AdminGoals <- OrderStatuses
  StockDeltas <- Corrections
  MaxStock = 3
  MaxFaults = 0
  MaxRefunds = 2
  Traffic = {"checkout", "payment", "admin"}
  None = None
SPECIFICATION Spec
SYMMETRY Symmetry
CHECK_DEADLOCK FALSE
INVARIANTS
  RefundAtMostOnce
