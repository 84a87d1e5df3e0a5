\* Requests that do not disturb each other, admins included, on two orders with two payments
\* each.
CONSTANTS
  Workers = {w1, w2}
  Customers = {alice, bob}
  Products = {lamp}
  Orders = {o1, o2}
  Attempts = {k1, k2}
  InitialStock <- Two
  InitialCarts <- OneOfEach
  AdminGoals = {"paid", "cancelled", "refunded"}
  StockDeltas <- Corrections
  MaxStock = 3
  MaxFaults = 0
  MaxRefunds = 2
  Traffic = {"checkout", "payment", "cancel", "admin"}
  None = None
SPECIFICATION UndisturbedSpec
SYMMETRY Symmetry
CHECK_DEADLOCK FALSE
INVARIANTS
  PurchasedAtMostOnce
  RefundAtMostOnce
  ReservedIsPromised
PROPERTIES
  StatusFollowsTable
