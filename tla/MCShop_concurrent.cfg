\* A payment with duplicated callbacks, cancellation and admins on one order, two requests at a
\* time, one of which may fail.
CONSTANTS
  Workers = {w1, w2}
  Customers = {alice}
  Products = {lamp}
  Orders = {o1}
  Attempts = {k1}
  InitialStock <- Two
  InitialCarts <- OneOfEach
  AdminGoals = {"awaiting_payment", "paid", "cancelled", "refunded", "processing", "payment_failed"}
  StockDeltas <- Corrections
  MaxStock = 3
  MaxFaults = 1
  MaxRefunds = 1
  Traffic = {"checkout", "payment", "cancel", "admin"}
  None = None
SPECIFICATION Spec
SYMMETRY Symmetry
CHECK_DEADLOCK FALSE
INVARIANTS
  TypeOK
  PaidMeansCaptured
  HistoryIsConnected
  RefundOnlyAfterPaid
PROPERTIES
  PaymentsFollowContract
