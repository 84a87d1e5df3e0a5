\* A paid order is cancelled while another one waits for its payment.
CONSTANTS
  Workers = {w1}
  Customers = {alice, bob}
  Products = {lamp}
  Orders = {o1, o2}
  Attempts = {k1}
  InitialStock <- Two
  InitialCarts <- OneOfEach
  AdminGoals <- OrderStatuses
  StockDeltas <- Corrections
  MaxStock = 3
  MaxFaults = 0
  MaxRefunds = 2
  Traffic = {"checkout", "payment", "cancel"}
  None = None
SPECIFICATION Spec
SYMMETRY Symmetry
CHECK_DEADLOCK FALSE
INVARIANTS
  ReservedCoversPromised
