\* Two checkouts race for the last unit.
CONSTANTS
  Workers = {w1, w2}
  Customers = {alice, bob}
  Products = {lamp}
  Orders = {o1, o2}
  Attempts = {k1}
  InitialStock <- One
  InitialCarts <- OneOfEach
  AdminGoals <- OrderStatuses
  StockDeltas <- Corrections
  MaxStock = 3
  MaxFaults = 0
  MaxRefunds = 2
  Traffic = {"checkout"}
  None = None
SPECIFICATION Spec
SYMMETRY Symmetry
CHECK_DEADLOCK FALSE
INVARIANTS
  NoOversell
