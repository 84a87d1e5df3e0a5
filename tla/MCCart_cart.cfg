\* Two tabs with two products, one or two pieces at a time.
CONSTANTS
  Workers = {w1, w2}
  Products = {radio, speaker}
  Quantities = {1, 2}
  StockRows <- SomeStock
  MaxRequests = 4
SYMMETRY Symmetry
SPECIFICATION Spec
CHECK_DEADLOCK FALSE
INVARIANTS
  CartTypeOK
  QuantityWithinStock
PROPERTIES
  AsIfAlone
  CheckoutTakesTheCart
