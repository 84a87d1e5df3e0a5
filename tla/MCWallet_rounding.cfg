\* A deposit of whole Tomans and a debit with a fraction.
CONSTANTS
  Workers = {w1}
  alice = alice
  admin = admin
  k1 = k1
  Users = {alice, admin}
  Keys = {k1}
  Requests <- Fractions
  MaxRows = 3
  MaxFaults = 0
  None = None
SPECIFICATION Spec
INVARIANTS
  BalanceIsLedgerTotal
