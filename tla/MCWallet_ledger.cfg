\* Copies of requests to one wallet, two at a time, with a fault; clients repeat a deposit
\* until it is answered.
CONSTANTS
  Workers = {w1, w2}
  alice = alice
  admin = admin
  k1 = k1
  Users = {alice, admin}
  Keys = {k1}
  Requests <- Everything
  MaxRows = 3
  MaxFaults = 1
  None = None
SPECIFICATION RetrySpec
INVARIANTS
  WalletTypeOK
  BalanceFollowsLedger
PROPERTIES
  WalletFollowsContract
  EveryWalletRequestEnds
  DepositsHappen
