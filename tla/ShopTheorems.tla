---------------------------- MODULE ShopTheorems ----------------------------
(***************************************************************************)
(* What the invariant of Shop gives: refunds, purchases and the payment    *)
(* contract, for any number of workers, products, orders and payments.     *)
(***************************************************************************)
EXTENDS ShopProofs, FiniteSetTheorems

-----------------------------------------------------------------------------
(* Refunds.                                                                *)

\* A step either leaves an order's log and refunds alone, or logs one move of
\* the table; only a logged move to "refunded" adds a refund.
LEMMA StepLogsMoves ==
  ASSUME ShopInv, [Next]_vars, NEW o \in Orders
  PROVE  \/ order_status_history'[o] = order_status_history[o] /\ refunds'[o] = refunds[o]
         \/ \E m \in ALLOWED_TRANSITIONS :
              /\ order_status_history'[o] = order_status_history[o] \cup {m}
              /\ refunds'[o] # refunds[o] => m[2] = "refunded"
<1> DEFINE Goal ==
         \/ order_status_history'[o] = order_status_history[o] /\ refunds'[o] = refunds[o]
         \/ \E m \in ALLOWED_TRANSITIONS :
              /\ order_status_history'[o] = order_status_history[o] \cup {m}
              /\ refunds'[o] # refunds[o] => m[2] = "refunded"
<1>t. /\ order_status_history \in [Orders -> SUBSET (OrderStatuses \X OrderStatuses)]
      /\ refunds \in [Orders -> Nat]
  BY DEF ShopInv, TypeOK
<1>1. CASE UNCHANGED <<order_status_history, refunds>>
  BY <1>1
<1>2. ASSUME NEW w \in Workers, NEW oo \in Orders, CommitCheckout(w, oo)
      PROVE  Goal
  <2>1. sess[w].seen = "pending" /\ sess[w].goal = "awaiting_payment"
    BY <1>2 DEF CommitCheckout, ShopInv, SessionsIsolated, SessionsSound, KnowsOrder
  <2>2. <<sess[w].seen, sess[w].goal>> \in ALLOWED_TRANSITIONS
    BY <2>1 DEF ALLOWED_TRANSITIONS
  <2> QED
    BY <1>t, <1>2, <2>2 DEF CommitCheckout
<1>3. ASSUME NEW w \in Workers, Transition(sess[w]),
             \/ refunds' = refunds
             \/ /\ sess[w].goal = "refunded"
                /\ refunds' = [refunds EXCEPT ![sess[w].order] = @ + 1]
      PROVE  Goal
  <2> DEFINE m == <<sess[w].seen, sess[w].goal>>
  <2>1. m \in ALLOWED_TRANSITIONS /\ m[2] = sess[w].goal
    BY <1>3 DEF Transition, CanTransition
  <2>2. order_status_history' =
          [order_status_history EXCEPT ![sess[w].order] = @ \cup {m}]
    BY <1>3 DEF Transition
  <2> HIDE DEF m
  <2>3. CASE o = sess[w].order
    <3>1. order_status_history'[o] = order_status_history[o] \cup {m}
      BY <1>t, <2>2, <2>3
    <3>2. refunds'[o] # refunds[o] => m[2] = "refunded"
      BY <1>3, <2>1
    <3> QED
      BY <2>1, <3>1, <3>2
  <2>4. CASE o # sess[w].order
    BY <1>t, <1>3, <2>2, <2>4
  <2> QED
    BY <2>3, <2>4
<1>4. ASSUME NEW w \in Workers, Step(w)
      PROVE  Goal
  <2>1. ASSUME CommitPaid(w) \/ CommitPaymentFailed(w) \/ CommitCancel(w)
               \/ CommitAdminUpdate(w)
        PROVE  Goal
    BY <2>1, <1>3 DEF CommitPaid, CommitPaymentFailed, CommitCancel, CommitAdminUpdate
  <2> QED
    BY <1>1, <1>2, <1>4, <2>1 DEF Step, NextItem, LockForUpdate, CommitPayment,
       VerifySucceeds, VerifyFails, Reject, DeadlockAbort, committed
<1>5. ASSUME NEW w \in Workers, Request(w)
      PROVE  Goal
  BY <1>1, <1>5 DEF Request, Checkout, InitPayment, Callback, Cancel, AdminUpdateStatus,
     committed
<1>6. CASE AtGateway \/ StockCorrection \/ (\E w \in Workers : Fail(w)) \/ UNCHANGED vars
  BY <1>1, <1>6 DEF AtGateway, CustomerPays, StockCorrection, Restock,
     Adjust, Fail, committed, vars
<1> QED
  BY <1>4, <1>5, <1>6 DEF Next

LEMMA AuditKept ==
  ASSUME ShopInv, AuditInv, [Next]_vars
  PROVE  AuditInv'
<1> SUFFICES ASSUME NEW o \in Orders
             PROVE  /\ order_status_history'[o] \subseteq ALLOWED_TRANSITIONS
                    /\ refunds'[o] > 0 => \E f \in OrderStatuses :
                         <<f, "refunded">> \in order_status_history'[o]
  BY DEF AuditInv
<1>1. CASE order_status_history'[o] = order_status_history[o] /\ refunds'[o] = refunds[o]
  BY <1>1 DEF AuditInv
<1>2. CASE \E m \in ALLOWED_TRANSITIONS :
             /\ order_status_history'[o] = order_status_history[o] \cup {m}
             /\ refunds'[o] # refunds[o] => m[2] = "refunded"
  <2>1. PICK m \in ALLOWED_TRANSITIONS :
             /\ order_status_history'[o] = order_status_history[o] \cup {m}
             /\ refunds'[o] # refunds[o] => m[2] = "refunded"
    BY <1>2
  <2>2. m = <<m[1], m[2]>> /\ m[1] \in OrderStatuses
    BY DEF ALLOWED_TRANSITIONS, CancellableFrom, RefundableFrom, OrderStatuses
  <2> QED
    BY <2>1, <2>2 DEF AuditInv
<1> QED
  BY <1>1, <1>2, StepLogsMoves

\* Every way through the table to "refunded" passes "paid", and the log holds
\* a way.
LEMMA RefundedWasPaid ==
  ASSUME ShopInv, AuditInv
  PROVE  RefundOnlyAfterPaid
<1> SUFFICES ASSUME NEW o \in Orders, refunds[o] > 0
             PROVE  \E f \in OrderStatuses : <<f, "paid">> \in order_status_history[o]
  BY DEF RefundOnlyAfterPaid
<1> DEFINE log == order_status_history[o]
           Into(to) == \E f \in OrderStatuses : <<f, to>> \in log
<1>1. ASSUME NEW f, NEW to, <<f, to>> \in log, f # "pending"
      PROVE  Into(f)
  BY <1>1 DEF ShopInv, HistoryIsConnected
<1>2. \A f, to : <<f, to>> \in log => <<f, to>> \in ALLOWED_TRANSITIONS
  BY DEF AuditInv
<1>3. Into("refunded")
  BY DEF AuditInv
<1>4. Into("paid") \/ Into("completed")
  BY <1>1, <1>2, <1>3 DEF ALLOWED_TRANSITIONS, RefundableFrom
<1>5. Into("completed") => Into("shipped")
  BY <1>1, <1>2 DEF ALLOWED_TRANSITIONS
<1>6. Into("shipped") => Into("processing")
  BY <1>1, <1>2 DEF ALLOWED_TRANSITIONS
<1>7. Into("processing") => Into("paid")
  BY <1>1, <1>2 DEF ALLOWED_TRANSITIONS
<1> QED
  BY <1>4, <1>5, <1>6, <1>7

\* No interleaving of admins, customers and callbacks credits a wallet for an
\* order that was never marked paid.
THEOREM RefundsHold == Spec => []RefundOnlyAfterPaid
<1>1. Init => AuditInv
  BY DEF Init, AuditInv
<1>2. ShopInv /\ AuditInv /\ [Next]_vars => AuditInv'
  BY AuditKept
<1>3. ShopInv /\ AuditInv => RefundOnlyAfterPaid
  BY RefundedWasPaid
<1> QED
  BY <1>1, <1>2, <1>3, InvariantHolds, PTL DEF Spec

-----------------------------------------------------------------------------
(* The payment contract.                                                   *)

\* A step opens, verifies or declines one payment as the contract allows, or
\* touches neither payments nor purchases.
LEMMA StepFollowsContract ==
  ASSUME ShopInv, [Next]_vars
  PROVE  [Contract!Next]_(Contract!contract_vars)
<1> USE DEF Contract!Next, Contract!contract_vars
<1>1. CASE UNCHANGED <<payments, purchases>>
  BY <1>1
<1>2. ASSUME NEW w \in Workers, NEW k \in Attempts, CommitPayment(w, k)
      PROVE  Contract!Next
  <2>1. sess[w].order \in Orders
    BY <1>2 DEF CommitPayment, ShopInv, SessionsIsolated, SessionsSound, KnowsOrder, OnOrder
  <2>2. Contract!Open(sess[w].order, k)
    BY <1>2 DEF CommitPayment, Contract!Open
  <2> QED
    BY <2>1, <2>2
<1>3. ASSUME NEW w \in Workers, sess[w].pc \in Claiming
      PROVE  /\ sess[w].order \in Orders
             /\ sess[w].attempt \in Attempts
             /\ payments[sess[w].order][sess[w].attempt] = "initiated"
  BY <1>3 DEF ShopInv, SessionsIsolated, SessionsSound, KnowsOrder, OnOrder, HoldsClaim,
              Claiming
<1>4. ASSUME NEW w \in Workers, CommitPaid(w)
      PROVE  Contract!Next
  <2>1. Contract!Verify(sess[w].order, sess[w].attempt)
    BY <1>3, <1>4 DEF CommitPaid, Claiming, Contract!Verify
  <2> QED
    BY <1>3, <1>4, <2>1 DEF CommitPaid, Claiming
<1>5. ASSUME NEW w \in Workers, CommitPaymentFailed(w)
      PROVE  Contract!Next
  <2>1. Contract!Decline(sess[w].order, sess[w].attempt)
    BY <1>3, <1>5 DEF CommitPaymentFailed, Claiming, Contract!Decline
  <2> QED
    BY <1>3, <1>5, <2>1 DEF CommitPaymentFailed, Claiming
<1>6. ASSUME NEW w \in Workers, Step(w)
      PROVE  [Contract!Next]_(Contract!contract_vars)
  BY <1>1, <1>2, <1>4, <1>5, <1>6 DEF Step, NextItem, LockForUpdate, CommitCheckout,
     VerifySucceeds, VerifyFails, CommitCancel, CommitAdminUpdate, Reject, DeadlockAbort,
     committed
<1>7. ASSUME NEW w \in Workers, Request(w)
      PROVE  UNCHANGED <<payments, purchases>>
  BY <1>7 DEF Request, Checkout, InitPayment, Callback, Cancel, AdminUpdateStatus, committed
<1>8. CASE AtGateway \/ StockCorrection \/ (\E w \in Workers : Fail(w)) \/ UNCHANGED vars
  BY <1>1, <1>8 DEF AtGateway, CustomerPays, StockCorrection, Restock,
     Adjust, Fail, committed, vars
<1> QED
  BY <1>1, <1>6, <1>7, <1>8 DEF Next

\* Callbacks delivered any number of times, to any number of workers, with
\* any rollbacks, implement the one-shot payment contract.
THEOREM ContractRefined == Spec => PaymentsFollowContract
<1>1. Init => Contract!Init
  BY DEF Init, Contract!Init
<1>2. ShopInv /\ [Next]_vars => [Contract!Next]_(Contract!contract_vars)
  BY StepFollowsContract
<1> QED
  BY <1>1, <1>2, InvariantHolds, PTL DEF Spec, PaymentsFollowContract, Contract!Spec

\* Verifying one more payment of an order adds one to its verified payments.
LEMMA VerifyCountsOne ==
  ASSUME ShopInv, NEW o \in Orders, NEW k \in Attempts, Contract!Verify(o, k)
  PROVE  /\ Cardinality(VerifiedPayments(o))' = Cardinality(VerifiedPayments(o)) + 1
         /\ \A oo \in Orders \ {o} : VerifiedPayments(oo)' = VerifiedPayments(oo)
<1>1. /\ VerifiedPayments(o)' = VerifiedPayments(o) \cup {k}
      /\ k \notin VerifiedPayments(o)
      /\ \A oo \in Orders \ {o} : VerifiedPayments(oo)' = VerifiedPayments(oo)
  BY DEF ShopInv, TypeOK, Contract!Verify, VerifiedPayments
<1>2. IsFiniteSet(VerifiedPayments(o))
  BY FS_Subset, BoundsAssumption DEF VerifiedPayments
<1> QED
  BY <1>1, <1>2, FS_AddElement

LEMMA PurchasesMatchKept ==
  ASSUME ShopInv, PurchasesMatchVerified, [Next]_vars
  PROVE  PurchasesMatchVerified'
<1>1. ASSUME NEW o \in Orders, NEW k \in Attempts, Contract!Verify(o, k)
      PROVE  PurchasesMatchVerified'
  <2>1. purchases \in [Orders -> Nat] /\ purchases' = [purchases EXCEPT ![o] = @ + 1]
    BY <1>1 DEF ShopInv, TypeOK, Contract!Verify
  <2> QED
    BY <1>1, <2>1, VerifyCountsOne DEF PurchasesMatchVerified
<1>2. ASSUME purchases' = purchases,
             \A o \in Orders : VerifiedPayments(o)' = VerifiedPayments(o)
      PROVE  PurchasesMatchVerified'
  BY <1>2 DEF PurchasesMatchVerified
<1>3. ASSUME NEW o \in Orders, NEW k \in Attempts,
             Contract!Open(o, k) \/ Contract!Decline(o, k)
      PROVE  PurchasesMatchVerified'
  <2>1. payments \in [Orders -> [Attempts -> PaymentStatuses]]
    BY DEF ShopInv, TypeOK
  <2>2. PICK status \in {"initiated", "failed"} :
          /\ payments[o][k] # "verified"
          /\ payments' = [payments EXCEPT ![o][k] = status]
          /\ purchases' = purchases
    BY <1>3 DEF Contract!Open, Contract!Decline
  <2>3. \A oo \in Orders : VerifiedPayments(oo)' = VerifiedPayments(oo)
    BY <2>1, <2>2 DEF VerifiedPayments
  <2> QED
    BY <1>2, <2>2, <2>3
<1>4. CASE UNCHANGED Contract!contract_vars
  BY <1>2, <1>4 DEF Contract!contract_vars, VerifiedPayments
<1> QED
  BY <1>1, <1>3, <1>4, StepFollowsContract DEF Contract!Next

\* An order's stock is purchased exactly once per verified payment.
THEOREM PurchasesHold == Spec => []PurchasesMatchVerified
<1>1. Init => PurchasesMatchVerified
  <2> SUFFICES ASSUME Init PROVE PurchasesMatchVerified
    OBVIOUS
  <2>1. \A o \in Orders : VerifiedPayments(o) = {} /\ purchases[o] = 0
    BY DEF Init, VerifiedPayments
  <2> QED
    BY <2>1, FS_EmptySet DEF PurchasesMatchVerified
<1>2. ShopInv /\ PurchasesMatchVerified /\ [Next]_vars => PurchasesMatchVerified'
  BY PurchasesMatchKept
<1> QED
  BY <1>1, <1>2, InvariantHolds, PTL DEF Spec

-----------------------------------------------------------------------------
(* Stock.                                                                  *)

\* A commit of mark_paid: each item's row was locked and is current, and
\* rows without a lock belong to no item of the order.
LEMMA PaidTakesTheOrder ==
  ASSUME ShopInv, NEW w \in Workers, CommitPaid(w)
  PROVE  StockStep
<1> DEFINE s == sess[w]
<1>1. /\ s \in Sessions /\ s.pc = "paid" /\ s.todo = {} /\ s.order \in Orders
      /\ s.items = orders[s.order].items /\ s.locked = InCart(s.items)
      /\ s.attempt \in Attempts
      /\ payments[s.order][s.attempt] = "initiated"
  <2>1. s \in Sessions /\ s.pc = "paid" /\ s.todo = {}
    BY DEF CommitPaid, LoopDone, ShopInv, TypeOK
  <2>2. LoopCoversOrder(s) /\ KnowsOrder(s) /\ HoldsClaim(s)
    BY DEF ShopInv, SessionsIsolated, SessionsSound
  <2>3. s.order \in Orders /\ s.items = orders[s.order].items
    BY <2>1, <2>2 DEF KnowsOrder, OnOrder, ChangesStock
  <2>4. s.locked = InCart(s.items)
    BY <2>1, <2>2 DEF LoopCoversOrder
  <2>5. s.attempt \in Attempts /\ payments[s.order][s.attempt] = "initiated"
    BY <2>1, <2>2 DEF HoldsClaim, Claiming
  <2> QED
    BY <2>1, <2>3, <2>4, <2>5
<1>2. payments \in [Orders -> [Attempts -> PaymentStatuses]]
      /\ payments' = [payments EXCEPT ![s.order][s.attempt] = "verified"]
      /\ product_inventory' = Flushed(s)
  BY DEF CommitPaid, ShopInv, TypeOK
<1>3. \A o \in Orders, k \in Attempts : Verifies(o, k) => o = s.order
  BY <1>1, <1>2 DEF Verifies
<1>4. Verifies(s.order, s.attempt)
  BY <1>1, <1>2 DEF Verifies
<1>5. ASSUME NEW p \in Products
      PROVE  product_inventory'[p].total =
               AtLeastZero(product_inventory[p].total - s.items[p])
  <2>1. CASE p \in s.locked
    BY <1>1, <1>2, <2>1, FlushedRows DEF ChangesStock
  <2>2. CASE p \notin s.locked
    <3>1. product_inventory'[p] = product_inventory[p]
      BY <1>1, <1>2, <2>2, FlushedRows DEF ChangesStock
    <3>2. s.items[p] = 0 /\ product_inventory[p].total \in Nat
      BY <1>1, <2>2 DEF InCart, ShopInv, TypeOK, Sessions, Quantities, Rows
    <3> QED
      BY <3>1, <3>2 DEF AtLeastZero
  <2> QED
    BY <2>1, <2>2
<1> QED
  BY <1>1, <1>3, <1>4, <1>5 DEF StockStep

\* Every other step verifies nothing, and only a correction moves a total.
LEMMA OthersKeepTotals ==
  ASSUME ShopInv, [Next]_vars, \A w \in Workers : ~CommitPaid(w)
  PROVE  StockStep
<1>1. ASSUME \A o \in Orders, k \in Attempts : ~Verifies(o, k),
             \A p \in Products : product_inventory'[p].total = product_inventory[p].total
      PROVE  StockStep
  BY <1>1 DEF StockStep
<1>2. ASSUME payments' = payments, product_inventory' = product_inventory
      PROVE  StockStep
  BY <1>1, <1>2 DEF Verifies
<1>t. product_inventory \in [Products -> Rows]
      /\ payments \in [Orders -> [Attempts -> PaymentStatuses]]
  BY DEF ShopInv, TypeOK
<1>3. ASSUME NEW w \in Workers, NEW k \in Attempts, CommitPayment(w, k)
      PROVE  StockStep
  <2>1. /\ payments' = [payments EXCEPT ![sess[w].order][k] = "initiated"]
        /\ product_inventory' = product_inventory
    BY <1>3 DEF CommitPayment
  <2> QED
    BY <1>1, <1>t, <2>1 DEF Verifies
<1>4. ASSUME NEW w \in Workers, NEW o \in Orders, CommitCheckout(w, o)
      PROVE  StockStep
  <2>1. payments' = payments /\ product_inventory' = Flushed(sess[w])
        /\ sess[w].pc = "checkout"
    BY <1>4 DEF CommitCheckout
  <2>2. \A p \in Products : product_inventory'[p].total = product_inventory[p].total
    BY <2>1 DEF Flushed
  <2> QED
    BY <1>1, <2>1, <2>2 DEF Verifies
<1>5. ASSUME NEW w \in Workers, sess[w].pc \in {"failed", "cancel"},
             product_inventory' = Flushed(sess[w])
      PROVE  \A p \in Products : product_inventory'[p].total = product_inventory[p].total
  <2> TAKE p \in Products
  <2>1. CASE p \in sess[w].locked
    BY <1>5, <2>1, FlushedRows DEF ChangesStock
  <2>2. CASE p \notin sess[w].locked
    BY <1>5, <2>2, FlushedRows DEF ChangesStock
  <2> QED
    BY <2>1, <2>2
<1>6. ASSUME NEW w \in Workers, CommitPaymentFailed(w)
      PROVE  StockStep
  <2>1. /\ payments' = [payments EXCEPT ![sess[w].order][sess[w].attempt] = "failed"]
        /\ product_inventory' = Flushed(sess[w])
        /\ sess[w].pc = "failed"
    BY <1>6 DEF CommitPaymentFailed
  <2>2. \A o \in Orders, k \in Attempts : ~Verifies(o, k)
    BY <1>t, <2>1 DEF Verifies
  <2> QED
    BY <1>1, <1>5, <2>1, <2>2
<1>7. ASSUME NEW w \in Workers, CommitCancel(w)
      PROVE  StockStep
  BY <1>1, <1>5, <1>7 DEF CommitCancel, Verifies
<1>8. ASSUME NEW w \in Workers, Step(w)
      PROVE  StockStep
  BY <1>2, <1>3, <1>4, <1>6, <1>7, <1>8 DEF Step, NextItem, LockForUpdate, VerifySucceeds,
     VerifyFails, CommitAdminUpdate, Reject, DeadlockAbort, committed
<1>9. ASSUME NEW w \in Workers, Request(w)
      PROVE  StockStep
  BY <1>2, <1>9 DEF Request, Checkout, InitPayment, Callback, Cancel, AdminUpdateStatus,
     committed
<1>10. CASE AtGateway \/ (\E w \in Workers : Fail(w)) \/ UNCHANGED vars
  BY <1>2, <1>10 DEF AtGateway, CustomerPays, Fail, committed, vars
<1>11. CASE StockCorrection
  <2>1. PICK p \in Products, delta \in StockDeltas :
          /\ product_inventory' = [product_inventory EXCEPT ![p].total = @ + delta]
          /\ payments' = payments
    BY <1>11 DEF StockCorrection, Restock, Adjust
  <2>2. \A q \in Products \ {p} : product_inventory'[q] = product_inventory[q]
    BY <1>t, <2>1
  <2> QED
    BY <2>1, <2>2 DEF StockStep, Verifies
<1> QED
  BY <1>8, <1>9, <1>10, <1>11 DEF Next

\* No purchase is lost or applied twice to the stock, however callbacks,
\* cancellations, checkouts and corrections of the same products interleave.
THEOREM PurchaseStepsHold == Spec => PurchaseTakesExactlyTheOrder
<1>1. ShopInv /\ [Next]_vars => [StockStep]_vars
  BY PaidTakesTheOrder, OthersKeepTotals
<1> QED
  BY <1>1, InvariantHolds, PTL DEF Spec, PurchaseTakesExactlyTheOrder
=============================================================================
