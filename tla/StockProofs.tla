----------------------------- MODULE StockProofs -----------------------------
(***************************************************************************)
(* What the shop promises while its requests do not disturb each other:    *)
(* one purchase and one refund per order, a status that follows the table, *)
(* and reservations that cover what orders were promised; for any number   *)
(* of workers, products, orders and payments.                              *)
(***************************************************************************)
EXTENDS ShopTheorems

-----------------------------------------------------------------------------
(* One mover per order.                                                    *)

\* The commits that move an order.
MoverCommits(w) ==
  CommitPaid(w) \/ CommitPaymentFailed(w) \/ CommitCancel(w) \/ CommitAdminUpdate(w)

\* w's session moves the same order from the same status as before, if any;
\* or it has just loaded the status.
SeenFresh(w) ==
  sess'[w].pc \in Movers =>
    \/ sess'[w].seen = orders[sess'[w].order].status
    \/ /\ sess[w].pc \in Movers
       /\ sess'[w].seen = sess[w].seen
       /\ sess'[w].order = sess[w].order

\* And it keeps its goal, or has the one its handler starts with.
GoalFresh(w) ==
  \/ sess'[w].pc = sess[w].pc /\ sess'[w].goal = sess[w].goal
  \/ sess'[w].pc \notin ChangesStock
  \/ <<sess'[w].pc, sess'[w].goal>> \in
       {<<"paid", "paid">>, <<"failed", "payment_failed">>, <<"cancel", "cancelled">>}

\* A loop that has just begun has every item ahead of it.
LoopBegins(s) ==
  /\ s.locked = {} /\ s.want = None
  /\ s.pc \in {"checkout", "failed"} => s.todo = InCart(s.items)
  /\ s.pc = "cancel" => s.todo =
       IF s.seen \in ReleasedOnCancel THEN InCart(s.items) ELSE {}

LoopStep(w) ==
  \/ sess'[w] \in {sess[w], Idle}
  \/ \E p \in Products : NextItem(w, p)
  \/ LockForUpdate(w)
  \/ LoopBegins(sess'[w])

\* A session that goes on with its loop keeps what it has loaded.
LEMMA LoopKeepsLoaded ==
  ASSUME ShopInv, NEW w \in Workers,
         (\E p \in Products : NextItem(w, p)) \/ LockForUpdate(w)
  PROVE  /\ \A v \in Workers \ {w} : sess'[v] = sess[v]
         /\ sess'[w].pc = sess[w].pc
         /\ sess'[w].order = sess[w].order
         /\ sess'[w].seen = sess[w].seen
         /\ sess'[w].goal = sess[w].goal
         /\ sess'[w].items = sess[w].items
         /\ UNCHANGED <<committed, faults>>
<1>1. sess \in [Workers -> Sessions]
  BY DEF ShopInv, TypeOK
<1>2. CASE \E p \in Products : NextItem(w, p)
  <2>1. PICK p \in Products : NextItem(w, p)
    BY <1>2
  <2>2. PICK rows :
          /\ sess' = [sess EXCEPT ![w] = [sess[w] EXCEPT !.want = p, !.rows = rows]]
          /\ UNCHANGED <<committed, faults>>
    BY <2>1 DEF NextItem
  <2> QED
    BY <1>1, <2>2 DEF Sessions
<1>3. CASE LockForUpdate(w)
  BY <1>1, <1>3 DEF LockForUpdate, Sessions
<1> QED
  BY <1>2, <1>3

\* A handler of an order starts with what is committed of it.
LEMMA StartsLoaded ==
  ASSUME ShopInv, NEW w \in Workers, VerifySucceeds(w) \/ VerifyFails(w) \/ Request(w)
  PROVE  /\ \A v \in Workers \ {w} : sess'[v] = sess[v]
         /\ SeenFresh(w) /\ GoalFresh(w) /\ LoopBegins(sess'[w])
         /\ UNCHANGED <<product_inventory, orders, order_status_history, purchases, refunds, overridden>>
<1>1. sess \in [Workers -> Sessions]
  BY DEF ShopInv, TypeOK
<1>2. ASSUME NEW s, sess' = [sess EXCEPT ![w] = s],
             s.pc \in Movers => s.seen = orders[s.order].status,
             s.pc \notin ChangesStock \/ <<s.pc, s.goal>> \in
               {<<"paid", "paid">>, <<"failed", "payment_failed">>, <<"cancel", "cancelled">>},
             LoopBegins(s)
      PROVE  /\ \A v \in Workers \ {w} : sess'[v] = sess[v]
             /\ SeenFresh(w) /\ GoalFresh(w) /\ LoopBegins(sess'[w])
  BY <1>1, <1>2 DEF SeenFresh, GoalFresh
<1>3. CASE VerifySucceeds(w)
  <2> DEFINE s == Deciding(sess[w], "paid", "paid")
  <2>1. /\ s.pc = "paid" /\ s.goal = "paid" /\ s.order = sess[w].order
        /\ s.seen = orders[sess[w].order].status
    BY <1>1 DEF Deciding, Sessions
  <2>3. LoopBegins(s)
    <3>1. sess[w].pc = "claimed"
      BY <1>3 DEF VerifySucceeds
    <3>2. sess[w].locked = {} /\ sess[w].want = None
      BY <3>1 DEF ShopInv, SessionsIsolated, SessionsSound, LoopCoversOrder, NoLoop
    <3> QED
      BY <1>1, <3>2 DEF LoopBegins, Deciding, Sessions
  <2>2. /\ sess' = [sess EXCEPT ![w] = s]
        /\ UNCHANGED <<product_inventory, orders, order_status_history, purchases, refunds, overridden>>
    BY <1>3 DEF VerifySucceeds
  <2> HIDE DEF s
  <2> QED
    BY <1>2, <2>1, <2>2, <2>3
<1>4. CASE VerifyFails(w)
  <2> DEFINE s == Deciding(sess[w], "failed", "payment_failed")
  <2>1. /\ s.pc = "failed" /\ s.goal = "payment_failed" /\ s.order = sess[w].order
        /\ s.seen = orders[sess[w].order].status
    BY <1>1 DEF Deciding, Sessions
  <2>3. LoopBegins(s)
    <3>1. sess[w].pc = "claimed"
      BY <1>4 DEF VerifyFails
    <3>2. sess[w].locked = {} /\ sess[w].want = None
      BY <3>1 DEF ShopInv, SessionsIsolated, SessionsSound, LoopCoversOrder, NoLoop
    <3> QED
      BY <1>1, <3>2 DEF LoopBegins, Deciding, Sessions
  <2>2. /\ sess' = [sess EXCEPT ![w] = s]
        /\ UNCHANGED <<product_inventory, orders, order_status_history, purchases, refunds, overridden>>
    BY <1>4 DEF VerifyFails, committed
  <2> HIDE DEF s
  <2> QED
    BY <1>2, <2>1, <2>2, <2>3
<1>5. CASE Request(w)
  <2> DEFINE Goal == /\ \A v \in Workers \ {w} : sess'[v] = sess[v]
                     /\ SeenFresh(w) /\ GoalFresh(w) /\ LoopBegins(sess'[w])
  <2>1. UNCHANGED <<product_inventory, orders, order_status_history, purchases, refunds, overridden>>
    BY <1>5 DEF Request, Checkout, InitPayment, Callback, Cancel, AdminUpdateStatus, committed
  <2>2. ASSUME NEW s, Start(w, s), s.pc \in {"checkout", "init", "claimed"}, LoopBegins(s)
        PROVE  Goal
    BY <1>2, <2>2 DEF Start, Movers, ChangesStock
  <2>3. ASSUME (\E o \in Orders : InitPayment(w, o))
               \/ (\E o \in Orders, k \in Attempts : Callback(w, o, k))
        PROVE  Goal
    BY <2>2, <2>3 DEF InitPayment, Callback, Idle, LoopBegins
  <2>6. ASSUME NEW u \in Customers, Checkout(w, u)
        PROVE  Goal
    <3> DEFINE s == [Idle EXCEPT !.pc = "checkout", !.user = u,
                                 !.seen = "pending", !.goal = "awaiting_payment",
                                 !.items = carts[u], !.todo = InCart(carts[u])]
    <3>1. s.pc = "checkout" /\ s.locked = {} /\ s.want = None /\ s.todo = InCart(s.items)
      BY DEF Idle
    <3>2. Start(w, s)
      BY <2>6 DEF Checkout
    <3> HIDE DEF s
    <3> QED
      BY <2>2, <3>1, <3>2 DEF LoopBegins
  <2>4. ASSUME NEW o \in Orders, Cancel(w, o)
        PROVE  Goal
    <3> DEFINE s == [Idle EXCEPT !.pc = "cancel", !.order = o, !.seen = orders[o].status,
                           !.goal = "cancelled", !.items = orders[o].items,
                           !.todo = IF orders[o].status \in ReleasedOnCancel
                                    THEN InCart(orders[o].items) ELSE {}]
    <3>1. /\ s.pc = "cancel" /\ s.goal = "cancelled" /\ s.order = o
          /\ s.seen = orders[o].status /\ s.items = orders[o].items
          /\ s.locked = {} /\ s.want = None
          /\ s.todo = IF s.seen \in ReleasedOnCancel THEN InCart(s.items) ELSE {}
      BY DEF Idle
    <3>2. sess' = [sess EXCEPT ![w] = s]
      BY <2>4 DEF Cancel, Start
    <3> HIDE DEF s
    <3>3. LoopBegins(s)
      BY <3>1 DEF LoopBegins
    <3> QED
      BY <1>2, <3>1, <3>2, <3>3
  <2>5. ASSUME NEW o \in Orders, NEW goal \in AdminGoals, AdminUpdateStatus(w, o, goal)
        PROVE  Goal
    <3> DEFINE s == [Idle EXCEPT !.pc = "admin", !.order = o, !.seen = orders[o].status,
                                 !.goal = goal]
    <3>1. /\ s.pc = "admin" /\ s.order = o /\ s.seen = orders[o].status
          /\ s.locked = {} /\ s.want = None
      BY DEF Idle
    <3>2. sess' = [sess EXCEPT ![w] = s]
      BY <2>5 DEF AdminUpdateStatus, Start
    <3> HIDE DEF s
    <3>3. LoopBegins(s) /\ s.pc \notin ChangesStock
      BY <3>1 DEF LoopBegins, ChangesStock
    <3> QED
      BY <1>2, <3>1, <3>2, <3>3
  <2> QED
    BY <1>5, <2>1, <2>3, <2>4, <2>5, <2>6 DEF Request
<1> QED
  BY <1>3, <1>4, <1>5

\* What the commit of a mover does to its order, and to no other.
LEMMA MoverEffect ==
  ASSUME ShopInv, SerialInv, NEW w \in Workers, MoverCommits(w),
         NEW o, o = sess[w].order
  PROVE  /\ sess[w].pc \in Movers /\ o \in Orders
         /\ sess[w].seen = orders[o].status
         /\ <<orders[o].status, sess[w].goal>> \in ALLOWED_TRANSITIONS
         /\ orders'[o].status = sess[w].goal
         /\ \A oo \in Orders \ {o} : orders'[oo] = orders[oo]
         /\ \A oo \in Orders : orders'[oo].items = orders[oo].items
         /\ <<orders[o].status, sess[w].goal>> \in order_status_history'[o]
         /\ sess' = [sess EXCEPT ![w] = Idle]
<1>1. sess[w].pc \in Movers /\ Transition(sess[w]) /\ sess' = [sess EXCEPT ![w] = Idle]
  BY DEF MoverCommits, CommitPaid, CommitPaymentFailed, CommitCancel, CommitAdminUpdate,
         Movers, End
<1>2. o \in Orders
  BY <1>1 DEF ShopInv, SessionsIsolated, SessionsSound, KnowsOrder, OnOrder, Movers
<1>3. sess[w].seen = orders[o].status
  BY <1>1 DEF SerialInv, MoversCurrent
<1>4. /\ orders \in [Orders -> [status : OrderStatuses \cup {"none"}, items : Quantities]]
      /\ order_status_history \in [Orders -> SUBSET (OrderStatuses \X OrderStatuses)]
  BY DEF ShopInv, TypeOK
<1>5. /\ <<sess[w].seen, sess[w].goal>> \in ALLOWED_TRANSITIONS
      /\ orders' = [orders EXCEPT ![o].status = sess[w].goal]
      /\ order_status_history' =
           [order_status_history EXCEPT ![o] = @ \cup {<<sess[w].seen, sess[w].goal>>}]
  BY <1>1 DEF Transition, CanTransition
<1>6. /\ orders'[o].status = sess[w].goal
      /\ \A oo \in Orders \ {o} : orders'[oo] = orders[oo]
      /\ \A oo \in Orders : orders'[oo].items = orders[oo].items
  BY <1>2, <1>4, <1>5
<1>7. <<orders[o].status, sess[w].goal>> \in order_status_history'[o]
  BY <1>2, <1>3, <1>4, <1>5
<1> QED
  BY <1>1, <1>2, <1>3, <1>5, <1>6, <1>7

\* What it adds to the purchases and refunds.
LEMMA MoverCounts ==
  ASSUME ShopInv, SerialInv, NEW w \in Workers, MoverCommits(w), NEW o \in Orders
  PROVE  /\ \/ purchases'[o] = purchases[o]
            \/ /\ o = sess[w].order /\ sess[w].goal = "paid"
               /\ purchases'[o] = purchases[o] + 1
         /\ \/ refunds'[o] = refunds[o]
            \/ /\ o = sess[w].order /\ sess[w].goal = "refunded"
               /\ refunds'[o] = refunds[o] + 1
<1>1. purchases \in [Orders -> Nat] /\ refunds \in [Orders -> Nat]
  BY DEF ShopInv, TypeOK
<1>2. /\ \/ purchases' = purchases
         \/ /\ sess[w].pc = "paid"
            /\ purchases' = [purchases EXCEPT ![sess[w].order] = @ + 1]
      /\ \/ refunds' = refunds
         \/ /\ sess[w].goal = "refunded"
            /\ refunds' = [refunds EXCEPT ![sess[w].order] = @ + 1]
  BY DEF MoverCommits, CommitPaid, CommitPaymentFailed, CommitCancel, CommitAdminUpdate
<1>3. sess[w].pc = "paid" => sess[w].goal = "paid"
  BY DEF SerialInv, GoalsFixed
<1> QED
  BY <1>1, <1>2, <1>3

\* A checkout's commit inserts an order nobody knows of.
LEMMA CheckoutEffect ==
  ASSUME ShopInv, NEW w \in Workers, NEW o \in Orders, CommitCheckout(w, o)
  PROVE  /\ sess[w].pc = "checkout" /\ orders[o].status = "none"
         /\ orders'[o].status = "awaiting_payment"
         /\ orders'[o].items = sess[w].items
         /\ \A oo \in Orders \ {o} : orders'[oo] = orders[oo]
         /\ UNCHANGED <<purchases, refunds, overridden>>
         /\ sess' = [sess EXCEPT ![w] = Idle]
         /\ \A v \in Workers : sess[v].pc \in Movers => sess[v].order \in Orders \ {o}
<1>1. sess[w].goal = "awaiting_payment"
  BY DEF CommitCheckout, ShopInv, SessionsIsolated, SessionsSound, KnowsOrder
<1>2. orders \in [Orders -> [status : OrderStatuses \cup {"none"}, items : Quantities]]
  BY DEF ShopInv, TypeOK
<1>3. orders[o].status = "none"
      /\ orders' = [orders EXCEPT ![o] = [status |-> "awaiting_payment", items |-> sess[w].items]]
  BY <1>1 DEF CommitCheckout
<1>4. \A v \in Workers : sess[v].pc \in Movers => sess[v].order \in Orders \ {o}
  BY <1>3 DEF ShopInv, SessionsIsolated, SessionsSound, KnowsOrder, OnOrder, Movers
<1>5. /\ orders'[o].status = "awaiting_payment"
      /\ orders'[o].items = sess[w].items
      /\ \A oo \in Orders \ {o} : orders'[oo] = orders[oo]
  BY <1>2, <1>3
<1> QED
  BY <1>3, <1>4, <1>5 DEF CommitCheckout, End

\* No reservation changes.
ReservedKept ==
  \A p \in Products : product_inventory'[p].reserved = product_inventory[p].reserved

\* A step commits a checkout, or moves an order, or touches none.
LEMMA StepKinds ==
  ASSUME ShopInv, [Next]_vars
  PROVE  \/ \E w \in Workers, o \in Orders : CommitCheckout(w, o)
         \/ \E w \in Workers : MoverCommits(w)
         \/ /\ UNCHANGED <<orders, order_status_history, purchases, refunds, overridden>>
            /\ ReservedKept
            /\ \A v \in Workers : SeenFresh(v) /\ GoalFresh(v) /\ LoopStep(v)
<1> DEFINE Quiet == /\ UNCHANGED <<orders, order_status_history, purchases, refunds, overridden>>
                    /\ ReservedKept
                    /\ \A v \in Workers : SeenFresh(v) /\ GoalFresh(v) /\ LoopStep(v)
<1>t. sess \in [Workers -> Sessions]
  BY DEF ShopInv, TypeOK
<1>1. ASSUME NEW v \in Workers, sess'[v] = sess[v]
      PROVE  SeenFresh(v) /\ GoalFresh(v) /\ LoopStep(v)
  BY <1>1 DEF SeenFresh, GoalFresh, LoopStep
<1>r. product_inventory' = product_inventory => ReservedKept
  BY DEF ReservedKept
<1>2. ASSUME NEW w \in Workers, sess' = [sess EXCEPT ![w] = Idle]
      PROVE  \A v \in Workers : SeenFresh(v) /\ GoalFresh(v) /\ LoopStep(v)
  <2>1. sess'[w] = Idle /\ sess'[w].pc = "idle"
    BY <1>t, <1>2 DEF Idle
  <2>2. SeenFresh(w) /\ GoalFresh(w) /\ LoopStep(w)
    BY <2>1 DEF SeenFresh, GoalFresh, LoopStep, Movers, ChangesStock
  <2>3. \A v \in Workers \ {w} : sess'[v] = sess[v]
    BY <1>t, <1>2
  <2> QED
    BY <1>1, <2>2, <2>3
<1>3. ASSUME NEW w \in Workers, (\E p \in Products : NextItem(w, p)) \/ LockForUpdate(w)
      PROVE  Quiet
  <2>1. SeenFresh(w) /\ GoalFresh(w) /\ LoopStep(w)
    BY <1>3, LoopKeepsLoaded DEF SeenFresh, GoalFresh, LoopStep
  <2> QED
    BY <1>1, <1>3, <1>r, <2>1, LoopKeepsLoaded DEF committed
<1>4. ASSUME NEW w \in Workers, VerifySucceeds(w) \/ VerifyFails(w) \/ Request(w)
      PROVE  Quiet
  BY <1>1, <1>4, <1>r, StartsLoaded DEF LoopStep
<1>5. ASSUME NEW w \in Workers,
             (\E k \in Attempts : CommitPayment(w, k)) \/ Reject(w) \/ DeadlockAbort(w) \/ Fail(w)
      PROVE  Quiet
  BY <1>2, <1>5, <1>r DEF CommitPayment, Reject, DeadlockAbort, Fail, End, committed
<1>6. CASE AtGateway \/ StockCorrection \/ UNCHANGED vars
  <2>1. UNCHANGED <<orders, order_status_history, purchases, refunds, overridden, sess>>
    BY <1>6 DEF AtGateway, CustomerPays, StockCorrection, Restock, Adjust, vars
  <2>2. ReservedKept
    <3>1. CASE AtGateway \/ UNCHANGED vars
      BY <1>r, <3>1 DEF AtGateway, CustomerPays, vars
    <3>2. CASE StockCorrection
      <4>1. PICK p \in Products, delta \in StockDeltas : Restock(p, delta) \/ Adjust(p, delta)
        BY <3>2 DEF StockCorrection
      <4>2. product_inventory' =
              [product_inventory EXCEPT ![p].total = product_inventory[p].total + delta]
        BY <4>1 DEF Restock, Adjust
      <4>3. product_inventory \in [Products -> Rows]
        BY DEF ShopInv, TypeOK
      <4> QED
        BY <4>2, <4>3 DEF ReservedKept, Rows
    <3> QED
      BY <1>6, <3>1, <3>2
  <2> QED
    BY <1>1, <2>1, <2>2
<1> QED
  BY <1>3, <1>4, <1>5, <1>6 DEF Next, Step, MoverCommits

\* A mover still has the order's status: nobody else moves its order.
LEMMA MoversStayCurrent ==
  ASSUME ShopInv, SerialInv, [Next]_vars
  PROVE  MoversCurrent' /\ GoalsFixed'
<1>t. sess \in [Workers -> Sessions]
  BY DEF ShopInv, TypeOK
<1>k. \A v \in Workers : sess[v].pc \in Movers =>
        /\ sess[v].order \in Orders
        /\ sess[v].seen = orders[sess[v].order].status
  BY DEF ShopInv, SessionsIsolated, SessionsSound, KnowsOrder, OnOrder, Movers,
         SerialInv, MoversCurrent
<1>g. ASSUME NEW w \in Workers, sess' = [sess EXCEPT ![w] = Idle]
      PROVE  /\ GoalsFixed'
             /\ sess'[w].pc \notin Movers
             /\ \A v \in Workers \ {w} : sess'[v] = sess[v]
  <2>1. sess'[w].pc = "idle" /\ \A v \in Workers \ {w} : sess'[v] = sess[v]
    BY <1>t, <1>g DEF Idle
  <2> QED
    BY <2>1 DEF SerialInv, GoalsFixed, Movers
<1>1. ASSUME NEW w \in Workers, NEW o \in Orders, CommitCheckout(w, o)
      PROVE  MoversCurrent' /\ GoalsFixed'
  BY <1>1, <1>k, <1>g, CheckoutEffect DEF MoversCurrent
<1>2. ASSUME NEW w \in Workers, MoverCommits(w)
      PROVE  MoversCurrent' /\ GoalsFixed'
  <2> DEFINE o == sess[w].order
  <2>1. /\ sess[w].pc \in Movers
        /\ \A oo \in Orders \ {o} : orders'[oo] = orders[oo]
        /\ sess' = [sess EXCEPT ![w] = Idle]
    BY <1>2, MoverEffect
  <2>2. \A v \in Workers \ {w} : sess[v].pc \in Movers => sess[v].order # o
    BY <2>1 DEF SerialInv, OneMoverPerOrder
  <2>3. GoalsFixed' /\ sess'[w].pc \notin Movers /\ \A v \in Workers \ {w} : sess'[v] = sess[v]
    BY <1>g, <2>1
  <2>4. ASSUME NEW v \in Workers, sess'[v].pc \in Movers
        PROVE  sess'[v].seen = orders'[sess'[v].order].status
    <3>1. v # w /\ sess'[v] = sess[v]
      BY <2>3, <2>4
    <3>2. sess[v].order \in Orders \ {o} /\ sess[v].seen = orders[sess[v].order].status
      BY <1>k, <2>2, <2>4, <3>1
    <3> QED
      BY <2>1, <3>1, <3>2
  <2> QED
    BY <2>3, <2>4 DEF MoversCurrent
<1>3. ASSUME orders' = orders, \A v \in Workers : SeenFresh(v) /\ GoalFresh(v)
      PROVE  MoversCurrent' /\ GoalsFixed'
  <2>1. MoversCurrent'
    BY <1>3, <1>k DEF MoversCurrent, SeenFresh
  <2>2. GoalsFixed'
    BY <1>3 DEF GoalFresh, SerialInv, GoalsFixed, ChangesStock
  <2> QED
    BY <2>1, <2>2
<1> QED
  BY <1>1, <1>2, <1>3, StepKinds

\* The committed status moves along the table, once at a time.
LEMMA StatusMoves ==
  ASSUME ShopInv, SerialInv, [Next]_vars
  PROVE  StatusStep
<1>1. ASSUME NEW w \in Workers, NEW o \in Orders, CommitCheckout(w, o)
      PROVE  StatusStep
  <2>1. <<"pending", "awaiting_payment">> \in ALLOWED_TRANSITIONS
    BY DEF ALLOWED_TRANSITIONS
  <2> QED
    BY <1>1, <2>1, CheckoutEffect DEF StatusStep
<1>2. ASSUME NEW w \in Workers, MoverCommits(w)
      PROVE  StatusStep
  <2>1. \A from, to : <<from, to>> \in ALLOWED_TRANSITIONS => from # "none"
    BY DEF ALLOWED_TRANSITIONS, CancellableFrom, RefundableFrom
  <2> QED
    BY <1>2, <2>1, MoverEffect DEF StatusStep
<1> QED
  BY <1>1, <1>2, StepKinds DEF StatusStep

\* What has been purchased is not paid again, and what is refunded stays so.
LEMMA CountsKept ==
  ASSUME ShopInv, SerialInv, [Next]_vars
  PROVE  StatusRemembers' /\ PurchasedAtMostOnce' /\ RefundAtMostOnce'
<1>i. /\ StatusRemembers
      /\ \A o \in Orders : purchases[o] <= 1 /\ refunds[o] <= 1
  BY DEF SerialInv, PurchasedAtMostOnce, RefundAtMostOnce
<1>n. purchases \in [Orders -> Nat] /\ refunds \in [Orders -> Nat]
  BY DEF ShopInv, TypeOK
<1>1. ASSUME NEW w \in Workers, NEW o \in Orders, CommitCheckout(w, o)
      PROVE  StatusRemembers' /\ PurchasedAtMostOnce' /\ RefundAtMostOnce'
  <2>1. "none" \notin Purchased
    BY DEF Purchased
  <2> QED
    BY <1>1, <1>i, <1>n, <2>1, CheckoutEffect
    DEF StatusRemembers, PurchasedAtMostOnce, RefundAtMostOnce
<1>2. ASSUME NEW w \in Workers, MoverCommits(w), NEW o \in Orders
      PROVE  /\ purchases'[o] <= 1 /\ refunds'[o] <= 1
             /\ purchases'[o] > 0 => orders'[o].status \in Purchased
             /\ refunds'[o] > 0 => orders'[o].status = "refunded"
  <2>1. CASE o # sess[w].order
    <3>m. \A oo \in Orders \ {sess[w].order} : orders'[oo] = orders[oo]
      BY <1>2, MoverEffect
    <3>1. orders'[o] = orders[o]
      BY <2>1, <3>m
    <3>2. purchases'[o] = purchases[o] /\ refunds'[o] = refunds[o]
      BY <1>2, <2>1, MoverCounts
    <3> QED
      BY <1>i, <3>1, <3>2 DEF StatusRemembers
  <2>2. CASE o = sess[w].order
    <3>1. /\ <<orders[o].status, sess[w].goal>> \in ALLOWED_TRANSITIONS
          /\ orders'[o].status = sess[w].goal
      BY <1>2, <2>2, MoverEffect
    <3>2. \A from, to : <<from, to>> \in ALLOWED_TRANSITIONS =>
            /\ from \in Purchased => to \in Purchased
            /\ to = "paid" => from = "awaiting_payment"
            /\ from # "refunded"
      BY DEF ALLOWED_TRANSITIONS, CancellableFrom, RefundableFrom, Purchased
    <3>3. orders[o].status # "refunded" /\ refunds[o] = 0
      BY <1>i, <1>n, <3>1, <3>2 DEF StatusRemembers
    <3>4. purchases'[o] <= 1 /\ (purchases'[o] > 0 => orders'[o].status \in Purchased)
      <4>1. CASE purchases'[o] = purchases[o]
        BY <1>i, <3>1, <3>2, <4>1 DEF StatusRemembers
      <4>2. CASE sess[w].goal = "paid" /\ purchases'[o] = purchases[o] + 1
        <5>1. orders[o].status \notin Purchased /\ "paid" \in Purchased
          BY <3>1, <3>2, <4>2 DEF Purchased
        <5>2. purchases[o] = 0
          BY <1>i, <1>n, <5>1 DEF StatusRemembers
        <5> QED
          BY <3>1, <4>2, <5>1, <5>2
      <4> QED
        BY <1>2, <4>1, <4>2, MoverCounts
    <3>5. refunds'[o] <= 1 /\ (refunds'[o] > 0 => orders'[o].status = "refunded")
      <4>1. \/ refunds'[o] = refunds[o]
            \/ sess[w].goal = "refunded" /\ refunds'[o] = refunds[o] + 1
        BY <1>2, MoverCounts
      <4> QED
        BY <3>1, <3>3, <4>1
    <3> QED
      BY <3>4, <3>5
  <2> QED
    BY <2>1, <2>2
<1>3. ASSUME UNCHANGED <<orders, purchases, refunds>>
      PROVE  StatusRemembers' /\ PurchasedAtMostOnce' /\ RefundAtMostOnce'
  BY <1>3, <1>i DEF StatusRemembers, PurchasedAtMostOnce, RefundAtMostOnce
<1>4. ASSUME NEW w \in Workers, MoverCommits(w)
      PROVE  StatusRemembers' /\ PurchasedAtMostOnce' /\ RefundAtMostOnce'
  BY <1>2, <1>4 DEF StatusRemembers, PurchasedAtMostOnce, RefundAtMostOnce
<1> QED
  BY <1>1, <1>3, <1>4, StepKinds

LEMMA SerialKept ==
  ASSUME ShopInv, SerialInv, [Next /\ OneMoverPerOrder']_vars
  PROVE  SerialInv'
<1>1. OneMoverPerOrder'
  BY DEF SerialInv, OneMoverPerOrder, vars
<1> QED
  BY <1>1, MoversStayCurrent, CountsKept DEF SerialInv

LEMMA InitEstablishesSerial == Init => SerialInv
<1> SUFFICES ASSUME Init PROVE SerialInv
  OBVIOUS
<1>1. \A w \in Workers : sess[w].pc = "idle"
  BY DEF Init, Idle
<1>2. OneMoverPerOrder /\ MoversCurrent /\ GoalsFixed
  BY <1>1 DEF OneMoverPerOrder, MoversCurrent, GoalsFixed, Movers
<1>3. StatusRemembers /\ PurchasedAtMostOnce /\ RefundAtMostOnce
  BY DEF Init, StatusRemembers, PurchasedAtMostOnce, RefundAtMostOnce
<1> QED
  BY <1>2, <1>3 DEF SerialInv

\* Serial requests are requests.
LEMMA SerialIsShop == SerialSpec => Spec
<1>1. [Next /\ OneMoverPerOrder']_vars => [Next]_vars
  OBVIOUS
<1> QED
  BY <1>1, PTL DEF SerialSpec, Spec

\* Without two movers of one order, a mover always knows the order's status,
\* and the status remembers what was purchased and refunded.
THEOREM SerialHolds == SerialSpec => []SerialInv
<1>1. Init => SerialInv
  BY InitEstablishesSerial
<1>2. ShopInv /\ SerialInv /\ [Next /\ OneMoverPerOrder']_vars => SerialInv'
  BY SerialKept
<1> QED
  BY <1>1, <1>2, SerialIsShop, InvariantHolds, PTL DEF SerialSpec

\* However many payments of an order are opened and however often their
\* callbacks come, mark_paid purchases its stock once, unless two requests
\* move the order at the same time.
THEOREM PurchasedOnce == SerialSpec => []PurchasedAtMostOnce
<1>1. SerialInv => PurchasedAtMostOnce
  BY DEF SerialInv
<1> QED
  BY <1>1, SerialHolds, PTL

\* refund_order credits an order's wallet once, unless two requests move the
\* order at the same time (run double_refund).
THEOREM RefundedOnce == SerialSpec => []RefundAtMostOnce
<1>1. SerialInv => RefundAtMostOnce
  BY DEF SerialInv
<1> QED
  BY <1>1, SerialHolds, PTL

\* The committed status of an order moves by ALLOWED_TRANSITIONS only, unless
\* two requests move the order at the same time.
THEOREM TableFollowed == SerialSpec => StatusFollowsTable
<1>1. ShopInv /\ SerialInv /\ [Next /\ OneMoverPerOrder']_vars => [StatusStep]_vars
  BY StatusMoves
<1> QED
  BY <1>1, SerialIsShop, InvariantHolds, SerialHolds, PTL DEF SerialSpec, StatusFollowsTable

-----------------------------------------------------------------------------
(* Reservations while checkouts do not wait: the sessions.                 *)

\* What a commit changes, as the other sessions see it.
LEMMA CommitEffect ==
  ASSUME ShopInv, NEW w \in Workers,
         MoverCommits(w) \/ \E o \in Orders : CommitCheckout(w, o)
  PROVE  /\ sess'[w] = Idle
         /\ \A v \in Workers \ {w} : sess'[v] = sess[v]
         /\ \A p \in Products \ sess[w].locked : product_inventory'[p] = product_inventory[p]
<1>1. sess \in [Workers -> Sessions] /\ sess' = [sess EXCEPT ![w] = Idle]
  BY DEF ShopInv, TypeOK, MoverCommits, CommitPaid, CommitPaymentFailed, CommitCancel,
         CommitAdminUpdate, CommitCheckout, End
<1>2. product_inventory' \in {product_inventory, Flushed(sess[w])}
  BY DEF MoverCommits, CommitPaid, CommitPaymentFailed, CommitCancel, CommitAdminUpdate,
         CommitCheckout
<1>3. \A p \in Products \ sess[w].locked : Flushed(sess[w])[p] = product_inventory[p]
  BY DEF Flushed
<1> QED
  BY <1>1, <1>2, <1>3

\* So every session is left alone or takes a step of its loop.
LEMMA AllLoopStep ==
  ASSUME ShopInv, [Next]_vars, NEW v \in Workers
  PROVE  LoopStep(v)
<1>1. ASSUME NEW w \in Workers, MoverCommits(w) \/ \E o \in Orders : CommitCheckout(w, o)
      PROVE  LoopStep(v)
  BY <1>1, CommitEffect DEF LoopStep
<1> QED
  BY <1>1, StepKinds

\* LockForUpdate takes the item the loop is at from those it has still to do.
LEMMA LockTakesItem ==
  ASSUME ShopInv, NEW v \in Workers, LockForUpdate(v),
         NEW s, s = sess[v], NEW t, t = sess'[v], NEW p, p = s.want
  PROVE  /\ p \in s.todo /\ p \in Products
         /\ t.todo = s.todo \ {p} /\ t.locked = s.locked \cup {p} /\ t.want = None
         /\ t.rows[p] = Changed(s, LockedRow(s, p), s.items[p])
         /\ \A q \in Products \ {p} : t.rows[q] = s.rows[q]
<1>1. sess \in [Workers -> Sessions] /\ s \in Sessions /\ p \in Products
  BY DEF ShopInv, TypeOK, LockForUpdate
<1>2. p \in s.todo
  BY <1>1, NoneAssumption DEF ShopInv, SessionsIsolated, SessionsSound, LoopCoversOrder
<1>3. t = [s EXCEPT !.want = None, !.todo = @ \ {p}, !.locked = @ \cup {p},
                    !.rows = [@ EXCEPT ![p] = Changed(s, LockedRow(s, p), s.items[p])]]
  BY <1>1 DEF LockForUpdate
<1>4. /\ t.todo = s.todo \ {p} /\ t.locked = s.locked \cup {p} /\ t.want = None
      /\ t.rows = [s.rows EXCEPT ![p] = Changed(s, LockedRow(s, p), s.items[p])]
  BY <1>1, <1>3 DEF Sessions
<1>5. s.rows \in [Products -> Rows]
  BY <1>1 DEF Sessions
<1> QED
  BY <1>1, <1>2, <1>4, <1>5

\* NextItem picks one of the items still to do and, in checkout, loads its row.
LEMMA NextTakesItem ==
  ASSUME ShopInv, NEW v \in Workers, NEW p \in Products, NextItem(v, p),
         NEW s, s = sess[v], NEW t, t = sess'[v]
  PROVE  /\ p \in s.todo
         /\ t.todo = s.todo /\ t.locked = s.locked /\ t.want = p
         /\ s.pc = "checkout" => t.rows[p] = product_inventory[p]
         /\ \A q \in Products \ {p} : t.rows[q] = s.rows[q]
<1>1. sess \in [Workers -> Sessions] /\ s \in Sessions /\ s.rows \in [Products -> Rows]
  BY DEF ShopInv, TypeOK, Sessions
<1> DEFINE rows == IF s.pc = "checkout" THEN [s.rows EXCEPT ![p] = product_inventory[p]]
                                        ELSE s.rows
<1>2. p \in s.todo /\ t = [s EXCEPT !.want = p, !.rows = rows]
  BY <1>1 DEF NextItem
<1>3. /\ s.pc = "checkout" => rows[p] = product_inventory[p]
      /\ \A q \in Products \ {p} : rows[q] = s.rows[q]
  BY <1>1
<1> HIDE DEF rows
<1>4. t.todo = s.todo /\ t.locked = s.locked /\ t.want = p /\ t.rows = rows
  BY <1>1, <1>2 DEF Sessions
<1> QED
  BY <1>2, <1>3, <1>4

LEMMA LoopsStayComplete ==
  ASSUME ShopInv, [Next]_vars, NEW v \in Workers, LoopComplete(sess[v])
  PROVE  LoopComplete(sess[v])'
<1>1. CASE sess'[v] = sess[v]
  BY <1>1 DEF LoopComplete, InCart
<1>2. CASE sess'[v] = Idle
  BY <1>2 DEF LoopComplete, Idle
<1>3. CASE LoopBegins(sess'[v])
  BY <1>3 DEF LoopBegins, LoopComplete, InCart
<1>4. CASE LockForUpdate(v) \/ \E p \in Products : NextItem(v, p)
  <2>1. /\ sess'[v].pc = sess[v].pc /\ sess'[v].seen = sess[v].seen
        /\ sess'[v].items = sess[v].items
    BY <1>4, LoopKeepsLoaded
  <2>2. sess'[v].todo \cup sess'[v].locked = sess[v].todo \cup sess[v].locked
    BY <1>4, LockTakesItem, NextTakesItem
  <2> QED
    BY <2>1, <2>2 DEF LoopComplete, InCart
<1> QED
  BY <1>1, <1>2, <1>3, <1>4, AllLoopStep DEF LoopStep

LEMMA RowsStayFresh ==
  ASSUME ShopInv, [Next]_vars, NoCheckoutWaits, NEW v \in Workers, RowsFresh(sess[v])
  PROVE  RowsFresh(sess[v])'
<1> DEFINE s == sess[v]
           t == sess'[v]
<1>t. /\ s \in Sessions /\ s.locked \subseteq Products /\ s.want \in Products \cup {None}
      /\ s.rows \in [Products -> Rows] /\ s.items \in Quantities
      /\ product_inventory \in [Products -> Rows]
  BY DEF ShopInv, TypeOK, Sessions
<1>1. CASE sess'[v] = Idle
  BY <1>1 DEF RowsFresh, Idle
<1>2. ASSUME sess'[v] = sess[v],
             \A p \in s.locked \cup ({s.want} \ {None}) :
               s.pc = "checkout" =>
                 product_inventory'[p].reserved = product_inventory[p].reserved
      PROVE  RowsFresh(sess[v])'
  BY <1>2 DEF RowsFresh
<1>3. ASSUME NEW w \in Workers, MoverCommits(w) \/ \E o \in Orders : CommitCheckout(w, o)
      PROVE  RowsFresh(sess[v])'
  <2>1. CASE v = w
    BY <1>1, <1>3, <2>1, CommitEffect
  <2>2. CASE v # w
    <3>1. sess'[v] = sess[v]
      BY <1>3, <2>2, CommitEffect
    <3>2. s.locked \cap sess[w].locked = {}
      BY <2>2 DEF ShopInv, SessionsIsolated, LocksExclusive
    <3>3. s.pc = "checkout" => s.want \notin sess[w].locked
      BY <2>2 DEF NoCheckoutWaits, WaitsFor
    <3>4. \A p \in Products \ sess[w].locked : product_inventory'[p] = product_inventory[p]
      BY <1>3, CommitEffect
    <3> QED
      BY <1>t, <1>2, <3>1, <3>2, <3>3, <3>4
  <2> QED
    BY <2>1, <2>2
<1>4. CASE LoopBegins(sess'[v])
  BY <1>4 DEF LoopBegins, RowsFresh
<1>5. ASSUME ReservedKept, LockForUpdate(v), s.pc = "checkout"
      PROVE  RowsFresh(sess[v])'
  <2> DEFINE p == s.want
  <2>1. /\ p \in s.todo /\ p \in Products
        /\ t.todo = s.todo \ {p} /\ t.locked = s.locked \cup {p} /\ t.want = None
        /\ t.rows[p] = Changed(s, LockedRow(s, p), s.items[p])
        /\ \A q \in Products \ {p} : t.rows[q] = s.rows[q]
    BY <1>5, LockTakesItem
  <2>2. t.items = s.items
    BY <1>5, LoopKeepsLoaded
  <2>3. t.rows[p] = Reserve(s.rows[p], s.items[p])
    BY <1>5, <2>1 DEF Changed, LockedRow
  <2>4. t.rows[p].reserved = s.rows[p].reserved + s.items[p]
    BY <1>t, <2>1, <2>3 DEF Reserve, Rows
  <2>5. /\ s.todo \cap s.locked = {}
        /\ s.rows[p].reserved = product_inventory[p].reserved
        /\ \A q \in s.locked : s.rows[q].reserved = product_inventory[q].reserved + s.items[q]
    BY <1>5, <2>1, NoneAssumption DEF RowsFresh
  <2>6. \A q \in t.locked : t.rows[q].reserved = product_inventory'[q].reserved + t.items[q]
    <3> TAKE q \in t.locked
    <3>1. CASE q = p
      BY <1>5, <2>1, <2>2, <2>4, <2>5, <3>1 DEF ReservedKept
    <3>2. CASE q # p
      <4>1. q \in s.locked /\ q \in Products
        BY <1>t, <2>1, <3>2
      <4>2. t.rows[q] = s.rows[q]
        BY <2>1, <3>2, <4>1
      <4> QED
        BY <1>5, <2>2, <2>5, <4>1, <4>2 DEF ReservedKept
    <3> QED
      BY <3>1, <3>2
  <2> QED
    BY <2>1, <2>5, <2>6 DEF RowsFresh
<1>6. ASSUME ReservedKept, NEW p \in Products, NextItem(v, p), s.pc = "checkout"
      PROVE  RowsFresh(sess[v])'
  <2>1. /\ p \in s.todo
        /\ t.todo = s.todo /\ t.locked = s.locked /\ t.want = p
        /\ t.rows[p] = product_inventory[p]
        /\ \A q \in Products \ {p} : t.rows[q] = s.rows[q]
    BY <1>6, NextTakesItem
  <2>2. t.items = s.items
    BY <1>6, LoopKeepsLoaded
  <2>3. /\ s.todo \cap s.locked = {}
        /\ \A q \in s.locked : s.rows[q].reserved = product_inventory[q].reserved + s.items[q]
    BY <1>6 DEF RowsFresh
  <2>4. \A q \in t.locked : t.rows[q].reserved = product_inventory'[q].reserved + t.items[q]
    <3> TAKE q \in t.locked
    <3>1. q \in s.locked /\ q \in Products \ {p}
      BY <1>t, <2>1, <2>3
    <3>2. t.rows[q] = s.rows[q]
      BY <2>1, <3>1
    <3> QED
      BY <1>6, <2>2, <2>3, <3>1, <3>2 DEF ReservedKept
  <2>5. t.rows[t.want].reserved = product_inventory'[t.want].reserved
    BY <1>6, <2>1 DEF ReservedKept
  <2> QED
    BY <2>1, <2>3, <2>4, <2>5 DEF RowsFresh
<1>7. ASSUME ReservedKept, LoopStep(v)
      PROVE  RowsFresh(sess[v])'
  <2>1. CASE sess'[v] = sess[v]
    BY <1>2, <1>7, <1>t, <2>1 DEF ReservedKept
  <2>2. CASE LockForUpdate(v) \/ \E p \in Products : NextItem(v, p)
    <3>1. sess'[v].pc = s.pc
      BY <2>2, LoopKeepsLoaded
    <3>2. CASE s.pc # "checkout"
      BY <3>1, <3>2 DEF RowsFresh
    <3> QED
      BY <1>5, <1>6, <1>7, <2>2, <3>2
  <2> QED
    BY <1>1, <1>4, <1>7, <2>1, <2>2 DEF LoopStep
<1> QED
  BY <1>3, <1>7, StepKinds

-----------------------------------------------------------------------------
(* The units that are promised.                                            *)

LEMMA UnitsCount ==
  ASSUME NEW o, NEW n \in Nat
  PROVE  /\ IsFiniteSet({o} \X (1..n))
         /\ Cardinality({o} \X (1..n)) = n
<1>1. IsFiniteSet({o}) /\ Cardinality({o}) = 1
  BY FS_Singleton
<1>2. IsFiniteSet(1..n) /\ Cardinality(1..n) = n
  BY FS_Interval
<1>3. /\ IsFiniteSet({o} \X (1..n))
      /\ Cardinality({o} \X (1..n)) = Cardinality({o}) * Cardinality(1..n)
  <2> DEFINE S == {o}
             T == 1..n
  <2>1. IsFiniteSet(S) /\ IsFiniteSet(T)
    BY <1>1, <1>2
  <2> HIDE DEF S, T
  <2>2. IsFiniteSet(S \X T) /\ Cardinality(S \X T) = Cardinality(S) * Cardinality(T)
    BY <2>1, FS_Product
  <2> QED
    BY <2>2 DEF S, T
<1> QED
  BY <1>1, <1>2, <1>3

\* What two disjoint sets and a subset count.
LEMMA DisjointCount ==
  ASSUME NEW S, NEW T, IsFiniteSet(S), IsFiniteSet(T), S \cap T = {}
  PROVE  /\ IsFiniteSet(S \cup T)
         /\ Cardinality(S \cup T) = Cardinality(S) + Cardinality(T)
<1>1. /\ IsFiniteSet(S \cup T)
      /\ Cardinality(S \cup T) = Cardinality(S) + Cardinality(T) - Cardinality(S \cap T)
  BY FS_Union
<1>2. Cardinality(S \cap T) = 0
  BY FS_EmptySet
<1>3. Cardinality(S) \in Nat /\ Cardinality(T) \in Nat
  BY FS_CardinalityType
<1> QED
  BY <1>1, <1>2, <1>3

LEMMA SubsetCount ==
  ASSUME NEW S, NEW T, IsFiniteSet(S), T \subseteq S
  PROVE  /\ IsFiniteSet(S \ T)
         /\ Cardinality(S) \in Nat /\ Cardinality(S \ T) \in Nat
         /\ Cardinality(S \ T) = Cardinality(S) - Cardinality(T)
<1>1. S \cap T = T
  OBVIOUS
<1>2. /\ IsFiniteSet(S \ T)
      /\ Cardinality(S \ T) = Cardinality(S) - Cardinality(S \cap T)
  BY FS_Difference
<1>3. Cardinality(S) \in Nat /\ Cardinality(S \ T) \in Nat
  BY <1>2, FS_CardinalityType
<1> QED
  BY <1>1, <1>2, <1>3

\* Held units: those of the orders whose items ought to be reserved.
Held(p) == Units(Reserving, p)

LEMMA UnitsMatter ==
  ASSUME NEW p \in Products, Reserving \subseteq Orders, Reserving' = Reserving,
         \A o \in Orders : orders'[o].items = orders[o].items
  PROVE  Held(p)' = Held(p)
  BY DEF Held, Units

\* One more order adds its units at most: finitely many.
LEMMA HeldStaysFinite ==
  ASSUME NEW p \in Products, NEW o \in Orders, orders'[o].items[p] \in Nat,
         Reserving \subseteq Orders, Reserving' \subseteq Reserving \cup {o},
         \A oo \in Orders \ {o} : orders'[oo].items = orders[oo].items,
         IsFiniteSet(Held(p))
  PROVE  IsFiniteSet(Held(p))'
<1> DEFINE old == Held(p)
           new == {o} \X (1..orders'[o].items[p])
           now == Held(p)'
<1>1. IsFiniteSet(new)
  BY UnitsCount
<1>2. now \subseteq old \cup new
  BY DEF Held, Units
<1>3. IsFiniteSet(old)
  OBVIOUS
<1> HIDE DEF old, new, now
<1>4. IsFiniteSet(old \cup new)
  BY <1>1, <1>3, FS_Union
<1>5. IsFiniteSet(now)
  BY <1>2, <1>4, FS_Subset
<1> QED
  BY <1>5 DEF now

\* An order that begins to hold units adds all of its own.
LEMMA PromiseMade ==
  ASSUME NEW p \in Products, NEW o \in Orders, orders'[o].items[p] \in Nat,
         Reserving \subseteq Orders, o \notin Reserving, Reserving' = Reserving \cup {o},
         \A oo \in Orders \ {o} : orders'[oo].items = orders[oo].items,
         IsFiniteSet(Held(p))
  PROVE  Cardinality(Held(p))' = Cardinality(Held(p)) + orders'[o].items[p]
<1> DEFINE old == Held(p)
           new == {o} \X (1..orders'[o].items[p])
           now == Held(p)'
<1>1. IsFiniteSet(new) /\ Cardinality(new) = orders'[o].items[p]
  BY UnitsCount
<1>2. now = old \cup new
  BY DEF Held, Units
<1>3. old \cap new = {}
  BY DEF Held, Units
<1>4. IsFiniteSet(old)
  OBVIOUS
<1> HIDE DEF old, new, now
<1>5. Cardinality(old \cup new) = Cardinality(old) + Cardinality(new)
  BY <1>1, <1>3, <1>4, DisjointCount
<1>6. Cardinality(now) = Cardinality(old) + orders'[o].items[p]
  BY <1>1, <1>2, <1>5
<1> QED
  BY <1>6 DEF old, now

\* One that holds them no longer takes them away.
LEMMA PromiseEnded ==
  ASSUME NEW p \in Products, NEW o \in Reserving, orders[o].items[p] \in Nat,
         Reserving \subseteq Orders, Reserving' = Reserving \ {o},
         \A oo \in Orders : orders'[oo].items = orders[oo].items,
         IsFiniteSet(Held(p))
  PROVE  /\ Cardinality(Held(p)) - orders[o].items[p] \in Nat
         /\ Cardinality(Held(p))' = Cardinality(Held(p)) - orders[o].items[p]
<1> DEFINE all == Held(p)
           gone == {o} \X (1..orders[o].items[p])
           now == Held(p)'
<1>1. IsFiniteSet(gone) /\ Cardinality(gone) = orders[o].items[p]
  BY UnitsCount
<1>2. now = all \ gone
  BY DEF Held, Units
<1>3. gone \subseteq all
  BY DEF Held, Units
<1>4. IsFiniteSet(all)
  OBVIOUS
<1> HIDE DEF all, gone, now
<1>5. /\ IsFiniteSet(all \ gone)
      /\ Cardinality(all) \in Nat /\ Cardinality(all \ gone) \in Nat
      /\ Cardinality(all \ gone) = Cardinality(all) - Cardinality(gone)
  BY <1>3, <1>4, SubsetCount
<1>6. /\ Cardinality(all) - orders[o].items[p] \in Nat
      /\ Cardinality(now) = Cardinality(all) - orders[o].items[p]
  BY <1>1, <1>2, <1>5
<1> QED
  BY <1>6 DEF all, now

-----------------------------------------------------------------------------
(* Reservations and promises.                                              *)

\* How a step moves p's reservations with the units held of it.
Balanced(p) ==
  LET reserved == product_inventory[p].reserved
      reserved_ == product_inventory'[p].reserved
      held == Cardinality(Held(p))
      held_ == Cardinality(Held(p))'
  IN
  \/ reserved_ = reserved /\ held_ = held
  \/ \E n \in Nat : reserved_ = reserved + n /\ held_ = held + n
  \/ \E n \in Nat : /\ reserved_ = AtLeastZero(reserved - n)
                    /\ held - n \in Nat
                    /\ held_ = held - n
  \/ PaidOrderCancelled' \/ FailedOrderReopened'

\* The log only grows.
LEMMA ReleasesRemembered ==
  ASSUME ShopInv, [Next]_vars
  PROVE  /\ PaidOrderCancelled => PaidOrderCancelled'
         /\ FailedOrderReopened => FailedOrderReopened'
<1>1. \A o \in Orders : order_status_history[o] \subseteq order_status_history'[o]
  BY StepLogsMoves
<1> QED
  BY <1>1 DEF PaidOrderCancelled, FailedOrderReopened

LEMMA ReservingOrders ==
  ASSUME ShopInv
  PROVE  Reserving \subseteq Orders
  BY DEF ShopInv, TypeOK, Reserving, AwaitingPayment

\* A cancellation or callback whose loop has covered the order gives back all
\* its items.
LEMMA FlushReleases ==
  ASSUME ShopInv, NEW w \in Workers, sess[w].pc \in ChangesStock, NEW p \in Products,
         sess[w].locked = InCart(sess[w].items)
  PROVE  Flushed(sess[w])[p].reserved =
           AtLeastZero(product_inventory[p].reserved - sess[w].items[p])
<1> DEFINE s == sess[w]
<1>1. /\ s.items[p] \in Nat /\ product_inventory[p] \in Rows
      /\ product_inventory[p].reserved \in Nat
  BY DEF ShopInv, TypeOK, Sessions, Quantities, Rows
<1>2. CASE p \in s.locked
  <2>1. s.rows[p] = Changed(s, product_inventory[p], s.items[p])
    BY <1>2 DEF ShopInv, SessionsIsolated, SessionsSound, RowsCurrent
  <2>2. s.rows[p].reserved = AtLeastZero(product_inventory[p].reserved - s.items[p])
    BY <1>1, <2>1 DEF Changed, ChangesStock, Release, CommitPurchase, Rows
  <2> QED
    BY <1>2, <2>2 DEF Flushed
<1>3. CASE p \notin s.locked
  <2>1. s.items[p] = 0
    BY <1>1, <1>3 DEF InCart
  <2>2. Flushed(s)[p] = product_inventory[p]
    BY <1>3 DEF Flushed
  <2> QED
    BY <1>1, <2>1, <2>2 DEF AtLeastZero
<1> QED
  BY <1>2, <1>3

\* No order is ever committed as "pending".
LEMMA NeverPending ==
  ASSUME ShopInv, AuditInv, NEW o \in Orders
  PROVE  orders[o].status # "pending"
<1> SUFFICES ASSUME orders[o].status = "pending" PROVE FALSE
  OBVIOUS
<1>1. PICK f \in OrderStatuses : <<f, "pending">> \in order_status_history[o]
  BY DEF ShopInv, HistoryIsConnected
<1>2. <<f, "pending">> \in ALLOWED_TRANSITIONS
  BY <1>1 DEF AuditInv
<1> QED
  BY <1>2 DEF ALLOWED_TRANSITIONS, CancellableFrom, RefundableFrom

\* Only the reopening of a failed order lets an order wait again.
LEMMA MoverReopens ==
  ASSUME ShopInv, AuditInv, SerialInv, NEW w \in Workers, MoverCommits(w),
         sess[w].goal = "awaiting_payment"
  PROVE  FailedOrderReopened'
<1> DEFINE o == sess[w].order
<1>1. /\ o \in Orders
      /\ <<orders[o].status, "awaiting_payment">> \in ALLOWED_TRANSITIONS
      /\ <<orders[o].status, "awaiting_payment">> \in order_status_history'[o]
  BY MoverEffect
<1>2. orders[o].status \in {"pending", "payment_failed"}
  BY <1>1 DEF ALLOWED_TRANSITIONS, CancellableFrom, RefundableFrom
<1>3. orders[o].status # "pending"
  BY <1>1, NeverPending
<1> QED
  BY <1>1, <1>2, <1>3 DEF FailedOrderReopened

LEMMA CheckoutBalanced ==
  ASSUME ShopInv, StockInv, NEW w \in Workers, NEW o \in Orders, CommitCheckout(w, o),
         NEW p \in Products
  PROVE  IsFiniteSet(Held(p))' /\ Balanced(p)
<1> DEFINE s == sess[w]
<1>1. /\ s.pc = "checkout" /\ orders[o].status = "none"
      /\ orders'[o].status = "awaiting_payment"
      /\ orders'[o].items = s.items
      /\ \A oo \in Orders \ {o} : orders'[oo] = orders[oo]
      /\ overridden' = overridden
  BY CheckoutEffect
<1>2. /\ s \in Sessions /\ s.items[p] \in Nat /\ product_inventory[p].reserved \in Nat
      /\ IsFiniteSet(Held(p)) /\ Reserving \subseteq Orders
  BY ReservingOrders DEF ShopInv, TypeOK, Sessions, Quantities, Rows, StockInv, Held
<1>3. /\ s.locked = InCart(s.items)
      /\ \A q \in s.locked : s.rows[q].reserved = product_inventory[q].reserved + s.items[q]
  BY <1>1 DEF StockInv, LoopComplete, RowsFresh, CommitCheckout, LoopDone
<1>4. product_inventory' = Flushed(s)
  BY DEF CommitCheckout
<1>5. product_inventory'[p].reserved = product_inventory[p].reserved + s.items[p]
  <2>1. CASE p \in s.locked
    BY <1>3, <1>4, <2>1 DEF Flushed
  <2>2. CASE p \notin s.locked
    <3>1. s.items[p] = 0
      BY <1>2, <1>3, <2>2 DEF InCart
    <3>2. product_inventory'[p] = product_inventory[p]
      BY <1>4, <2>2 DEF Flushed
    <3> QED
      BY <1>2, <3>1, <3>2
  <2> QED
    BY <2>1, <2>2
<1>6. o \notin Reserving
  BY <1>1 DEF Reserving, AwaitingPayment, StockInv, OverriddenMoved
<1>7. Reserving' = Reserving \cup {o}
  BY <1>1 DEF Reserving, AwaitingPayment
<1>8. IsFiniteSet(Held(p))' /\ Cardinality(Held(p))' = Cardinality(Held(p)) + s.items[p]
  BY <1>1, <1>2, <1>6, <1>7, PromiseMade, HeldStaysFinite
<1> QED
  BY <1>2, <1>5, <1>8 DEF Balanced

\* The orders that hold units change by the mover's order only.
LEMMA MoverKeepsFinite ==
  ASSUME ShopInv, SerialInv, StockInv, NEW w \in Workers, MoverCommits(w), NEW p \in Products
  PROVE  IsFiniteSet(Held(p))'
<1> DEFINE o == sess[w].order
<1>1. /\ o \in Orders
      /\ \A oo \in Orders \ {o} : orders'[oo] = orders[oo]
      /\ \A oo \in Orders : orders'[oo].items = orders[oo].items
  BY MoverEffect
<1>2. overridden' \subseteq overridden \cup {o}
  BY DEF MoverCommits, CommitPaid, CommitPaymentFailed, CommitCancel, CommitAdminUpdate
<1>3. /\ orders[o].items[p] \in Nat /\ IsFiniteSet(Held(p)) /\ Reserving \subseteq Orders
  BY <1>1, ReservingOrders DEF ShopInv, TypeOK, Quantities, StockInv, Held
<1>4. Reserving' \subseteq Reserving \cup {o}
  BY <1>1, <1>2 DEF Reserving, AwaitingPayment
<1> HIDE DEF o
<1> QED
  BY <1>1, <1>3, <1>4, HeldStaysFinite

\* A commit that ends a wait and gives back the items.
LEMMA ReleaseBalanced ==
  ASSUME ShopInv, SerialInv, StockInv, NEW w \in Workers, MoverCommits(w), NEW p \in Products,
         sess[w].pc \in ChangesStock, sess[w].locked = InCart(sess[w].items),
         product_inventory' = Flushed(sess[w]), overridden' = overridden,
         sess[w].seen = "awaiting_payment", sess[w].goal # "awaiting_payment",
         ~FailedOrderReopened
  PROVE  Balanced(p)
<1> DEFINE o == sess[w].order
           n == orders[o].items[p]
<1>1. /\ o \in Orders /\ orders[o].status = "awaiting_payment"
      /\ orders'[o].status # "awaiting_payment"
      /\ \A oo \in Orders \ {o} : orders'[oo] = orders[oo]
      /\ \A oo \in Orders : orders'[oo].items = orders[oo].items
  BY MoverEffect
<1>2. sess[w].items = orders[o].items
  BY DEF ShopInv, SessionsIsolated, SessionsSound, KnowsOrder
<1>3. n \in Nat /\ IsFiniteSet(Held(p)) /\ Reserving \subseteq Orders
  BY <1>1, ReservingOrders DEF ShopInv, TypeOK, Quantities, StockInv, Held
<1>4. product_inventory'[p].reserved = AtLeastZero(product_inventory[p].reserved - n)
  BY <1>2, FlushReleases
<1>5. o \in Reserving /\ o \notin overridden
  BY <1>1 DEF Reserving, AwaitingPayment, StockInv, OverriddenMoved
<1>6. Reserving' = Reserving \ {o}
  BY <1>1, <1>5 DEF Reserving, AwaitingPayment
<1> HIDE DEF o
<1>7. /\ Cardinality(Held(p)) - n \in Nat
      /\ Cardinality(Held(p))' = Cardinality(Held(p)) - n
  BY <1>1, <1>3, <1>5, <1>6, PromiseEnded
<1> HIDE DEF n
<1> QED
  BY <1>3, <1>4, <1>7 DEF Balanced

LEMMA CallbackBalanced ==
  ASSUME ShopInv, SerialInv, StockInv, NEW w \in Workers,
         CommitPaid(w) \/ CommitPaymentFailed(w), NEW p \in Products, ~FailedOrderReopened
  PROVE  Balanced(p)
<1> DEFINE s == sess[w]
<1>1. /\ MoverCommits(w)
      /\ s.pc \in {"paid", "failed"} /\ s.pc \in ChangesStock
      /\ s.todo = {}
      /\ product_inventory' = Flushed(s) /\ overridden' = overridden
      /\ <<s.seen, s.goal>> \in ALLOWED_TRANSITIONS
  BY DEF MoverCommits, CommitPaid, CommitPaymentFailed, LoopDone, ChangesStock, Transition,
         CanTransition
<1>2. s.goal \in {"paid", "payment_failed"}
  BY <1>1 DEF SerialInv, GoalsFixed
<1>3. s.seen = "awaiting_payment" /\ s.goal # "awaiting_payment"
  BY <1>1, <1>2 DEF ALLOWED_TRANSITIONS, CancellableFrom, RefundableFrom
<1>4. s.locked = InCart(s.items)
  <2>1. s.todo \cup s.locked = InCart(s.items)
    BY <1>1 DEF ShopInv, SessionsIsolated, SessionsSound, LoopCoversOrder, StockInv, LoopComplete
  <2> QED
    BY <1>1, <2>1
<1> QED
  BY <1>1, <1>3, <1>4, ReleaseBalanced

LEMMA CancelBalanced ==
  ASSUME ShopInv, AuditInv, SerialInv, StockInv, NEW w \in Workers, CommitCancel(w),
         NEW p \in Products, ~FailedOrderReopened
  PROVE  Balanced(p)
<1> DEFINE s == sess[w]
           o == s.order
<1>1. /\ MoverCommits(w)
      /\ s.pc = "cancel" /\ s.pc \in ChangesStock
      /\ s.todo = {}
      /\ product_inventory' = Flushed(s) /\ overridden' = overridden
  BY DEF MoverCommits, CommitCancel, LoopDone, ChangesStock
<1>2. s.goal = "cancelled"
  BY <1>1 DEF SerialInv, GoalsFixed
<1>3. /\ o \in Orders /\ s.seen = orders[o].status
      /\ <<orders[o].status, "cancelled">> \in ALLOWED_TRANSITIONS
      /\ orders'[o].status = "cancelled"
      /\ \A oo \in Orders \ {o} : orders'[oo] = orders[oo]
      /\ \A oo \in Orders : orders'[oo].items = orders[oo].items
      /\ <<orders[o].status, "cancelled">> \in order_status_history'[o]
  BY <1>1, <1>2, MoverEffect
<1>4. s.seen \in {"awaiting_payment", "paid", "processing", "payment_failed"}
  <2>1. orders[o].status \in CancellableFrom
    BY <1>3 DEF ALLOWED_TRANSITIONS, RefundableFrom
  <2>2. orders[o].status # "pending"
    BY <1>3, NeverPending
  <2> QED
    BY <1>3, <2>1, <2>2 DEF CancellableFrom
<1>5. s.locked = IF s.seen \in ReleasedOnCancel THEN InCart(s.items) ELSE {}
  <2>1. s.todo \cup s.locked = IF s.seen \in ReleasedOnCancel THEN InCart(s.items) ELSE {}
    BY <1>1 DEF StockInv, LoopComplete
  <2> QED
    BY <1>1, <2>1
<1>6. CASE s.seen = "awaiting_payment"
  <2>1. s.locked = InCart(s.items) /\ s.goal # "awaiting_payment"
    BY <1>2, <1>5, <1>6 DEF ReleasedOnCancel
  <2> QED
    BY <1>1, <1>6, <2>1, ReleaseBalanced
<1>7. CASE s.seen = "paid"
  <2>1. PaidOrderCancelled'
    BY <1>3, <1>7 DEF PaidOrderCancelled
  <2> QED
    BY <2>1 DEF Balanced
<1>8. CASE s.seen \in {"processing", "payment_failed"}
  <2>1. s.locked = {}
    BY <1>5, <1>8 DEF ReleasedOnCancel
  <2>2. product_inventory'[p] = product_inventory[p]
    BY <1>1, <2>1 DEF Flushed
  <2>3. Reserving' = Reserving
    BY <1>1, <1>3, <1>8 DEF Reserving, AwaitingPayment
  <2>4. Held(p)' = Held(p)
    BY <1>3, <2>3, ReservingOrders, UnitsMatter
  <2> QED
    BY <2>2, <2>4 DEF Balanced
<1> QED
  BY <1>4, <1>6, <1>7, <1>8

\* An admin's move touches no reservation, nor the orders that hold units.
LEMMA AdminBalanced ==
  ASSUME ShopInv, AuditInv, SerialInv, NEW w \in Workers, CommitAdminUpdate(w),
         NEW p \in Products
  PROVE  Balanced(p)
<1> DEFINE s == sess[w]
           o == s.order
<1>1. /\ MoverCommits(w)
      /\ product_inventory' = product_inventory
      /\ overridden' = overridden \cup (IF s.seen = "awaiting_payment" THEN {o} ELSE {})
  BY DEF MoverCommits, CommitAdminUpdate
<1>2. /\ o \in Orders /\ s.seen = orders[o].status
      /\ orders'[o].status = s.goal
      /\ \A oo \in Orders \ {o} : orders'[oo] = orders[oo]
      /\ \A oo \in Orders : orders'[oo].items = orders[oo].items
  BY <1>1, MoverEffect
<1>3. CASE s.goal = "awaiting_payment"
  BY <1>1, <1>3, MoverReopens DEF Balanced
<1>4. CASE s.goal # "awaiting_payment"
  <2>1. Reserving' = Reserving
    <3>1. AwaitingPayment' = AwaitingPayment \ {o}
      BY <1>2, <1>4 DEF AwaitingPayment
    <3>2. orders[o].status = "awaiting_payment" <=> o \in AwaitingPayment
      BY <1>2 DEF AwaitingPayment
    <3> QED
      BY <1>1, <1>2, <3>1, <3>2 DEF Reserving
  <2>2. Held(p)' = Held(p)
    BY <1>2, <2>1, ReservingOrders, UnitsMatter
  <2> QED
    BY <1>1, <2>2 DEF Balanced
<1> QED
  BY <1>3, <1>4

LEMMA StepBalanced ==
  ASSUME ShopInv, AuditInv, SerialInv, StockInv, [Next]_vars, NEW p \in Products
  PROVE  IsFiniteSet(Held(p))' /\ Balanced(p)
<1>1. ASSUME UNCHANGED <<orders, overridden>>, ReservedKept
      PROVE  IsFiniteSet(Held(p))' /\ Balanced(p)
  <2>1. Held(p)' = Held(p)
    BY <1>1 DEF Held, Units, Reserving, AwaitingPayment
  <2> QED
    BY <1>1, <2>1 DEF ReservedKept, StockInv, Balanced, Held
<1>2. ASSUME NEW w \in Workers, MoverCommits(w)
      PROVE  IsFiniteSet(Held(p))' /\ Balanced(p)
  <2>1. CASE FailedOrderReopened
    BY <2>1, ReleasesRemembered, <1>2, MoverKeepsFinite DEF Balanced
  <2>2. CASE ~FailedOrderReopened
    BY <1>2, <2>2, MoverKeepsFinite, CallbackBalanced, CancelBalanced, AdminBalanced
    DEF MoverCommits
  <2> QED
    BY <2>1, <2>2
<1> QED
  BY <1>1, <1>2, StepKinds, CheckoutBalanced

\* So what is balanced stays exact.
LEMMA ReservationsKept ==
  ASSUME ShopInv, AuditInv, SerialInv, StockInv, [Next]_vars
  PROVE  ReservedIsPromised'
<1>1. /\ ~PaidOrderCancelled' => ~PaidOrderCancelled
      /\ ~FailedOrderReopened' => ~FailedOrderReopened
  BY ReleasesRemembered
<1>2. ASSUME ~PaidOrderCancelled', ~FailedOrderReopened', NEW p \in Products
      PROVE  product_inventory'[p].reserved = Cardinality(Held(p))'
  <2>1. product_inventory[p].reserved = Cardinality(Held(p))
    BY <1>1, <1>2 DEF StockInv, ReservedIsPromised, Held
  <2>2. Balanced(p) /\ product_inventory[p].reserved \in Nat
    BY StepBalanced DEF ShopInv, TypeOK, Rows
  <2> QED
    BY <1>2, <2>1, <2>2 DEF Balanced, AtLeastZero
<1> QED
  BY <1>2 DEF ReservedIsPromised, Held

\* An order leaves overridden's promise only by a reopening.
LEMMA OverriddenStaysMoved ==
  ASSUME ShopInv, AuditInv, SerialInv, StockInv, [Next]_vars
  PROVE  OverriddenMoved'
<1>1. FailedOrderReopened => FailedOrderReopened'
  BY ReleasesRemembered
<1>i. OverriddenMoved /\ overridden \subseteq Orders
  BY DEF StockInv, ShopInv, TypeOK
<1>2. ASSUME NEW w \in Workers, NEW o \in Orders, CommitCheckout(w, o)
      PROVE  OverriddenMoved'
  <2>1. /\ overridden' = overridden /\ o \notin overridden
        /\ \A oo \in Orders \ {o} : orders'[oo] = orders[oo]
    BY <1>i, <1>2, CheckoutEffect DEF OverriddenMoved
  <2> QED
    BY <1>1, <1>i, <2>1 DEF OverriddenMoved
<1>3. ASSUME NEW w \in Workers, MoverCommits(w)
      PROVE  OverriddenMoved'
  <2> DEFINE o == sess[w].order
  <2>1. /\ o \in Orders
        /\ <<orders[o].status, sess[w].goal>> \in ALLOWED_TRANSITIONS
        /\ orders'[o].status = sess[w].goal
        /\ \A oo \in Orders \ {o} : orders'[oo] = orders[oo]
    BY <1>3, MoverEffect
  <2>2. sess[w].goal # "none"
    BY <2>1 DEF ALLOWED_TRANSITIONS
  <2>3. sess[w].goal = "awaiting_payment" => FailedOrderReopened'
    BY <1>3, MoverReopens
  <2>4. overridden' \subseteq overridden \cup {o}
    BY <1>3 DEF MoverCommits, CommitPaid, CommitPaymentFailed, CommitCancel, CommitAdminUpdate
  <2> HIDE DEF o
  <2> QED
    BY <1>1, <1>i, <2>1, <2>2, <2>3, <2>4 DEF OverriddenMoved
<1>4. ASSUME UNCHANGED <<orders, overridden>>
      PROVE  OverriddenMoved'
  BY <1>1, <1>i, <1>4 DEF OverriddenMoved
<1> QED
  BY <1>2, <1>3, <1>4, StepKinds

LEMMA StockKept ==
  ASSUME ShopInv, AuditInv, SerialInv, StockInv,
         [Next /\ OneMoverPerOrder' /\ NoCheckoutWaits']_vars
  PROVE  StockInv'
<1>n. [Next]_vars
  OBVIOUS
<1>1. NoCheckoutWaits'
  BY DEF StockInv, NoCheckoutWaits, WaitsFor, vars
<1>2. \A v \in Workers : LoopComplete(sess[v])' /\ RowsFresh(sess[v])'
  BY <1>n, LoopsStayComplete, RowsStayFresh DEF StockInv
<1>3. OverriddenMoved' /\ ReservedIsPromised'
  BY <1>n, OverriddenStaysMoved, ReservationsKept
<1>4. \A p \in Products : IsFiniteSet(Units(Reserving, p))'
  BY <1>n, StepBalanced DEF Held
<1> QED
  BY <1>1, <1>2, <1>3, <1>4 DEF StockInv

LEMMA InitEstablishesStock == Init => StockInv /\ AuditInv
<1> SUFFICES ASSUME Init PROVE StockInv /\ AuditInv
  OBVIOUS
<1>1. \A w \in Workers : sess[w] = Idle
  BY DEF Init
<1>2. NoCheckoutWaits
  BY <1>1 DEF NoCheckoutWaits, Idle
<1>3. \A w \in Workers : LoopComplete(sess[w]) /\ RowsFresh(sess[w])
  BY <1>1 DEF LoopComplete, RowsFresh, Idle
<1>4. Reserving = {}
  BY DEF Init, Reserving, AwaitingPayment
<1>5. \A p \in Products : Units(Reserving, p) = {}
  BY <1>4 DEF Units
<1>6. \A p \in Products : /\ IsFiniteSet(Units(Reserving, p))
                          /\ Cardinality(Units(Reserving, p)) = 0
                          /\ product_inventory[p].reserved = 0
  BY <1>5, FS_EmptySet DEF Init
<1>7. ReservedIsPromised /\ OverriddenMoved
  BY <1>6 DEF Init, ReservedIsPromised, OverriddenMoved
<1>8. AuditInv
  BY DEF Init, AuditInv
<1> QED
  BY <1>2, <1>3, <1>6, <1>7, <1>8 DEF StockInv

LEMMA UndisturbedIsSerial == UndisturbedSpec => SerialSpec
<1>1. [Next /\ OneMoverPerOrder' /\ NoCheckoutWaits']_vars => [Next /\ OneMoverPerOrder']_vars
  OBVIOUS
<1> QED
  BY <1>1, PTL DEF UndisturbedSpec, SerialSpec

\* Without two movers of one order and without a checkout that waits, loops
\* cover every item and checkouts compute with current rows.
THEOREM StockHolds == UndisturbedSpec => []StockInv
<1>1. Init => StockInv /\ AuditInv
  BY InitEstablishesStock
<1>2. /\ ShopInv /\ AuditInv /\ [Next]_vars => AuditInv'
      /\ [Next /\ OneMoverPerOrder' /\ NoCheckoutWaits']_vars => [Next]_vars
  BY AuditKept
<1>3. ShopInv /\ AuditInv /\ SerialInv /\ StockInv
        /\ [Next /\ OneMoverPerOrder' /\ NoCheckoutWaits']_vars => StockInv'
  BY StockKept
<1> QED
  BY <1>1, <1>2, <1>3, UndisturbedIsSerial, SerialIsShop, InvariantHolds, SerialHolds, PTL
  DEF UndisturbedSpec

\* reserve, release and commit_purchase pair up: until a paid order is
\* cancelled or a failed one reopened, the reservations are exactly what
\* waiting orders were promised, and what an admin's moves left behind.
THEOREM ReservationsHold == UndisturbedSpec => []ReservedIsPromised
<1>1. StockInv => ReservedIsPromised
  BY DEF StockInv
<1> QED
  BY <1>1, StockHolds, PTL

\* What is promised to waiting orders is part of what is reserved.
LEMMA ReservedIsEnough ==
  ASSUME ShopInv, StockInv, ~PaidOrderCancelled, ~FailedOrderReopened, NEW p \in Products
  PROVE  /\ Promised(p) \in Nat
         /\ Promised(p) <= product_inventory[p].reserved
         /\ product_inventory[p].reserved <= product_inventory[p].total
         /\ product_inventory[p].total \in Nat /\ product_inventory[p].reserved \in Nat
<1> DEFINE held == Held(p)
           waiting == Units(AwaitingPayment, p)
<1>1. waiting \subseteq held
  BY DEF Held, Units, Reserving
<1>2. IsFiniteSet(held) /\ product_inventory[p].reserved = Cardinality(held)
  BY DEF StockInv, ReservedIsPromised, Held
<1>3. product_inventory[p] \in Rows
  BY DEF ShopInv, TypeOK
<1> HIDE DEF held, waiting
<1>4. IsFiniteSet(waiting) /\ Cardinality(waiting) <= Cardinality(held)
  BY <1>1, <1>2, FS_Subset
<1>5. Cardinality(waiting) \in Nat
  BY <1>4, FS_CardinalityType
<1> QED
  BY <1>2, <1>3, <1>4, <1>5 DEF Rows, Promised, waiting

\* Reservations cover what was promised: what goes wrong in the run cancel_paid
\* takes the cancellation of a paid order, or the reopening of a failed one.
THEOREM PromisesCovered ==
  UndisturbedSpec => [](~PaidOrderCancelled /\ ~FailedOrderReopened => ReservedCoversPromised)
<1>1. ShopInv /\ StockInv =>
        (~PaidOrderCancelled /\ ~FailedOrderReopened => ReservedCoversPromised)
  BY ReservedIsEnough DEF ReservedCoversPromised
<1> QED
  BY <1>1, UndisturbedIsSerial, SerialIsShop, InvariantHolds, StockHolds, PTL

\* So no more units are promised than there are: what goes wrong in the run
\* oversell takes a checkout that waits for a row.
THEOREM NothingOversold ==
  UndisturbedSpec => [](~PaidOrderCancelled /\ ~FailedOrderReopened => NoOversell)
<1>1. ShopInv /\ StockInv => (~PaidOrderCancelled /\ ~FailedOrderReopened => NoOversell)
  <2> SUFFICES ASSUME ShopInv, StockInv, ~PaidOrderCancelled, ~FailedOrderReopened,
                      NEW p \in Products
               PROVE  Promised(p) <= product_inventory[p].total
    BY DEF NoOversell
  <2> QED
    BY ReservedIsEnough
<1> QED
  BY <1>1, UndisturbedIsSerial, SerialIsShop, InvariantHolds, StockHolds, PTL

\* One worker at a time is never disturbed.
THEOREM OneWorkerUndisturbed ==
  ASSUME \A v, w \in Workers : v = w
  PROVE  Spec => UndisturbedSpec
<1>1. [Next]_vars => [Next /\ OneMoverPerOrder' /\ NoCheckoutWaits']_vars
  BY DEF OneMoverPerOrder, NoCheckoutWaits, WaitsFor
<1> QED
  BY <1>1, PTL DEF Spec, UndisturbedSpec
=============================================================================
