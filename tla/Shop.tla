-------------------------------- MODULE Shop --------------------------------
(***************************************************************************)
(* Checkout, stock, orders, payments and refunds of the shop, as several   *)
(* backend workers run them concurrently against one Postgres database at  *)
(* READ COMMITTED.  The variables other than sess hold COMMITTED rows (and *)
(* the payment gateway's view); sess holds what each worker's running      *)
(* transaction has read, locked and not yet written.                       *)
(*                                                                         *)
(* A handler is a sequence of steps, one per await at which another worker *)
(* can get in between: an unlocked read, a SELECT ... FOR UPDATE, a call   *)
(* of the gateway, the final flush and commit.  Any exception closes the   *)
(* session, which rolls the whole transaction back.                        *)
(*                                                                         *)
(* Definitions marked FAULT are not part of the model: each is a plausible *)
(* mistake in the definition after it, used to see the properties fail.    *)
(***************************************************************************)
EXTENDS InventoryRow, OrderStatus, FiniteSets

CONSTANTS
  Workers,        \* requests served at the same time
  Customers,      \* owners of carts
  Products,
  Orders,         \* ids of orders that can be inserted (a bound)
  Attempts,       \* ids of payments that can be started per order (a bound)
  InitialStock,   \* stock_total of each product at the start
  InitialCarts,   \* quantity of each product in each customer's cart, 0: no row
  AdminGoals,     \* statuses an admin moves orders to
  StockDeltas,    \* deltas an admin restocks or adjusts by
  MaxStock,       \* no restock or adjustment beyond this total (a bound)
  MaxFaults,      \* unforeseen rollbacks in one behaviour (a bound)
  MaxRefunds,     \* no refund of an order that has this many (a bound)
  Traffic,        \* the kinds of request that occur
  None            \* Python's None

TrafficKinds == {"checkout", "payment", "cancel", "admin", "stock"}

ASSUME StockAssumption ==
  /\ InitialStock \in [Products -> Nat]
  /\ InitialCarts \in [Customers -> [Products -> Nat]]
  /\ StockDeltas \subseteq Int
  /\ MaxStock \in Nat
  /\ MaxFaults \in Nat
  /\ MaxRefunds \in Nat
ASSUME NoneAssumption ==
  None \notin Workers \cup Customers \cup Products \cup Orders \cup Attempts
ASSUME GoalsAssumption == AdminGoals \subseteq OrderStatuses
ASSUME BoundsAssumption == IsFiniteSet(Attempts)
ASSUME TrafficAssumption == Traffic \subseteq TrafficKinds

VARIABLES
  product_inventory,     \* [Products -> Rows]
  carts,                 \* cart_items.quantity, 0: no such row
  orders,                \* status, "none" before the insert, and order_items
  order_status_history,  \* the moves logged for each order
  purchases,             \* batches of "purchase" inventory_history rows, by order
  payments,              \* status of each payment, "none" before the insert
  gateway,               \* ZarinPal's record of each payment
  refunds,               \* "refund" wallet_transactions rows, by order
  overridden,            \* orders whose wait for a payment an admin has ended
  sess,                  \* the workers' sessions
  faults                 \* unforeseen rollbacks so far

\* What outlives a transaction.
committed == <<product_inventory, carts, orders, order_status_history,
               purchases, payments, gateway, refunds, overridden>>

vars == <<product_inventory, carts, orders, order_status_history, purchases,
          payments, gateway, refunds, overridden, sess, faults>>

-----------------------------------------------------------------------------
(* Types.                                                                  *)

Quantities == [Products -> Nat]

\* An uncommitted "pending" is never visible: the claim and its outcome
\* are one transaction.
PaymentStatuses == {"none", "initiated", "verified", "failed"}

\* "open": not paid, yet or ever; "settled": paid and captured.
GatewayStates == {"none", "open", "paid", "settled"}

\* What a session is doing; "paid" and "failed" are the two halves of a
\* payment callback after the gateway has answered.
Handlers ==
  {"idle", "checkout", "init", "claimed", "paid", "failed", "cancel", "admin"}

Sessions ==
  [pc      : Handlers,
   user    : Customers \cup {None},
   order   : Orders \cup {None},
   attempt : Attempts \cup {None},
   seen    : OrderStatuses \cup {"none"},  \* order.status as it was loaded
   goal    : OrderStatuses \cup {"none"},  \* the argument of _transition
   items   : Quantities,                   \* cart.items or order.items as loaded
   todo    : SUBSET Products,              \* items the loop has not finished
   want    : Products \cup {None},         \* the item the loop is at
   locked  : SUBSET Products,              \* inventory rows held FOR UPDATE
   rows    : [Products -> Rows]]           \* inventory rows in the identity map

NoItems == [p \in Products |-> 0]
NoRow == [total |-> 0, reserved |-> 0]

Idle ==
  [pc |-> "idle", user |-> None, order |-> None, attempt |-> None,
   seen |-> "none", goal |-> "none", items |-> NoItems, todo |-> {},
   want |-> None, locked |-> {}, rows |-> [p \in Products |-> NoRow]]

\* One type invariant; the rows' type carries the table's CHECK constraints.
TypeOK ==
  /\ product_inventory \in [Products -> Rows]
  /\ carts \in [Customers -> Quantities]
  /\ orders \in [Orders -> [status : OrderStatuses \cup {"none"},
                            items  : Quantities]]
  /\ order_status_history \in [Orders -> SUBSET (OrderStatuses \X OrderStatuses)]
  /\ purchases \in [Orders -> Nat]
  /\ payments \in [Orders -> [Attempts -> PaymentStatuses]]
  /\ gateway \in [Orders -> [Attempts -> GatewayStates]]
  /\ refunds \in [Orders -> Nat]
  /\ overridden \in SUBSET Orders
  /\ sess \in [Workers -> Sessions]
  /\ faults \in 0..MaxFaults

Init ==
  /\ product_inventory =
       [p \in Products |-> [total |-> InitialStock[p], reserved |-> 0]]
  /\ carts = InitialCarts
  /\ orders = [o \in Orders |-> [status |-> "none", items |-> NoItems]]
  /\ order_status_history = [o \in Orders |-> {}]
  /\ purchases = [o \in Orders |-> 0]
  /\ payments = [o \in Orders |-> [k \in Attempts |-> "none"]]
  /\ gateway = [o \in Orders |-> [k \in Attempts |-> "none"]]
  /\ refunds = [o \in Orders |-> 0]
  /\ overridden = {}
  /\ sess = [w \in Workers |-> Idle]
  /\ faults = 0

-----------------------------------------------------------------------------
(* Sessions, locks and the flush.                                          *)

Start(w, s) == /\ sess[w].pc = "idle"
               /\ sess' = [sess EXCEPT ![w] = s]

\* FAULT: the connection returns to the pool with its transaction open.
EndKeepsLocks(w) ==
  sess' = [sess EXCEPT ![w] = [Idle EXCEPT !.locked = sess[w].locked]]
\* Commit or rollback: the session is closed and its locks are gone.
End(w) == sess' = [sess EXCEPT ![w] = Idle]

InCart(items) == {p \in Products : items[p] > 0}

FreeAlways(w, p) == TRUE   \* FAULT: a plain SELECT
\* Postgres grants SELECT ... FOR UPDATE on a row nobody else holds.
Free(w, p) == \A v \in Workers \ {w} : p \notin sess[v].locked

\* The row object lock_for_update returns.  select() does not refresh an
\* object the session still holds, and checkout holds product.inventory
\* from products.get_by_id: only the other handlers see the locked row.
LockedRow(s, p) ==
  IF s.pc = "checkout" THEN s.rows[p] ELSE product_inventory[p]

\* What the handler does to the row once it holds the lock.
Changed(s, row, quantity) ==
  CASE s.pc = "checkout" -> Reserve(row, quantity)
    [] s.pc = "paid"     -> CommitPurchase(row, quantity)
    [] OTHER             -> Release(row, quantity)

LoopDone(s) == s.todo = {} /\ s.want = None

\* The UPDATEs of a flush: only columns the handler assigned are written.
Flushed(s) ==
  [p \in Products |->
     IF p \in s.locked
     THEN [total    |-> IF s.pc = "paid" THEN s.rows[p].total
                                         ELSE product_inventory[p].total,
           reserved |-> s.rows[p].reserved]
     ELSE product_inventory[p]]

\* OrderService._transition checks the status the session has loaded, ...
CanTransitionUnchecked(s) == s.seen # s.goal   \* FAULT
CanTransition(s) == <<s.seen, s.goal>> \in ALLOWED_TRANSITIONS

\* FAULT: the history row is built after the assignment.
TransitionLoggedLate(s) ==
  /\ CanTransition(s)
  /\ orders' = [orders EXCEPT ![s.order].status = s.goal]
  /\ order_status_history' =
       [order_status_history EXCEPT ![s.order] = @ \cup {<<s.goal, s.goal>>}]
\* ... logs the move and assigns the status; the flush overwrites whatever
\* is committed by then.
Transition(s) ==
  /\ CanTransition(s)
  /\ orders' = [orders EXCEPT ![s.order].status = s.goal]
  /\ order_status_history' =
       [order_status_history EXCEPT ![s.order] = @ \cup {<<s.seen, s.goal>>}]

\* The loop over the items moves to its next one, in the order the rows
\* happened to be returned.  Checkout first loads the product together with
\* its inventory row, without a lock.
NextItem(w, p) ==
  LET s == sess[w] IN
  /\ s.want = None
  /\ p \in s.todo
  /\ sess' = [sess EXCEPT ![w] =
       [s EXCEPT !.want = p,
                 !.rows = IF s.pc = "checkout"
                          THEN [@ EXCEPT ![p] = product_inventory[p]]
                          ELSE @]]
  /\ UNCHANGED <<committed, faults>>

\* reserve, release or commit_purchase on the item the loop is at.
LockForUpdate(w) ==
  LET s == sess[w]
      p == s.want IN
  /\ p \in Products
  /\ Free(w, p)
  /\ s.pc = "checkout" => Available(LockedRow(s, p)) >= s.items[p]
  /\ sess' = [sess EXCEPT ![w] =
       [s EXCEPT !.want = None,
                 !.todo = @ \ {p},
                 !.locked = @ \cup {p},
                 !.rows = [@ EXCEPT ![p] =
                             Changed(s, LockedRow(s, p), s.items[p])]]]
  /\ UNCHANGED <<committed, faults>>

-----------------------------------------------------------------------------
(* Checkout.                                                               *)

\* Bound: no more checkouts at a time than there are order ids left.
OrderIdLeft ==
  Cardinality({v \in Workers : sess[v].pc = "checkout"})
    < Cardinality({o \in Orders : orders[o].status = "none"})

\* POST /orders: read the cart; an empty one is refused.
Checkout(w, u) ==
  /\ OrderIdLeft
  /\ InCart(carts[u]) # {}
  /\ Start(w, [Idle EXCEPT !.pc = "checkout", !.user = u,
                           !.seen = "pending", !.goal = "awaiting_payment",
                           !.items = carts[u], !.todo = InCart(carts[u])])
  /\ UNCHANGED <<committed, faults>>

\* All items reserved: the order with its items, the reservations and the
\* emptied cart are committed together.  clear deletes the rows the cart has
\* at that moment.
CommitCheckout(w, o) ==
  LET s == sess[w] IN
  /\ s.pc = "checkout" /\ LoopDone(s)
  /\ orders[o].status = "none"
  /\ Flushed(s) \in [Products -> Rows]
  /\ product_inventory' = Flushed(s)
  /\ orders' = [orders EXCEPT ![o] = [status |-> s.goal, items |-> s.items]]
  /\ order_status_history' =
       [order_status_history EXCEPT ![o] = @ \cup {<<s.seen, s.goal>>}]
  /\ carts' = [carts EXCEPT ![s.user] = NoItems]
  /\ End(w)
  /\ UNCHANGED <<purchases, payments, gateway, refunds, overridden, faults>>

\* reserve raises ConflictError: not enough available in the row it sees.
OutOfStock(w) ==
  LET s == sess[w] IN
  /\ s.pc = "checkout"
  /\ s.want \in Products
  /\ Free(w, s.want)
  /\ Available(LockedRow(s, s.want)) < s.items[s.want]

\* The flush violates a CHECK of product_inventory: IntegrityError.
CheckViolated(w) ==
  LET s == sess[w] IN
  /\ s.pc = "checkout" /\ LoopDone(s)
  /\ Flushed(s) \notin [Products -> Rows]

-----------------------------------------------------------------------------
(* Payments.                                                               *)

\* Bound: no more payments of an order than there are attempts.
AttemptLeft(o) ==
  Cardinality({v \in Workers : sess[v].pc = "init" /\ sess[v].order = o})
    < Cardinality({k \in Attempts : payments[o][k] = "none"})

\* POST /payments: the order must be payable when it is read.
InitPayment(w, o) ==
  /\ AttemptLeft(o)
  /\ orders[o].status \in {"awaiting_payment", "payment_failed"}
  /\ Start(w, [Idle EXCEPT !.pc = "init", !.order = o])
  /\ UNCHANGED <<committed, faults>>

\* ZarinPal has issued an authority; the payment row is committed.
CommitPayment(w, k) ==
  LET o == sess[w].order IN
  /\ sess[w].pc = "init"
  /\ payments[o][k] = "none"
  /\ payments' = [payments EXCEPT ![o][k] = "initiated"]
  /\ gateway' = [gateway EXCEPT ![o][k] = "open"]
  /\ End(w)
  /\ UNCHANGED <<product_inventory, carts, orders, order_status_history,
                 purchases, refunds, overridden, faults>>

\* The customer pays at the gateway, at any time or never.
CustomerPays(o, k) ==
  /\ gateway[o][k] = "open"
  /\ gateway' = [gateway EXCEPT ![o][k] = "paid"]
  /\ UNCHANGED <<product_inventory, carts, orders, order_status_history,
                 purchases, payments, refunds, overridden, sess, faults>>

\* Sessions whose try_claim on the payment succeeded: each holds the
\* payment row's lock until its transaction ends.
Claimants(o, k) ==
  {v \in Workers : /\ sess[v].pc \in {"claimed", "paid", "failed"}
                   /\ sess[v].order = o
                   /\ sess[v].attempt = k}

ClaimableUnlocked(o, k) == payments[o][k] = "initiated"   \* FAULT: read, then write
ClaimableAnyStatus(o, k) ==                               \* FAULT: no status in WHERE
  payments[o][k] # "none" /\ Claimants(o, k) = {}
\* UPDATE payments SET status = 'pending' WHERE id = .. AND status =
\* 'initiated' finds its row: nobody has decided it or is deciding it.
Claimable(o, k) == payments[o][k] = "initiated" /\ Claimants(o, k) = {}

\* GET /payments/callback is a redirect of the customer's browser: it comes
\* with any Status, at any time after the authority was issued, any number of
\* times or never.  One that finds nothing to claim returns the stored
\* outcome and changes nothing.
Callback(w, o, k) ==
  /\ Claimable(o, k)
  /\ Start(w, [Idle EXCEPT !.pc = "claimed", !.order = o, !.attempt = k])
  /\ UNCHANGED <<committed, faults>>

\* The session of a callback that has loaded the order for mark_paid or
\* mark_payment_failed.
Deciding(s, pc, goal) ==
  [s EXCEPT !.pc = pc, !.goal = goal, !.seen = orders[s.order].status,
            !.items = orders[s.order].items,
            !.todo = InCart(orders[s.order].items)]

VerifiedByRedirect == {"open", "paid", "settled"}   \* FAULT: Status=OK is believed
\* Gateway states in which verify_payment answers 100 or 101.
VerifiedCodes == {"paid", "settled"}

\* ZarinPal captures what the customer has paid when it is verified.
Captured(state) == IF state = "paid" THEN "settled" ELSE state

\* verify_payment answers 100, or 101 when it was verified before; either
\* way the money is captured.  mark_paid then loads the order.
VerifySucceeds(w) ==
  LET s == sess[w] IN
  /\ s.pc = "claimed"
  /\ gateway[s.order][s.attempt] \in VerifiedCodes
  /\ gateway' = [gateway EXCEPT ![s.order][s.attempt] = Captured(@)]
  /\ sess' = [sess EXCEPT ![w] = Deciding(s, "paid", "paid")]
  /\ UNCHANGED <<product_inventory, carts, orders, order_status_history,
                 purchases, payments, refunds, overridden, faults>>

\* The callback's Status is not OK, whatever the gateway knows, or the answer
\* of verify_payment is any JSON without code 100 or 101: a refusal, or an
\* error although the money is captured.
VerifyFails(w) ==
  LET s == sess[w] IN
  /\ s.pc = "claimed"
  /\ \/ UNCHANGED gateway
     \/ gateway' = [gateway EXCEPT ![s.order][s.attempt] = Captured(@)]
  /\ sess' = [sess EXCEPT ![w] = Deciding(s, "failed", "payment_failed")]
  /\ UNCHANGED <<product_inventory, carts, orders, order_status_history,
                 purchases, payments, refunds, overridden, faults>>

CommitPaid(w) ==
  LET s == sess[w] IN
  /\ s.pc = "paid" /\ LoopDone(s)
  /\ Transition(s)
  /\ product_inventory' = Flushed(s)
  /\ purchases' = [purchases EXCEPT ![s.order] = @ + 1]
  /\ payments' = [payments EXCEPT ![s.order][s.attempt] = "verified"]
  /\ End(w)
  /\ UNCHANGED <<carts, gateway, refunds, overridden, faults>>

CommitPaymentFailed(w) ==
  LET s == sess[w] IN
  /\ s.pc = "failed" /\ LoopDone(s)
  /\ Transition(s)
  /\ product_inventory' = Flushed(s)
  /\ payments' = [payments EXCEPT ![s.order][s.attempt] = "failed"]
  /\ End(w)
  /\ UNCHANGED <<carts, purchases, gateway, refunds, overridden, faults>>

\* The loop has run, but the order's status forbids the move: ConflictError.
TransitionRefused(w) ==
  LET s == sess[w] IN
  /\ s.pc \in {"paid", "failed"} /\ LoopDone(s)
  /\ ~CanTransition(s)

-----------------------------------------------------------------------------
(* Cancellation, the admin's status changes and stock corrections.         *)

ReleasedTwice ==   \* FAULT: a failed payment has released them already
  {"pending", "awaiting_payment", "paid", "payment_failed"}
\* Statuses in which cancel gives the order's items back.
ReleasedOnCancel == {"pending", "awaiting_payment", "paid"}

\* POST /orders/{id}/cancel; refused at once when the table forbids it.
Cancel(w, o) ==
  LET status == orders[o].status IN
  /\ <<status, "cancelled">> \in ALLOWED_TRANSITIONS
  /\ Start(w, [Idle EXCEPT !.pc = "cancel", !.order = o, !.seen = status,
                           !.goal = "cancelled", !.items = orders[o].items,
                           !.todo = IF status \in ReleasedOnCancel
                                    THEN InCart(orders[o].items) ELSE {}])
  /\ UNCHANGED <<committed, faults>>

CommitCancel(w) ==
  LET s == sess[w] IN
  /\ s.pc = "cancel" /\ LoopDone(s)
  /\ Transition(s)
  /\ product_inventory' = Flushed(s)
  /\ End(w)
  /\ UNCHANGED <<carts, purchases, payments, gateway, refunds, overridden, faults>>

\* PATCH /admin/orders/{id}/status, to any status the table allows.
AdminUpdateStatus(w, o, goal) ==
  /\ <<orders[o].status, goal>> \in ALLOWED_TRANSITIONS
  /\ goal = "refunded" => refunds[o] < MaxRefunds
  /\ Start(w, [Idle EXCEPT !.pc = "admin", !.order = o,
                           !.seen = orders[o].status, !.goal = goal])
  /\ UNCHANGED <<committed, faults>>

\* Moving to "refunded" also credits the customer's wallet; no move touches
\* the stock.  overridden is a history variable.
CommitAdminUpdate(w) ==
  LET s == sess[w] IN
  /\ s.pc = "admin"
  /\ Transition(s)
  /\ refunds' = IF s.goal = "refunded"
                THEN [refunds EXCEPT ![s.order] = @ + 1] ELSE refunds
  /\ overridden' = overridden \cup
       (IF s.seen = "awaiting_payment" THEN {s.order} ELSE {})
  /\ End(w)
  /\ UNCHANGED <<product_inventory, carts, purchases, payments, gateway,
                 faults>>

\* POST .../inventory/restock adds a delta of any sign; only the CHECKs
\* stop it.
Restock(p, delta) ==
  LET total == product_inventory[p].total + delta IN
  /\ \A w \in Workers : p \notin sess[w].locked
  /\ [product_inventory[p] EXCEPT !.total = total] \in Rows
  /\ total <= MaxStock
  /\ product_inventory' = [product_inventory EXCEPT ![p].total = total]
  /\ UNCHANGED <<carts, orders, order_status_history, purchases, payments,
                 gateway, refunds, overridden, sess, faults>>

\* POST .../inventory/adjust refuses to go below what is reserved.
Adjust(p, delta) ==
  LET new_total == product_inventory[p].total + delta IN
  /\ \A w \in Workers : p \notin sess[w].locked
  /\ new_total >= product_inventory[p].reserved
  /\ new_total <= MaxStock
  /\ product_inventory' = [product_inventory EXCEPT ![p].total = new_total]
  /\ UNCHANGED <<carts, orders, order_status_history, purchases, payments,
                 gateway, refunds, overridden, sess, faults>>

-----------------------------------------------------------------------------
(* Ends other than a commit.                                               *)

\* An exception the handler itself raises.
Reject(w) ==
  /\ OutOfStock(w) \/ CheckViolated(w) \/ TransitionRefused(w)
  /\ End(w)
  /\ UNCHANGED <<committed, faults>>

WaitsFor(w, v) == w # v /\ sess[w].want \in sess[v].locked

\* Postgres finds a cycle of sessions that wait for each other's rows and
\* aborts one of them.
DeadlockAbort(w) ==
  /\ \E S \in SUBSET Workers :
       /\ w \in S
       /\ \A x \in S : /\ \E y \in S : WaitsFor(x, y)
                       /\ \E y \in S : WaitsFor(y, x)
  /\ End(w)
  /\ UNCHANGED <<committed, faults>>

\* The worker dies or loses its connection, the gateway does not answer or
\* not in JSON, a product has been archived: anything else that raises.
Fail(w) ==
  /\ sess[w].pc # "idle"
  /\ faults < MaxFaults
  /\ faults' = faults + 1
  /\ End(w)
  /\ UNCHANGED committed

-----------------------------------------------------------------------------
(* The specification.                                                      *)

\* What a running handler does next.
Step(w) ==
  \/ \E p \in Products : NextItem(w, p)
  \/ LockForUpdate(w)
  \/ \E o \in Orders : CommitCheckout(w, o)
  \/ \E k \in Attempts : CommitPayment(w, k)
  \/ VerifySucceeds(w)
  \/ VerifyFails(w)
  \/ CommitPaid(w)
  \/ CommitPaymentFailed(w)
  \/ CommitCancel(w)
  \/ CommitAdminUpdate(w)
  \/ Reject(w)
  \/ DeadlockAbort(w)

\* A request reaches an idle worker.
Request(w) ==
  \/ "checkout" \in Traffic /\ \E u \in Customers : Checkout(w, u)
  \/ "payment" \in Traffic /\ \E o \in Orders : InitPayment(w, o)
  \/ "payment" \in Traffic /\ \E o \in Orders, k \in Attempts : Callback(w, o, k)
  \/ "cancel" \in Traffic /\ \E o \in Orders : Cancel(w, o)
  \/ "admin" \in Traffic /\ \E o \in Orders, goal \in AdminGoals :
                               AdminUpdateStatus(w, o, goal)

AtGateway ==
  \E o \in Orders, k \in Attempts : CustomerPays(o, k)

StockCorrection ==
  /\ "stock" \in Traffic
  /\ \E p \in Products, delta \in StockDeltas : Restock(p, delta) \/ Adjust(p, delta)

Next ==
  \/ \E w \in Workers : Step(w) \/ Request(w)
  \/ \E w \in Workers : Fail(w)
  \/ AtGateway
  \/ StockCorrection

Spec == Init /\ [][Next]_vars

\* A handler that can run does run: the event loop serves ready coroutines
\* and Postgres grants a row lock to its waiters in the order they came.
FairSpec == Spec /\ \A w \in Workers : SF_vars(Step(w))

\* Sessions that have loaded an order and will write its status over whatever
\* it is by then: nothing locks an order's row.
Movers == {"paid", "failed", "cancel", "admin"}

\* No two requests are moving the same order.  The code does not see to it;
\* SerialSpec is what the requests do as long as it happens to be so.
OneMoverPerOrder ==
  \A w, v \in Workers :
    w # v /\ sess[w].pc \in Movers /\ sess[v].pc \in Movers => sess[w].order # sess[v].order

SerialSpec == Init /\ [][Next /\ OneMoverPerOrder']_vars

-----------------------------------------------------------------------------
(* Properties.                                                             *)

Verifies(o, k) == payments[o][k] # "verified" /\ payments'[o][k] = "verified"

StockStep ==
  /\ \A o \in Orders, k \in Attempts : Verifies(o, k) =>
       \A p \in Products : product_inventory'[p].total =
          AtLeastZero(product_inventory[p].total - orders[o].items[p])
  /\ \A p \in Products :
       product_inventory'[p].total # product_inventory[p].total =>
         \/ \E o \in Orders, k \in Attempts : Verifies(o, k)
         \/ \E delta \in StockDeltas :
              product_inventory' = [product_inventory EXCEPT ![p].total = @ + delta]

\* mark_paid takes exactly the order's quantities off the stock that is
\* committed at that moment (max(0, .) included), and stock_total moves for
\* no other reason than an admin's correction: no update of it is lost
\* between concurrent callbacks and corrections.
PurchaseTakesExactlyTheOrder == [][StockStep]_vars

\* Opening, claiming, verifying and committing a payment, with all their
\* interleavings and rollbacks, implement the one-shot contract the rest of
\* the shop relies on: the status compare-and-swap of try_claim decides each
\* payment once, together with its purchase.
Contract == INSTANCE PaymentContract WITH payments <- payments, purchases <- purchases
PaymentsFollowContract == Contract!Spec

VerifiedPayments(o) == {k \in Attempts : payments[o][k] = "verified"}

\* However often and however concurrently a payment's callback is delivered,
\* its order's stock is purchased once per verified payment.
PurchasesMatchVerified ==
  \A o \in Orders : purchases[o] = Cardinality(VerifiedPayments(o))

\* No goods without money: whatever Status the redirects claim, and whatever
\* crashes between the capture and the commit, a verified payment is captured,
\* and an order becomes paid through a captured payment or by an admin's hand.
\* (Not the converse: a failed payment may have been captured.)
PaidMeansCaptured ==
  \A o \in Orders :
    /\ \A k \in Attempts : payments[o][k] = "verified" => gateway[o][k] = "settled"
    /\ (\E f \in OrderStatuses : <<f, "paid">> \in order_status_history[o]) =>
         o \in overridden \/ \E k \in Attempts : gateway[o][k] = "settled"

\* order_status_history explains the status: it is the target of a logged
\* move, and every logged move starts at checkout or where another one led,
\* although _transition logs the status the session happened to load.
HistoryIsConnected ==
  \A o \in Orders :
    /\ orders[o].status # "none" =>
         \E f \in OrderStatuses : <<f, orders[o].status>> \in order_status_history[o]
    /\ \A m \in order_status_history[o] :
         \/ m[1] = "pending"
         \/ \E f \in OrderStatuses \ {m[1]} : <<f, m[1]>> \in order_status_history[o]

\* refund_order credits a wallet only for an order that was marked paid.
RefundOnlyAfterPaid ==
  \A o \in Orders :
    refunds[o] > 0 => \E f \in OrderStatuses : <<f, "paid">> \in order_status_history[o]

\* An order's value is returned to the wallet at most once, as long as no two
\* requests move the order at the same time.
RefundAtMostOnce == \A o \in Orders : refunds[o] <= 1

\* An order's stock is purchased at most once, as long as no two requests
\* move the order at the same time, however often it is paid.
PurchasedAtMostOnce == \A o \in Orders : purchases[o] <= 1

\* The committed status moves as the table allows, although _transition checks
\* the status its session has loaded: true of all requests that do not
\* overlap another one on the same order.
StatusStep ==
  \A o \in Orders : orders'[o].status # orders[o].status =>
    <<IF orders[o].status = "none" THEN "pending" ELSE orders[o].status, orders'[o].status>>
      \in ALLOWED_TRANSITIONS

StatusFollowsTable == [][StatusStep]_vars

\* Every request is answered: no handler waits for ever for a row lock.
EveryRequestEnds ==
  \A w \in Workers : sess[w].pc # "idle" ~> sess[w].pc = "idle"
=============================================================================
