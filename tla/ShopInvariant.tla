---------------------------- MODULE ShopInvariant ----------------------------
(***************************************************************************)
(* The inductive invariant of Shop: what a running transaction may rely on *)
(* about the committed rows although other workers commit meanwhile.       *)
(***************************************************************************)
EXTENDS ShopStock

Claiming == {"claimed", "paid", "failed"}
OnOrder == {"init", "claimed", "paid", "failed", "cancel", "admin"}
ChangesStock == {"paid", "failed", "cancel"}
NoLoop == {"idle", "init", "claimed", "admin"}

\* A move to the status was logged, or checkout gave it.
Logged(o, status) ==
  \/ status = "pending"
  \/ \E f \in OrderStatuses \ {status} : <<f, status>> \in order_status_history[o]

\* No two sessions hold the same inventory row.
LocksExclusive ==
  \A w, v \in Workers : w # v => sess[w].locked \cap sess[v].locked = {}

\* No two callbacks have claimed the same payment.
ClaimsExclusive ==
  \A w, v \in Workers :
    /\ w # v
    /\ sess[w].pc \in Claiming
    /\ sess[v].pc \in Claiming
    => <<sess[w].order, sess[w].attempt>> # <<sess[v].order, sess[v].attempt>>

\* A locked row is, in its session, the committed row with the handler's own
\* change: nothing was committed to it in between.  (Not so in checkout.)
RowsCurrent(s) ==
  s.pc \in ChangesStock =>
    \A p \in s.locked : s.rows[p] = Changed(s, product_inventory[p], s.items[p])

\* The loop of mark_paid has locked, or has still to lock, every item; a
\* handler without a loop locks nothing.
LoopCoversOrder(s) ==
  /\ s.want \in s.todo \cup {None}
  /\ s.pc \in NoLoop => s.todo = {} /\ s.locked = {}
  /\ s.pc = "paid" => s.todo \cup s.locked = InCart(s.items)

\* The session's order is committed, its items are final, the status the
\* session loaded was the order's status at some time, and only mark_paid and
\* an admin move it to "paid".
KnowsOrder(s) ==
  /\ s.pc = "checkout" => s.user \in Customers /\ s.goal = "awaiting_payment"
                                               /\ s.seen = "pending"
  /\ s.pc \in OnOrder => s.order \in Orders /\ orders[s.order].status # "none"
  /\ s.pc \in ChangesStock => s.items = orders[s.order].items
  /\ s.pc \in {"failed", "cancel"} => s.goal # "paid"
  /\ s.pc \in {"paid", "failed", "cancel", "admin"} => Logged(s.order, s.seen)

\* A claimed payment is undecided, and what the gateway has captured for a
\* session that found it verified stays captured.
HoldsClaim(s) ==
  s.pc \in Claiming =>
    /\ s.attempt \in Attempts
    /\ payments[s.order][s.attempt] = "initiated"
    /\ s.pc = "paid" => gateway[s.order][s.attempt] = "settled"

\* The gateway knows the payments the shop has committed, and no others.
GatewayKnowsPayments ==
  \A o \in Orders, k \in Attempts :
    payments[o][k] = "none" <=> gateway[o][k] = "none"

\* Only committed orders have payments.
PaymentsHaveOrders ==
  \A o \in Orders, k \in Attempts :
    payments[o][k] # "none" => orders[o].status # "none"

SessionsSound ==
  \A w \in Workers : /\ RowsCurrent(sess[w])
                     /\ LoopCoversOrder(sess[w])
                     /\ KnowsOrder(sess[w])
                     /\ HoldsClaim(sess[w])

\* Locks and claims are exclusive, and while a handler of a callback or a
\* cancellation runs, what it has locked or claimed is still what it saw.
SessionsIsolated == LocksExclusive /\ ClaimsExclusive /\ SessionsSound

ShopInv ==
  /\ TypeOK
  /\ SessionsIsolated
  /\ PaymentsHaveOrders
  /\ GatewayKnowsPayments
  /\ PaidMeansCaptured
  /\ HistoryIsConnected

\* The log holds moves of the table only, and a refund logs its move.
AuditInv ==
  \A o \in Orders :
    /\ order_status_history[o] \subseteq ALLOWED_TRANSITIONS
    /\ refunds[o] > 0 =>
         \E f \in OrderStatuses : <<f, "refunded">> \in order_status_history[o]

-----------------------------------------------------------------------------
(* What holds in addition while requests do not disturb each other.        *)

\* The statuses of an order whose stock has been purchased: no move leaves
\* them, and the only way in is from "awaiting_payment".
Purchased == {"paid", "processing", "shipped", "completed", "cancelled", "refunded"}

\* A mover has seen the order's current status.
MoversCurrent ==
  \A w \in Workers : sess[w].pc \in Movers => sess[w].seen = orders[sess[w].order].status

\* The moves of callbacks and cancellations are fixed.
GoalsFixed ==
  \A w \in Workers : /\ sess[w].pc = "paid" => sess[w].goal = "paid"
                     /\ sess[w].pc = "failed" => sess[w].goal = "payment_failed"
                     /\ sess[w].pc = "cancel" => sess[w].goal = "cancelled"

\* The status remembers that the order was purchased or refunded.
StatusRemembers ==
  \A o \in Orders :
    /\ purchases[o] > 0 => orders[o].status \in Purchased
    /\ refunds[o] > 0 => orders[o].status = "refunded"

SerialInv ==
  /\ OneMoverPerOrder
  /\ MoversCurrent
  /\ GoalsFixed
  /\ StatusRemembers
  /\ PurchasedAtMostOnce
  /\ RefundAtMostOnce

\* The loop of a handler has changed, or has still to change, every item.
LoopComplete(s) ==
  /\ s.pc \in {"checkout", "failed"} => s.todo \cup s.locked = InCart(s.items)
  /\ s.pc = "cancel" => s.todo \cup s.locked =
       IF s.seen \in ReleasedOnCancel THEN InCart(s.items) ELSE {}

\* A row of a checkout has the reservations of the committed one, and its own.
RowsFresh(s) ==
  s.pc = "checkout" =>
    /\ s.todo \cap s.locked = {}
    /\ \A p \in s.locked : s.rows[p].reserved = product_inventory[p].reserved + s.items[p]
    /\ s.want # None => s.rows[s.want].reserved = product_inventory[s.want].reserved

\* An order whose wait an admin has ended waits again only if one reopens it.
OverriddenMoved ==
  \A o \in overridden :
    /\ orders[o].status # "none"
    /\ orders[o].status = "awaiting_payment" => FailedOrderReopened

StockInv ==
  /\ NoCheckoutWaits
  /\ \A w \in Workers : LoopComplete(sess[w]) /\ RowsFresh(sess[w])
  /\ OverriddenMoved
  /\ \A p \in Products : IsFiniteSet(Units(Reserving, p))
  /\ ReservedIsPromised
=============================================================================
