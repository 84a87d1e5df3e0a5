------------------------------ MODULE ShopStock ------------------------------
(***************************************************************************)
(* What reservations mean: properties of Shop that count the units that    *)
(* are promised to orders.                                                 *)
(***************************************************************************)
EXTENDS Shop

AwaitingPayment == {o \in Orders : orders[o].status = "awaiting_payment"}

\* The units of p in the orders os: the i-th one of the order o is <<o, i>>.
Units(os, p) == UNION {{o} \X (1..orders[o].items[p]) : o \in os}
Promised(p) == Cardinality(Units(AwaitingPayment, p))

\* No checkout waits for a row another request holds, so the row it has
\* loaded is still current when it locks it.  The code does not see to it;
\* UndisturbedSpec is what the requests do as long as it happens to be so.
NoCheckoutWaits ==
  \A w, v \in Workers : sess[w].pc = "checkout" => ~WaitsFor(w, v)

UndisturbedSpec == Init /\ [][Next /\ OneMoverPerOrder' /\ NoCheckoutWaits']_vars

\* cancel also releases the items of a PAID order, whose reservation is gone.
PaidOrderCancelled ==
  \E o \in Orders : <<"paid", "cancelled">> \in order_status_history[o]

\* An admin has sent an order back to wait for its payment: nothing reserves
\* its items again.
FailedOrderReopened ==
  \E o \in Orders : <<"payment_failed", "awaiting_payment">> \in order_status_history[o]

\* The orders whose items ought to be reserved: the admin's moves touch no
\* stock, and what an order waited with is reserved for ever after.
Reserving == AwaitingPayment \cup overridden

\* As long as no paid order was cancelled and no failed one reopened,
\* stock_reserved is exactly what these orders were promised: reserve, release
\* and commit_purchase are called in matching pairs on every path, the refused
\* ones included, and nobody's release takes what another order has reserved.
ReservedIsPromised ==
  ~PaidOrderCancelled /\ ~FailedOrderReopened =>
    \A p \in Products :
      product_inventory[p].reserved = Cardinality(Units(Reserving, p))

\* Reservations cover what was promised.
ReservedCoversPromised ==
  \A p \in Products : product_inventory[p].reserved >= Promised(p)

\* No more units are promised than there are.
NoOversell ==
  \A p \in Products : Promised(p) <= product_inventory[p].total
=============================================================================
