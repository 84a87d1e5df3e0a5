----------------------------- MODULE ShopProofs -----------------------------
(***************************************************************************)
(* Proofs that Shop keeps ShopInv for any number of workers, products,     *)
(* orders and payments, and what follows from it.                          *)
(***************************************************************************)
EXTENDS ShopInvariant, TLAPS

-----------------------------------------------------------------------------
(* The arithmetic on an inventory row.                                     *)

\* release and commit_purchase keep a row within the table's CHECKs, and
\* release leaves stock_total alone.
LEMMA RowChangesAreRows ==
  ASSUME NEW row \in Rows, NEW q \in Nat
  PROVE  /\ Release(row, q) \in Rows
         /\ Release(row, q).total = row.total
         /\ CommitPurchase(row, q) \in Rows
         /\ Available(row) >= q => Reserve(row, q) \in Rows
  BY DEF Rows, Release, CommitPurchase, Reserve, Available, AtLeastZero

\* The change a handler applies to a row it may apply it to is a row.
LEMMA ChangedIsRow ==
  ASSUME NEW s \in Sessions, NEW row \in Rows, NEW q \in Nat,
         s.pc = "checkout" => Available(row) >= q
  PROVE  Changed(s, row, q) \in Rows
  BY RowChangesAreRows DEF Changed

LEMMA IdleIsSession == Idle \in Sessions
  BY DEF Idle, Sessions, Handlers, NoItems, Quantities, NoRow, Rows

-----------------------------------------------------------------------------
(* What other sessions keep while one of them takes a step.                *)

\* A step of w that changes only inventory rows w has locked, keeps committed
\* orders and their logs, and changes only payments that w has claimed or
\* that are new.
Undisturbing(w) ==
  /\ \A v \in Workers \ {w} : sess'[v] = sess[v]
  /\ \A p \in Products : product_inventory'[p] = product_inventory[p]
                           \/ p \in sess[w].locked
  /\ \A o \in Orders : orders[o].status # "none" =>
                           /\ orders'[o].status # "none"
                           /\ orders'[o].items = orders[o].items
  /\ \A o \in Orders : order_status_history[o] \subseteq order_status_history'[o]
  /\ \A o \in Orders, k \in Attempts :
       \/ payments'[o][k] = payments[o][k] /\ gateway'[o][k] = gateway[o][k]
       \/ payments[o][k] = "none"
       \/ sess[w].pc \in Claiming /\ sess[w].order = o /\ sess[w].attempt = k

\* Such a step leaves every other session sound.
LEMMA OthersUndisturbed ==
  ASSUME ShopInv, NEW w \in Workers, Undisturbing(w)
  PROVE  \A v \in Workers \ {w} : /\ RowsCurrent(sess[v])'
                                  /\ LoopCoversOrder(sess[v])'
                                  /\ KnowsOrder(sess[v])'
                                  /\ HoldsClaim(sess[v])'
<1> USE DEF Undisturbing
<1> SUFFICES ASSUME NEW v \in Workers \ {w}
             PROVE  /\ RowsCurrent(sess[v])'
                    /\ LoopCoversOrder(sess[v])'
                    /\ KnowsOrder(sess[v])'
                    /\ HoldsClaim(sess[v])'
  OBVIOUS
<1>1. sess'[v] = sess[v] /\ sess[v] \in Sessions
  BY DEF ShopInv, TypeOK
<1>2. RowsCurrent(sess[v])'
  <2>1. \A p \in sess[v].locked : p \in Products /\ product_inventory'[p] = product_inventory[p]
    BY <1>1 DEF ShopInv, SessionsIsolated, LocksExclusive, Sessions
  <2> QED
    BY <1>1, <2>1 DEF ShopInv, SessionsIsolated, SessionsSound, RowsCurrent, Changed
<1>3. LoopCoversOrder(sess[v])'
  BY <1>1 DEF ShopInv, SessionsIsolated, SessionsSound, LoopCoversOrder, InCart
<1>4. KnowsOrder(sess[v])'
  <2>1. KnowsOrder(sess[v])
    BY DEF ShopInv, SessionsIsolated, SessionsSound
  <2>2. \A o \in Orders : \A status : Logged(o, status) => Logged(o, status)'
    BY DEF Logged
  <2> QED
    BY <1>1, <2>1, <2>2 DEF KnowsOrder, OnOrder, ChangesStock
<1>5. HoldsClaim(sess[v])'
  <2> SUFFICES ASSUME sess[v].pc \in Claiming
               PROVE  HoldsClaim(sess[v])'
    BY <1>1 DEF HoldsClaim
  <2> DEFINE o == sess[v].order
             k == sess[v].attempt
  <2>1. o \in Orders /\ k \in Attempts /\ payments[o][k] = "initiated"
    BY DEF ShopInv, SessionsIsolated, SessionsSound, KnowsOrder, HoldsClaim, Claiming,
           OnOrder
  <2>2. ~(sess[w].pc \in Claiming /\ sess[w].order = o /\ sess[w].attempt = k)
    BY DEF ShopInv, SessionsIsolated, ClaimsExclusive
  <2>3. payments'[o][k] = payments[o][k] /\ gateway'[o][k] = gateway[o][k]
    BY <2>1, <2>2
  <2> QED
    BY <1>1, <2>1, <2>3 DEF ShopInv, SessionsIsolated, SessionsSound, HoldsClaim
<1> QED
  BY <1>2, <1>3, <1>4, <1>5

\* w's own session after the step is sound, and neither locks nor claims what
\* another session has.
OwnSound(w) ==
  /\ RowsCurrent(sess[w])
  /\ LoopCoversOrder(sess[w])
  /\ KnowsOrder(sess[w])
  /\ HoldsClaim(sess[w])

OwnExclusive(w) ==
  \A v \in Workers \ {w} :
    /\ sess[w].locked \cap sess[v].locked = {}
    /\ sess[w].pc \in Claiming /\ sess[v].pc \in Claiming =>
         <<sess[w].order, sess[w].attempt>> # <<sess[v].order, sess[v].attempt>>

LEMMA IsolationKept ==
  ASSUME ShopInv, NEW w \in Workers, Undisturbing(w), OwnSound(w)', OwnExclusive(w)'
  PROVE  SessionsIsolated'
<1>1. LocksExclusive'
  BY DEF OwnExclusive, Undisturbing, ShopInv, SessionsIsolated, LocksExclusive
<1>2. ClaimsExclusive'
  BY DEF OwnExclusive, Undisturbing, ShopInv, SessionsIsolated, ClaimsExclusive
<1>3. SessionsSound'
  BY OthersUndisturbed DEF OwnSound, SessionsSound
<1> QED
  BY <1>1, <1>2, <1>3 DEF SessionsIsolated

\* Commit or rollback: the session is gone.
LEMMA EndIsolated ==
  ASSUME ShopInv, NEW w \in Workers, Undisturbing(w), sess'[w] = Idle
  PROVE  SessionsIsolated'
<1>1. OwnSound(w)'
  BY DEF OwnSound, RowsCurrent, LoopCoversOrder, KnowsOrder, HoldsClaim, Idle,
         Claiming, OnOrder, ChangesStock, NoLoop
<1>2. OwnExclusive(w)'
  BY DEF OwnExclusive, Idle, Claiming
<1> QED
  BY <1>1, <1>2, IsolationKept

\* A step that changes nothing but w's session.
LEMMA SessionStep ==
  ASSUME ShopInv, NEW w \in Workers, sess' = [sess EXCEPT ![w] = sess'[w]],
         sess'[w] \in Sessions, UNCHANGED committed, faults' \in 0..MaxFaults
  PROVE  /\ Undisturbing(w)
         /\ SessionsIsolated' => ShopInv'
<1>1. Undisturbing(w)
  BY DEF Undisturbing, committed, ShopInv, TypeOK
<1>2. TypeOK'
  BY DEF ShopInv, TypeOK, committed
<1>3. PaymentsHaveOrders' /\ GatewayKnowsPayments' /\ PaidMeansCaptured' /\ HistoryIsConnected'
  BY DEF ShopInv, PaymentsHaveOrders, GatewayKnowsPayments, PaidMeansCaptured, HistoryIsConnected,
         committed
<1> QED
  BY <1>1, <1>2, <1>3 DEF ShopInv

\* Rollback: rejection, deadlock victim or fault.
LEMMA RollbackKeepsInv ==
  ASSUME ShopInv, NEW w \in Workers, Reject(w) \/ DeadlockAbort(w) \/ Fail(w)
  PROVE  ShopInv'
<1>1. /\ sess' = [sess EXCEPT ![w] = Idle]
      /\ UNCHANGED committed
      /\ faults' \in 0..MaxFaults
  BY StockAssumption DEF Reject, DeadlockAbort, Fail, End, ShopInv, TypeOK
<1>2. sess'[w] = Idle /\ sess' = [sess EXCEPT ![w] = sess'[w]]
  BY <1>1 DEF ShopInv, TypeOK
<1> QED
  BY <1>1, <1>2, IdleIsSession, SessionStep, EndIsolated

\* A request starts with a fresh session: no locks, and a claim only if
\* nobody has it.
LEMMA FreshSession ==
  ASSUME ShopInv, NEW w \in Workers, sess' = [sess EXCEPT ![w] = sess'[w]],
         sess'[w] \in Sessions, UNCHANGED <<committed, faults>>,
         sess'[w].locked = {}, sess'[w].want = None, sess'[w].pc # "paid",
         sess'[w].pc \in NoLoop => sess'[w].todo = {},
         sess'[w].pc \in Claiming => Claimants(sess'[w].order, sess'[w].attempt) = {},
         KnowsOrder(sess[w])', HoldsClaim(sess[w])'
  PROVE  ShopInv'
<1>1. Undisturbing(w) /\ (SessionsIsolated' => ShopInv')
  BY SessionStep DEF ShopInv, TypeOK
<1>2. OwnSound(w)'
  BY DEF OwnSound, RowsCurrent, LoopCoversOrder
<1>3. OwnExclusive(w)'
  BY <1>1 DEF Undisturbing, OwnExclusive, Claimants, Claiming
<1> QED
  BY <1>1, <1>2, <1>3, IsolationKept

\* A status the table knows a move from is that of a committed order, and
\* its arrival was logged.
LEMMA MovableIsLogged ==
  ASSUME ShopInv, NEW o \in Orders, NEW goal,
         <<orders[o].status, goal>> \in ALLOWED_TRANSITIONS
  PROVE  orders[o].status # "none" /\ Logged(o, orders[o].status)
<1>1. orders[o].status # "none"
  BY DEF ALLOWED_TRANSITIONS, CancellableFrom, RefundableFrom
<1> QED
  BY <1>1 DEF ShopInv, HistoryIsConnected, Logged, TypeOK

LEMMA CheckoutKeepsInv ==
  ASSUME ShopInv, NEW w \in Workers, NEW u \in Customers, Checkout(w, u)
  PROVE  ShopInv'
<1> DEFINE s == [Idle EXCEPT !.pc = "checkout", !.user = u,
                             !.seen = "pending", !.goal = "awaiting_payment",
                             !.items = carts[u], !.todo = InCart(carts[u])]
<1>1. sess' = [sess EXCEPT ![w] = s] /\ sess'[w] = s /\ UNCHANGED <<committed, faults>>
  BY DEF Checkout, Start, ShopInv, TypeOK
<1>2. carts[u] \in Quantities /\ InCart(carts[u]) \subseteq Products
  BY DEF ShopInv, TypeOK, InCart
<1>3. s \in Sessions
  BY <1>2, IdleIsSession DEF Sessions, Handlers, OrderStatuses
<1>f. /\ s.locked = {}
      /\ s.want = None
      /\ s.pc = "checkout"
      /\ s.user = u
      /\ s.seen = "pending"
      /\ s.goal = "awaiting_payment"
  BY DEF Idle
<1> HIDE DEF s
<1>4. KnowsOrder(sess[w])' /\ HoldsClaim(sess[w])'
  BY <1>1, <1>f DEF KnowsOrder, HoldsClaim, OnOrder, ChangesStock, Claiming
<1> QED
  BY <1>1, <1>3, <1>4, <1>f, FreshSession DEF Claiming, NoLoop

LEMMA InitPaymentKeepsInv ==
  ASSUME ShopInv, NEW w \in Workers, NEW o \in Orders, InitPayment(w, o)
  PROVE  ShopInv'
<1> DEFINE s == [Idle EXCEPT !.pc = "init", !.order = o]
<1>1. sess' = [sess EXCEPT ![w] = s] /\ sess'[w] = s /\ UNCHANGED <<committed, faults>>
  BY DEF InitPayment, Start, ShopInv, TypeOK
<1>2. s \in Sessions
  BY IdleIsSession DEF Sessions, Handlers
<1>f. /\ s.locked = {}
      /\ s.todo = {}
      /\ s.want = None
      /\ s.pc = "init"
      /\ s.order = o
  BY DEF Idle
<1> HIDE DEF s
<1>3. KnowsOrder(sess[w])' /\ HoldsClaim(sess[w])'
  BY <1>1, <1>f DEF InitPayment, KnowsOrder, HoldsClaim, OnOrder, ChangesStock, Claiming,
              committed
<1> QED
  BY <1>1, <1>2, <1>3, <1>f, FreshSession DEF Claiming, NoLoop

LEMMA CallbackKeepsInv ==
  ASSUME ShopInv, NEW w \in Workers, NEW o \in Orders, NEW k \in Attempts,
         Callback(w, o, k)
  PROVE  ShopInv'
<1> DEFINE s == [Idle EXCEPT !.pc = "claimed", !.order = o, !.attempt = k]
<1>1. sess' = [sess EXCEPT ![w] = s] /\ sess'[w] = s /\ UNCHANGED <<committed, faults>>
  BY DEF Callback, Start, ShopInv, TypeOK
<1>2. s \in Sessions
  BY IdleIsSession DEF Sessions, Handlers
<1>f. /\ s.locked = {}
      /\ s.todo = {}
      /\ s.want = None
      /\ s.pc = "claimed"
      /\ s.order = o
      /\ s.attempt = k
  BY DEF Idle
<1> HIDE DEF s
<1>3. KnowsOrder(sess[w])' /\ HoldsClaim(sess[w])'
  BY <1>1, <1>f DEF Callback, Claimable, KnowsOrder, HoldsClaim, OnOrder, ChangesStock,
              Claiming, committed, ShopInv, PaymentsHaveOrders
<1> QED
  BY <1>1, <1>2, <1>3, <1>f, FreshSession DEF Claiming, NoLoop, Callback, Claimable

LEMMA CancelKeepsInv ==
  ASSUME ShopInv, NEW w \in Workers, NEW o \in Orders, Cancel(w, o)
  PROVE  ShopInv'
<1> DEFINE todo == IF orders[o].status \in ReleasedOnCancel
                   THEN InCart(orders[o].items) ELSE {}
           s == [Idle EXCEPT !.pc = "cancel", !.order = o, !.seen = orders[o].status,
                             !.goal = "cancelled", !.items = orders[o].items,
                             !.todo = todo]
<1>1. sess' = [sess EXCEPT ![w] = s] /\ sess'[w] = s /\ UNCHANGED <<committed, faults>>
  BY DEF Cancel, Start, ShopInv, TypeOK
<1>2. /\ orders[o] \in [status : OrderStatuses \cup {"none"}, items : Quantities]
      /\ todo \subseteq Products
  BY DEF ShopInv, TypeOK, InCart
<1> HIDE DEF todo
<1>3. s \in Sessions
  BY <1>2, IdleIsSession DEF Sessions, Handlers, OrderStatuses
<1>f. /\ s.locked = {}
      /\ s.want = None
      /\ s.pc = "cancel"
      /\ s.goal = "cancelled"
      /\ s.order = o
      /\ s.seen = orders[o].status
      /\ s.items = orders[o].items
  BY DEF Idle
<1> HIDE DEF s
<1>4. orders[o].status # "none" /\ Logged(o, orders[o].status)'
  BY <1>1, MovableIsLogged DEF Cancel, Logged, committed
<1>5. KnowsOrder(sess[w])' /\ HoldsClaim(sess[w])'
  BY <1>1, <1>f, <1>4 DEF KnowsOrder, HoldsClaim, OnOrder, ChangesStock, Claiming, committed
<1> QED
  BY <1>1, <1>3, <1>5, <1>f, FreshSession DEF Claiming, NoLoop

LEMMA AdminUpdateStatusKeepsInv ==
  ASSUME ShopInv, NEW w \in Workers, NEW o \in Orders, NEW goal \in OrderStatuses,
         AdminUpdateStatus(w, o, goal)
  PROVE  ShopInv'
<1> DEFINE s == [Idle EXCEPT !.pc = "admin", !.order = o, !.seen = orders[o].status,
                             !.goal = goal]
<1>1. sess' = [sess EXCEPT ![w] = s] /\ sess'[w] = s /\ UNCHANGED <<committed, faults>>
  BY DEF AdminUpdateStatus, Start, ShopInv, TypeOK
<1>2. orders[o].status \in OrderStatuses \cup {"none"}
  BY DEF ShopInv, TypeOK
<1>3. s \in Sessions
  BY <1>2, IdleIsSession DEF Sessions, Handlers
<1>f. /\ s.locked = {}
      /\ s.todo = {}
      /\ s.want = None
      /\ s.pc = "admin"
      /\ s.order = o
      /\ s.seen = orders[o].status
  BY DEF Idle
<1> HIDE DEF s
<1>4. orders[o].status # "none" /\ Logged(o, orders[o].status)'
  BY <1>1, MovableIsLogged DEF AdminUpdateStatus, Logged, committed
<1>5. KnowsOrder(sess[w])' /\ HoldsClaim(sess[w])'
  BY <1>1, <1>f, <1>4 DEF KnowsOrder, HoldsClaim, OnOrder, ChangesStock, Claiming, committed
<1> QED
  BY <1>1, <1>3, <1>5, <1>f, FreshSession DEF Claiming, NoLoop

-----------------------------------------------------------------------------
(* A running handler moves on.                                             *)

LEMMA NextItemKeepsInv ==
  ASSUME ShopInv, NEW w \in Workers, NEW p \in Products, NextItem(w, p)
  PROVE  ShopInv'
<1> DEFINE s == sess[w]
           rows == IF s.pc = "checkout"
                   THEN [s.rows EXCEPT ![p] = product_inventory[p]] ELSE s.rows
           t == [s EXCEPT !.want = p, !.rows = rows]
<1>1. sess' = [sess EXCEPT ![w] = t] /\ sess'[w] = t /\ UNCHANGED <<committed, faults>>
  BY DEF NextItem, ShopInv, TypeOK
<1>2. /\ s \in Sessions /\ p \in s.todo
      /\ s.pc # "checkout" => rows = s.rows
  BY DEF NextItem, ShopInv, TypeOK
<1>3. rows \in [Products -> Rows]
  BY <1>2 DEF ShopInv, TypeOK, Sessions
<1> HIDE DEF rows
<1>4. t \in Sessions
  BY <1>2, <1>3 DEF Sessions
<1>5. /\ t.pc = s.pc /\ t.user = s.user /\ t.order = s.order /\ t.attempt = s.attempt
      /\ t.seen = s.seen /\ t.goal = s.goal /\ t.items = s.items
      /\ t.todo = s.todo /\ t.want = p /\ t.locked = s.locked /\ t.rows = rows
  BY <1>2 DEF Sessions
<1> HIDE DEF t
<1>6. Undisturbing(w) /\ (SessionsIsolated' => ShopInv')
  BY <1>1, <1>4, SessionStep DEF ShopInv, TypeOK
<1>7. RowsCurrent(s) /\ LoopCoversOrder(s) /\ KnowsOrder(s) /\ HoldsClaim(s)
  BY DEF ShopInv, SessionsIsolated, SessionsSound
<1>8. RowsCurrent(sess[w])'
  BY <1>1, <1>2, <1>5, <1>7 DEF RowsCurrent, ChangesStock, Changed, committed
<1>9. LoopCoversOrder(sess[w])'
  BY <1>1, <1>2, <1>5, <1>7 DEF LoopCoversOrder, InCart, NoLoop
<1>10. KnowsOrder(sess[w])' /\ HoldsClaim(sess[w])'
  BY <1>1, <1>5, <1>7 DEF KnowsOrder, HoldsClaim, Logged, committed
<1>11. OwnExclusive(w)'
  BY <1>1, <1>5, <1>6 DEF OwnExclusive, Undisturbing, ShopInv, SessionsIsolated,
                          LocksExclusive, ClaimsExclusive
<1> QED
  BY <1>6, <1>8, <1>9, <1>10, <1>11, IsolationKept DEF OwnSound

LEMMA LockForUpdateKeepsInv ==
  ASSUME ShopInv, NEW w \in Workers, LockForUpdate(w)
  PROVE  ShopInv'
<1> DEFINE s == sess[w]
           p == s.want
           row == LockedRow(s, p)
           change == Changed(s, row, s.items[p])
           rows == [s.rows EXCEPT ![p] = change]
           t == [s EXCEPT !.want = None, !.todo = @ \ {p}, !.locked = @ \cup {p},
                          !.rows = rows]
<1>1. sess' = [sess EXCEPT ![w] = t] /\ sess'[w] = t /\ UNCHANGED <<committed, faults>>
  BY DEF LockForUpdate, ShopInv, TypeOK
<1>2. s \in Sessions /\ p \in Products /\ Free(w, p)
  BY DEF LockForUpdate, ShopInv, TypeOK
<1>3. row \in Rows /\ s.items[p] \in Nat
  BY <1>2 DEF LockedRow, ShopInv, TypeOK, Sessions, Quantities
<1>4. change \in Rows
  BY <1>2, <1>3, ChangedIsRow DEF LockForUpdate
<1>5. rows \in [Products -> Rows] /\ rows[p] = change
      /\ \A q \in Products \ {p} : rows[q] = s.rows[q]
  BY <1>2, <1>4 DEF Sessions
<1> HIDE DEF rows
<1>6. t \in Sessions
  BY <1>2, <1>5 DEF Sessions
<1>7. /\ t.pc = s.pc /\ t.user = s.user /\ t.order = s.order /\ t.attempt = s.attempt
      /\ t.seen = s.seen /\ t.goal = s.goal /\ t.items = s.items
      /\ t.todo = s.todo \ {p} /\ t.want = None /\ t.locked = s.locked \cup {p}
      /\ t.rows = rows
  BY <1>2 DEF Sessions
<1> HIDE DEF t
<1>8. Undisturbing(w) /\ (SessionsIsolated' => ShopInv')
  BY <1>1, <1>6, SessionStep DEF ShopInv, TypeOK
<1>9. RowsCurrent(s) /\ LoopCoversOrder(s) /\ KnowsOrder(s) /\ HoldsClaim(s)
  BY DEF ShopInv, SessionsIsolated, SessionsSound
<1>10. RowsCurrent(sess[w])'
  <2> SUFFICES ASSUME s.pc \in ChangesStock, NEW q \in t.locked
               PROVE  t.rows[q] = Changed(t, product_inventory[q], t.items[q])
    BY <1>1, <1>7 DEF RowsCurrent, committed, Changed
  <2>1. q \in Products
    BY <1>6 DEF Sessions
  <2>2. CASE q = p
    BY <2>2, <1>5, <1>7 DEF LockedRow, ChangesStock, Changed
  <2>3. CASE q # p
    BY <2>1, <2>3, <1>5, <1>7, <1>9 DEF RowsCurrent, Changed
  <2> QED
    BY <2>2, <2>3
<1>11. LoopCoversOrder(sess[w])'
  <2>1. s.want \in s.todo
    BY <1>2, <1>9, NoneAssumption DEF LoopCoversOrder
  <2> QED
    BY <1>1, <1>7, <1>9, <2>1 DEF LoopCoversOrder, InCart
<1>12. KnowsOrder(sess[w])' /\ HoldsClaim(sess[w])'
  BY <1>1, <1>7, <1>9 DEF KnowsOrder, HoldsClaim, Logged, committed
<1>13. OwnExclusive(w)'
  BY <1>1, <1>2, <1>7, <1>8 DEF OwnExclusive, Undisturbing, Free, ShopInv,
       SessionsIsolated, LocksExclusive, ClaimsExclusive
<1> QED
  BY <1>8, <1>10, <1>11, <1>12, <1>13, IsolationKept DEF OwnSound

\* mark_paid and mark_payment_failed start from the order as it is committed.
LEMMA DecidingKeepsInv ==
  ASSUME ShopInv, NEW w \in Workers, NEW pc, NEW goal, sess[w].pc = "claimed",
         \/ VerifySucceeds(w) /\ pc = "paid" /\ goal = "paid"
         \/ VerifyFails(w) /\ pc = "failed" /\ goal = "payment_failed"
  PROVE  ShopInv'
<1> DEFINE s == sess[w]
           o == s.order
           k == s.attempt
           t == Deciding(s, pc, goal)
<1>1. /\ s \in Sessions
      /\ RowsCurrent(s) /\ LoopCoversOrder(s) /\ KnowsOrder(s) /\ HoldsClaim(s)
  BY DEF ShopInv, TypeOK, SessionsIsolated, SessionsSound
<1>2. /\ s.locked = {} /\ s.want = None /\ o \in Orders /\ k \in Attempts
      /\ payments[o][k] = "initiated" /\ orders[o].status # "none"
      /\ orders[o] \in [status : OrderStatuses \cup {"none"}, items : Quantities]
      /\ InCart(orders[o].items) \subseteq Products
  BY <1>1 DEF LoopCoversOrder, NoLoop, KnowsOrder, OnOrder, HoldsClaim, Claiming,
              ShopInv, TypeOK, InCart
<1>3. /\ sess' = [sess EXCEPT ![w] = t] /\ sess'[w] = t
      /\ UNCHANGED <<product_inventory, carts, orders, order_status_history, purchases,
                     payments, refunds, overridden, faults>>
  BY DEF VerifySucceeds, VerifyFails, ShopInv, TypeOK, committed
<1>4. /\ gateway' \in [Orders -> [Attempts -> GatewayStates]]
      /\ gateway'[o][k] # "none"
      /\ pc = "paid" \/ gateway[o][k] = "settled" => gateway'[o][k] = "settled"
      /\ \A oo \in Orders, kk \in Attempts :
           ~(oo = o /\ kk = k) => gateway'[oo][kk] = gateway[oo][kk]
  <2>1. gateway \in [Orders -> [Attempts -> GatewayStates]] /\ gateway[o][k] # "none"
    BY <1>2 DEF ShopInv, TypeOK, GatewayKnowsPayments
  <2>2. \/ gateway' = gateway
        \/ gateway' = [gateway EXCEPT ![o][k] = Captured(gateway[o][k])]
    BY DEF VerifySucceeds, VerifyFails
  <2>3. pc = "paid" => /\ gateway' = [gateway EXCEPT ![o][k] = Captured(gateway[o][k])]
                       /\ gateway[o][k] \in {"paid", "settled"}
    BY DEF VerifySucceeds, VerifiedCodes
  <2> QED
    BY <1>2, <2>1, <2>2, <2>3 DEF Captured, GatewayStates
<1>5. t \in Sessions
  BY <1>1, <1>2 DEF Deciding, Sessions, Handlers, OrderStatuses
<1>g. t.goal = goal /\ (pc = "failed" => goal # "paid")
  BY <1>1 DEF Deciding, Sessions
<1>6. /\ t.pc = pc /\ t.order = o /\ t.attempt = k /\ t.seen = orders[o].status
      /\ t.items = orders[o].items /\ t.todo = InCart(orders[o].items)
      /\ t.want = None /\ t.locked = {} /\ pc \in {"paid", "failed"}
  BY <1>1, <1>2 DEF Deciding, Sessions
<1> HIDE DEF t
<1>7. Undisturbing(w)
  BY <1>2, <1>3, <1>4 DEF Undisturbing, Claiming, ShopInv, TypeOK
<1>8. RowsCurrent(sess[w])' /\ LoopCoversOrder(sess[w])'
  BY <1>3, <1>6 DEF RowsCurrent, LoopCoversOrder, NoLoop, InCart
<1>9. KnowsOrder(sess[w])'
  <2>1. Logged(o, orders[o].status)
    BY <1>2 DEF ShopInv, HistoryIsConnected, Logged, TypeOK
  <2>2. Logged(o, orders[o].status)'
    BY <1>3, <1>6, <2>1 DEF Logged
  <2> QED
    BY <1>2, <1>3, <1>6, <1>g, <2>2 DEF KnowsOrder, OnOrder, ChangesStock
<1>10. HoldsClaim(sess[w])'
  BY <1>2, <1>3, <1>4, <1>6 DEF HoldsClaim, Claiming
<1>11. OwnExclusive(w)'
  BY <1>3, <1>6, <1>7 DEF OwnExclusive, Undisturbing, ShopInv, SessionsIsolated,
       ClaimsExclusive, Claiming
<1>12. SessionsIsolated'
  BY <1>7, <1>8, <1>9, <1>10, <1>11, IsolationKept DEF OwnSound
<1>13. TypeOK'
  BY <1>3, <1>4, <1>5 DEF ShopInv, TypeOK
<1>14. PaymentsHaveOrders' /\ HistoryIsConnected'
  BY <1>3 DEF ShopInv, PaymentsHaveOrders, HistoryIsConnected
<1>15. GatewayKnowsPayments' /\ PaidMeansCaptured'
  BY <1>2, <1>3, <1>4 DEF ShopInv, GatewayKnowsPayments, PaidMeansCaptured
<1> QED
  BY <1>12, <1>13, <1>14, <1>15 DEF ShopInv

-----------------------------------------------------------------------------
(* Commits.                                                                *)

\* What the flush of a callback or a cancellation writes.
LEMMA FlushedRows ==
  ASSUME ShopInv, NEW w \in Workers, sess[w].pc \in ChangesStock
  PROVE  /\ Flushed(sess[w]) \in [Products -> Rows]
         /\ \A p \in Products \ sess[w].locked :
              Flushed(sess[w])[p] = product_inventory[p]
         /\ \A p \in sess[w].locked : Flushed(sess[w])[p].total =
              IF sess[w].pc = "paid"
              THEN AtLeastZero(product_inventory[p].total - sess[w].items[p])
              ELSE product_inventory[p].total
<1> DEFINE s == sess[w]
<1>1. s \in Sessions /\ RowsCurrent(s)
  BY DEF ShopInv, TypeOK, SessionsIsolated, SessionsSound
<1>2. ASSUME NEW p \in s.locked
      PROVE  /\ s.rows[p] \in Rows
             /\ s.rows[p].total = IF s.pc = "paid"
                  THEN AtLeastZero(product_inventory[p].total - s.items[p])
                  ELSE product_inventory[p].total
  <2>1. p \in Products /\ product_inventory[p] \in Rows /\ s.items[p] \in Nat
        /\ s.rows[p] \in Rows
    BY <1>1 DEF ShopInv, TypeOK, Sessions, Quantities
  <2>2. s.rows[p] = Changed(s, product_inventory[p], s.items[p])
    BY <1>1, <1>2 DEF RowsCurrent
  <2>3. CASE s.pc = "paid"
    BY <2>1, <2>2, <2>3 DEF Changed, CommitPurchase
  <2>4. CASE s.pc # "paid"
    <3>1. s.rows[p] = Release(product_inventory[p], s.items[p])
      BY <2>2, <2>4 DEF Changed, ChangesStock
    <3> QED
      BY <2>1, <2>4, <3>1, RowChangesAreRows
  <2> QED
    BY <2>1, <2>3, <2>4
<1>3. \A p \in s.locked : p \in Products
  BY <1>1 DEF Sessions
<1>4. \A p \in s.locked : Flushed(s)[p] = s.rows[p]
  <2> TAKE p \in s.locked
  <2>1. s.rows[p] = [total |-> s.rows[p].total, reserved |-> s.rows[p].reserved]
    BY <1>2 DEF Rows
  <2> QED
    BY <1>2, <1>3, <2>1 DEF Flushed
<1>5. \A p \in Products \ s.locked : Flushed(s)[p] = product_inventory[p]
  BY DEF Flushed
<1>6. Flushed(s) \in [Products -> Rows]
  <2>1. \A p \in Products : Flushed(s)[p] \in Rows
    BY <1>2, <1>4, <1>5 DEF ShopInv, TypeOK
  <2> QED
    BY <2>1 DEF Flushed
<1> QED
  BY <1>2, <1>4, <1>5, <1>6

\* _transition keeps every order and every logged move, and logs a move that
\* starts where a logged one led.
LEMMA TransitionKeepsOrders ==
  ASSUME ShopInv, NEW s \in Sessions, s.order \in Orders, Logged(s.order, s.seen),
         orders[s.order].status # "none", Transition(s)
  PROVE  /\ orders' \in [Orders -> [status : OrderStatuses \cup {"none"},
                                    items  : Quantities]]
         /\ order_status_history' \in [Orders -> SUBSET (OrderStatuses \X OrderStatuses)]
         /\ \A o \in Orders : orders[o].status # "none" =>
                                 orders'[o].status # "none"
         /\ \A o \in Orders : orders'[o].items = orders[o].items
         /\ \A o \in Orders : order_status_history[o] \subseteq order_status_history'[o]
         /\ HistoryIsConnected'
<1> DEFINE o == s.order
<1>1. s.seen \in OrderStatuses /\ s.goal \in OrderStatuses /\ s.goal # "none"
  BY DEF Transition, CanTransition, ALLOWED_TRANSITIONS, CancellableFrom, RefundableFrom,
         OrderStatuses
<1>2. orders \in [Orders -> [status : OrderStatuses \cup {"none"}, items : Quantities]]
      /\ order_status_history \in [Orders -> SUBSET (OrderStatuses \X OrderStatuses)]
  BY DEF ShopInv, TypeOK
<1>3. orders' = [orders EXCEPT ![o].status = s.goal]
  BY DEF Transition
<1>4. order_status_history' =
         [order_status_history EXCEPT ![o] = @ \cup {<<s.seen, s.goal>>}]
  BY DEF Transition
<1>5. /\ orders' \in [Orders -> [status : OrderStatuses \cup {"none"}, items : Quantities]]
      /\ orders'[o].status = s.goal
      /\ \A oo \in Orders : orders'[oo].items = orders[oo].items
      /\ \A oo \in Orders \ {o} : orders'[oo].status = orders[oo].status
  BY <1>1, <1>2, <1>3
<1>6. /\ order_status_history' \in [Orders -> SUBSET (OrderStatuses \X OrderStatuses)]
      /\ order_status_history'[o] = order_status_history[o] \cup {<<s.seen, s.goal>>}
      /\ \A oo \in Orders \ {o} : order_status_history'[oo] = order_status_history[oo]
  BY <1>1, <1>2, <1>4
<1>7. \A oo \in Orders : order_status_history[oo] \subseteq order_status_history'[oo]
  BY <1>6
<1>8. HistoryIsConnected'
  <2> SUFFICES ASSUME NEW oo \in Orders
               PROVE  /\ orders'[oo].status # "none" => \E f \in OrderStatuses :
                           <<f, orders'[oo].status>> \in order_status_history'[oo]
                      /\ \A m \in order_status_history'[oo] :
                           \/ m[1] = "pending"
                           \/ \E f \in OrderStatuses \ {m[1]} :
                                <<f, m[1]>> \in order_status_history'[oo]
    BY DEF HistoryIsConnected
  <2>1. CASE oo # o
    BY <2>1, <1>5, <1>6 DEF ShopInv, HistoryIsConnected
  <2>2. CASE oo = o
    <3>1. <<s.seen, orders'[o].status>> \in order_status_history'[o]
      BY <1>5, <1>6
    <3>2. ASSUME NEW m \in order_status_history[o]
          PROVE  \/ m[1] = "pending"
                 \/ \E f \in OrderStatuses \ {m[1]} :
                      <<f, m[1]>> \in order_status_history'[o]
      BY <1>6 DEF ShopInv, HistoryIsConnected
    <3>3. \/ s.seen = "pending"
          \/ \E f \in OrderStatuses \ {s.seen} : <<f, s.seen>> \in order_status_history'[o]
      BY <1>6 DEF Logged
    <3>4. \A m \in order_status_history'[o] :
            \/ m[1] = "pending"
            \/ \E f \in OrderStatuses \ {m[1]} : <<f, m[1]>> \in order_status_history'[o]
      <4> TAKE m \in order_status_history'[o]
      <4>1. CASE m \in order_status_history[o]
        BY <4>1, <3>2
      <4>2. CASE m = <<s.seen, s.goal>>
        <5>1. m[1] = s.seen
          BY <4>2
        <5> QED
          BY <5>1, <3>3
      <4> QED
        BY <1>6, <4>1, <4>2
    <3> QED
      BY <1>1, <2>2, <3>1, <3>4
  <2> QED
    BY <2>1, <2>2
<1> QED
  BY <1>1, <1>5, <1>6, <1>7, <1>8

\* The commit of a handler that moved its order: everything it wrote is
\* within its locks and its claim.
LEMMA OrderCommitKeepsInv ==
  ASSUME ShopInv, NEW w \in Workers,
         sess[w].pc \in {"paid", "failed", "cancel", "admin"},
         Transition(sess[w]), sess' = [sess EXCEPT ![w] = Idle],
         product_inventory' \in [Products -> Rows],
         \A p \in Products \ sess[w].locked : product_inventory'[p] = product_inventory[p],
         \/ payments' = payments
         \/ /\ sess[w].pc = "paid"
            /\ payments' = [payments EXCEPT ![sess[w].order][sess[w].attempt] = "verified"]
         \/ /\ sess[w].pc = "failed"
            /\ payments' = [payments EXCEPT ![sess[w].order][sess[w].attempt] = "failed"],
         purchases' \in [Orders -> Nat], refunds' \in [Orders -> Nat],
         overridden' \in SUBSET Orders, overridden \subseteq overridden',
         sess[w].goal = "paid" => sess[w].pc = "paid" \/ sess[w].order \in overridden',
         UNCHANGED <<carts, gateway, faults>>
  PROVE  ShopInv'
<1> DEFINE s == sess[w]
           o == s.order
           k == s.attempt
<1>1. s \in Sessions /\ KnowsOrder(s) /\ HoldsClaim(s)
  BY DEF ShopInv, TypeOK, SessionsIsolated, SessionsSound
<1>2. o \in Orders /\ Logged(o, s.seen) /\ orders[o].status # "none"
  BY <1>1 DEF KnowsOrder, OnOrder
<1>3. /\ orders' \in [Orders -> [status : OrderStatuses \cup {"none"}, items : Quantities]]
      /\ order_status_history' \in [Orders -> SUBSET (OrderStatuses \X OrderStatuses)]
      /\ \A oo \in Orders : orders[oo].status # "none" => orders'[oo].status # "none"
      /\ \A oo \in Orders : orders'[oo].items = orders[oo].items
      /\ \A oo \in Orders : order_status_history[oo] \subseteq order_status_history'[oo]
      /\ HistoryIsConnected'
  BY <1>1, <1>2, TransitionKeepsOrders
<1>4. /\ payments' \in [Orders -> [Attempts -> PaymentStatuses]]
      /\ \A oo \in Orders, kk \in Attempts :
           \/ payments'[oo][kk] = payments[oo][kk]
           \/ /\ oo = o /\ kk = k /\ payments[oo][kk] = "initiated"
              /\ \/ payments'[oo][kk] = "verified" /\ gateway[oo][kk] = "settled"
                 \/ payments'[oo][kk] = "failed"
              /\ s.pc \in Claiming
  <2>1. payments \in [Orders -> [Attempts -> PaymentStatuses]]
    BY DEF ShopInv, TypeOK
  <2>2. CASE payments' = payments
    BY <2>1, <2>2
  <2>3. CASE s.pc = "paid" /\ payments' = [payments EXCEPT ![o][k] = "verified"]
    <3>1. k \in Attempts /\ payments[o][k] = "initiated" /\ gateway[o][k] = "settled"
      BY <1>1, <2>3 DEF HoldsClaim, Claiming
    <3> QED
      BY <1>2, <2>1, <2>3, <3>1 DEF PaymentStatuses, Claiming
  <2>4. CASE s.pc = "failed" /\ payments' = [payments EXCEPT ![o][k] = "failed"]
    <3>1. k \in Attempts /\ payments[o][k] = "initiated"
      BY <1>1, <2>4 DEF HoldsClaim, Claiming
    <3> QED
      BY <1>2, <2>1, <2>4, <3>1 DEF PaymentStatuses, Claiming
  <2> QED
    BY <2>2, <2>3, <2>4
<1>5. Undisturbing(w)
  BY <1>3, <1>4 DEF Undisturbing, ShopInv, TypeOK
<1>6. SessionsIsolated'
  <2>1. sess'[w] = Idle
    BY DEF ShopInv, TypeOK
  <2> QED
    BY <1>5, <2>1, EndIsolated
<1>7. TypeOK'
  BY <1>3, <1>4, IdleIsSession DEF ShopInv, TypeOK
<1>8. PaymentsHaveOrders'
  BY <1>3, <1>4 DEF ShopInv, PaymentsHaveOrders
<1>9. GatewayKnowsPayments'
  BY <1>4 DEF ShopInv, GatewayKnowsPayments
<1>10. PaidMeansCaptured'
  <2> SUFFICES ASSUME NEW oo \in Orders
               PROVE  /\ \A kk \in Attempts :
                           payments'[oo][kk] = "verified" => gateway'[oo][kk] = "settled"
                      /\ (\E f \in OrderStatuses : <<f, "paid">> \in order_status_history'[oo])
                           => \/ oo \in overridden'
                              \/ \E kk \in Attempts : gateway'[oo][kk] = "settled"
    BY DEF PaidMeansCaptured
  <2>1. \A kk \in Attempts :
          payments'[oo][kk] = "verified" => gateway'[oo][kk] = "settled"
    BY <1>4 DEF ShopInv, PaidMeansCaptured
  <2>2. ASSUME NEW f, <<f, "paid">> \in order_status_history'[oo]
        PROVE  \/ oo \in overridden'
               \/ \E kk \in Attempts : gateway'[oo][kk] = "settled"
    <3>1. CASE <<f, "paid">> \in order_status_history[oo]
      <4>1. f \in OrderStatuses
        BY <3>1 DEF ShopInv, TypeOK
      <4> QED
        BY <3>1, <4>1 DEF ShopInv, PaidMeansCaptured
    <3>2. CASE <<f, "paid">> \notin order_status_history[oo]
      <4>1. oo = o /\ s.goal = "paid"
        BY <1>2, <2>2, <3>2 DEF Transition, ShopInv, TypeOK
      <4>2. s.pc = "paid" => k \in Attempts /\ gateway'[o][k] = "settled"
        BY <1>1 DEF HoldsClaim, Claiming
      <4> QED
        BY <4>1, <4>2
    <3> QED
      BY <3>1, <3>2
  <2> QED
    BY <2>1, <2>2
<1> QED
  BY <1>3, <1>6, <1>7, <1>8, <1>9, <1>10 DEF ShopInv

LEMMA CommitPaidKeepsInv ==
  ASSUME ShopInv, NEW w \in Workers, CommitPaid(w)
  PROVE  ShopInv'
<1>1. sess[w].pc = "paid" /\ sess[w].pc \in ChangesStock
  BY DEF CommitPaid, ChangesStock
<1>2. /\ purchases' \in [Orders -> Nat] /\ refunds' \in [Orders -> Nat]
      /\ overridden' \in SUBSET Orders
  <2>1. /\ purchases \in [Orders -> Nat] /\ refunds \in [Orders -> Nat]
        /\ overridden \in SUBSET Orders
    BY DEF ShopInv, TypeOK
  <2>2. /\ purchases' = [purchases EXCEPT ![sess[w].order] = @ + 1]
        /\ UNCHANGED <<refunds, overridden>>
    BY DEF CommitPaid
  <2>3. sess[w].order \in Orders
    BY <1>1 DEF ShopInv, SessionsIsolated, SessionsSound, KnowsOrder, OnOrder
  <2> QED
    BY <2>1, <2>2, <2>3
<1> QED
  BY <1>1, <1>2, FlushedRows, OrderCommitKeepsInv DEF CommitPaid, End

LEMMA CommitPaymentFailedKeepsInv ==
  ASSUME ShopInv, NEW w \in Workers, CommitPaymentFailed(w)
  PROVE  ShopInv'
<1>1. sess[w].pc = "failed" /\ sess[w].pc \in ChangesStock
  BY DEF CommitPaymentFailed, ChangesStock
<1>2. /\ purchases' \in [Orders -> Nat] /\ refunds' \in [Orders -> Nat]
      /\ overridden' \in SUBSET Orders
  BY DEF CommitPaymentFailed, ShopInv, TypeOK
<1>3. sess[w].goal # "paid"
  BY <1>1 DEF ShopInv, SessionsIsolated, SessionsSound, KnowsOrder
<1> QED
  BY <1>1, <1>2, <1>3, FlushedRows, OrderCommitKeepsInv DEF CommitPaymentFailed, End

LEMMA CommitCancelKeepsInv ==
  ASSUME ShopInv, NEW w \in Workers, CommitCancel(w)
  PROVE  ShopInv'
<1>1. sess[w].pc = "cancel" /\ sess[w].pc \in ChangesStock
  BY DEF CommitCancel, ChangesStock
<1>2. /\ purchases' \in [Orders -> Nat] /\ refunds' \in [Orders -> Nat]
      /\ overridden' \in SUBSET Orders
  BY DEF CommitCancel, ShopInv, TypeOK
<1>3. sess[w].goal # "paid"
  BY <1>1 DEF ShopInv, SessionsIsolated, SessionsSound, KnowsOrder
<1> QED
  BY <1>1, <1>2, <1>3, FlushedRows, OrderCommitKeepsInv DEF CommitCancel, End

LEMMA CommitAdminUpdateKeepsInv ==
  ASSUME ShopInv, NEW w \in Workers, CommitAdminUpdate(w)
  PROVE  ShopInv'
<1>1. sess[w].pc = "admin"
  BY DEF CommitAdminUpdate
<1>2. /\ purchases' \in [Orders -> Nat] /\ refunds' \in [Orders -> Nat]
      /\ overridden' \in SUBSET Orders
  <2>1. /\ purchases \in [Orders -> Nat] /\ refunds \in [Orders -> Nat]
        /\ overridden \in SUBSET Orders
    BY DEF ShopInv, TypeOK
  <2>2. /\ purchases' = purchases
        /\ \/ refunds' = refunds
           \/ refunds' = [refunds EXCEPT ![sess[w].order] = @ + 1]
        /\ overridden' \subseteq overridden \cup {sess[w].order}
    BY DEF CommitAdminUpdate
  <2>3. sess[w].order \in Orders
    BY <1>1 DEF ShopInv, SessionsIsolated, SessionsSound, KnowsOrder, OnOrder
  <2> QED
    BY <2>1, <2>2, <2>3
<1>3. product_inventory' = product_inventory /\ product_inventory \in [Products -> Rows]
  BY DEF CommitAdminUpdate, ShopInv, TypeOK
<1>4. overridden \subseteq overridden'
  BY DEF CommitAdminUpdate
<1>5. sess[w].goal = "paid" => sess[w].order \in overridden'
  <2>1. sess[w].goal = "paid" => sess[w].seen = "awaiting_payment"
    BY DEF CommitAdminUpdate, Transition, CanTransition, ALLOWED_TRANSITIONS
  <2> QED
    BY <2>1 DEF CommitAdminUpdate
<1> QED
  BY <1>1, <1>2, <1>3, <1>4, <1>5, OrderCommitKeepsInv DEF CommitAdminUpdate, End

\* The order is new: nobody else knows of it.
LEMMA CommitCheckoutKeepsInv ==
  ASSUME ShopInv, NEW w \in Workers, NEW o \in Orders, CommitCheckout(w, o)
  PROVE  ShopInv'
<1> DEFINE s == sess[w]
<1>1. s \in Sessions /\ s.pc = "checkout" /\ KnowsOrder(s) /\ s.items \in Quantities
  BY DEF CommitCheckout, ShopInv, TypeOK, SessionsIsolated, SessionsSound, Sessions
<1>2. s.user \in Customers /\ s.goal = "awaiting_payment" /\ s.seen = "pending"
  BY <1>1 DEF KnowsOrder
<1>3. orders \in [Orders -> [status : OrderStatuses \cup {"none"}, items : Quantities]]
      /\ order_status_history \in [Orders -> SUBSET (OrderStatuses \X OrderStatuses)]
      /\ carts \in [Customers -> Quantities]
  BY DEF ShopInv, TypeOK
<1>4. /\ orders' = [orders EXCEPT ![o] = [status |-> "awaiting_payment", items |-> s.items]]
      /\ order_status_history' =
           [order_status_history EXCEPT ![o] = @ \cup {<<"pending", "awaiting_payment">>}]
      /\ carts' = [carts EXCEPT ![s.user] = NoItems]
      /\ orders[o].status = "none"
      /\ UNCHANGED <<purchases, payments, gateway, refunds, overridden, faults>>
  BY <1>2 DEF CommitCheckout
<1>5. /\ orders' \in [Orders -> [status : OrderStatuses \cup {"none"}, items : Quantities]]
      /\ orders'[o].status = "awaiting_payment"
      /\ \A oo \in Orders \ {o} : orders'[oo] = orders[oo]
  BY <1>1, <1>3, <1>4 DEF OrderStatuses
<1>6. /\ order_status_history' \in [Orders -> SUBSET (OrderStatuses \X OrderStatuses)]
      /\ order_status_history'[o] =
           order_status_history[o] \cup {<<"pending", "awaiting_payment">>}
      /\ \A oo \in Orders \ {o} : order_status_history'[oo] = order_status_history[oo]
  BY <1>3, <1>4 DEF OrderStatuses
<1>7. carts' \in [Customers -> Quantities]
  BY <1>2, <1>3, <1>4 DEF NoItems, Quantities
<1>8. /\ product_inventory' \in [Products -> Rows]
      /\ \A p \in Products \ s.locked : product_inventory'[p] = product_inventory[p]
  BY DEF CommitCheckout, Flushed
<1>9. sess' = [sess EXCEPT ![w] = Idle] /\ sess'[w] = Idle
  BY DEF CommitCheckout, End, ShopInv, TypeOK
<1>10. TypeOK'
  BY <1>4, <1>5, <1>6, <1>7, <1>8, <1>9, IdleIsSession DEF ShopInv, TypeOK
<1>12. Undisturbing(w)
  BY <1>4, <1>5, <1>6, <1>8, <1>9 DEF Undisturbing, ShopInv, TypeOK
<1>13. SessionsIsolated'
  BY <1>9, <1>12, EndIsolated
<1>14. PaymentsHaveOrders' /\ GatewayKnowsPayments'
  BY <1>4, <1>5 DEF ShopInv, PaymentsHaveOrders, GatewayKnowsPayments
<1>16. PaidMeansCaptured'
  <2>1. \A oo \in Orders, f \in OrderStatuses :
          <<f, "paid">> \in order_status_history'[oo] => <<f, "paid">> \in order_status_history[oo]
    BY <1>6
  <2> QED
    BY <1>4, <2>1 DEF ShopInv, PaidMeansCaptured
<1>15. HistoryIsConnected'
  <2>1. \A m \in order_status_history'[o] :
          m \in order_status_history[o] \/ m[1] = "pending"
    BY <1>6
  <2>2. "pending" \in OrderStatuses
    BY DEF OrderStatuses
  <2> QED
    BY <1>5, <1>6, <2>1, <2>2 DEF ShopInv, HistoryIsConnected
<1> QED
  BY <1>10, <1>13, <1>14, <1>15, <1>16 DEF ShopInv

LEMMA CommitPaymentKeepsInv ==
  ASSUME ShopInv, NEW w \in Workers, NEW k \in Attempts, CommitPayment(w, k)
  PROVE  ShopInv'
<1> DEFINE o == sess[w].order
<1>1. o \in Orders /\ orders[o].status # "none"
  BY DEF CommitPayment, ShopInv, SessionsIsolated, SessionsSound, KnowsOrder, OnOrder
<1>2. /\ payments \in [Orders -> [Attempts -> PaymentStatuses]]
      /\ gateway \in [Orders -> [Attempts -> GatewayStates]]
      /\ sess \in [Workers -> Sessions]
  BY DEF ShopInv, TypeOK
<1>3. /\ payments[o][k] = "none"
      /\ payments' = [payments EXCEPT ![o][k] = "initiated"]
      /\ gateway' = [gateway EXCEPT ![o][k] = "open"]
      /\ sess' = [sess EXCEPT ![w] = Idle]
      /\ UNCHANGED <<product_inventory, carts, orders, order_status_history, purchases,
                     refunds, overridden, faults>>
  BY DEF CommitPayment, End
<1> HIDE DEF o
<1>4. /\ payments' \in [Orders -> [Attempts -> PaymentStatuses]]
      /\ payments'[o][k] = "initiated"
      /\ \A oo \in Orders, kk \in Attempts :
           ~(oo = o /\ kk = k) => payments'[oo][kk] = payments[oo][kk]
  BY <1>1, <1>2, <1>3 DEF PaymentStatuses
<1>5. /\ gateway' \in [Orders -> [Attempts -> GatewayStates]]
      /\ gateway'[o][k] = "open"
      /\ \A oo \in Orders, kk \in Attempts :
           ~(oo = o /\ kk = k) => gateway'[oo][kk] = gateway[oo][kk]
  BY <1>1, <1>2, <1>3 DEF GatewayStates
<1>6. sess'[w] = Idle /\ sess' \in [Workers -> Sessions]
  BY <1>2, <1>3, IdleIsSession
<1>7. Undisturbing(w)
  BY <1>2, <1>3, <1>4, <1>5 DEF Undisturbing
<1>8. SessionsIsolated'
  BY <1>6, <1>7, EndIsolated
<1>9. TypeOK'
  BY <1>3, <1>4, <1>5, <1>6 DEF ShopInv, TypeOK
<1>10. PaymentsHaveOrders' /\ HistoryIsConnected'
  BY <1>1, <1>3, <1>4 DEF ShopInv, PaymentsHaveOrders, HistoryIsConnected
<1>11. GatewayKnowsPayments' /\ PaidMeansCaptured'
  <2>1. gateway[o][k] = "none"
    BY <1>1, <1>3 DEF ShopInv, GatewayKnowsPayments
  <2>2. GatewayKnowsPayments'
    BY <1>4, <1>5 DEF ShopInv, GatewayKnowsPayments
  <2>3. \A oo \in Orders, kk \in Attempts :
          /\ payments'[oo][kk] = "verified" => payments[oo][kk] = "verified"
          /\ gateway[oo][kk] = "settled" => gateway'[oo][kk] = "settled"
    BY <1>4, <1>5, <2>1
  <2> QED
    BY <1>3, <2>2, <2>3 DEF ShopInv, PaidMeansCaptured
<1> QED
  BY <1>8, <1>9, <1>10, <1>11 DEF ShopInv

-----------------------------------------------------------------------------
(* Steps without a session.                                                *)

\* What the customer pays at the gateway takes no capture back.
LEMMA AtGatewayKeepsInv ==
  ASSUME ShopInv, AtGateway
  PROVE  ShopInv'
<1>1. PICK o \in Orders, k \in Attempts :
        /\ gateway[o][k] = "open"
        /\ gateway' = [gateway EXCEPT ![o][k] = "paid"]
        /\ UNCHANGED <<product_inventory, carts, orders, order_status_history, purchases,
                       payments, refunds, overridden, sess, faults>>
  BY DEF AtGateway, CustomerPays
<1>2. gateway \in [Orders -> [Attempts -> GatewayStates]]
  BY DEF ShopInv, TypeOK
<1>3. /\ gateway' \in [Orders -> [Attempts -> GatewayStates]]
      /\ gateway'[o][k] = "paid"
      /\ \A oo \in Orders, kk \in Attempts :
           ~(oo = o /\ kk = k) => gateway'[oo][kk] = gateway[oo][kk]
  BY <1>1, <1>2 DEF GatewayStates
<1>4. TypeOK' /\ PaymentsHaveOrders' /\ HistoryIsConnected'
  BY <1>1, <1>3 DEF ShopInv, TypeOK, PaymentsHaveOrders, HistoryIsConnected
<1>5. GatewayKnowsPayments' /\ PaidMeansCaptured'
  <2>1. \A oo \in Orders, kk \in Attempts :
          gateway[oo][kk] = "settled" => gateway'[oo][kk] = "settled"
    BY <1>1, <1>3
  <2> QED
    BY <1>1, <1>3, <2>1 DEF ShopInv, GatewayKnowsPayments, PaidMeansCaptured
<1>6. LocksExclusive' /\ ClaimsExclusive'
  BY <1>1 DEF ShopInv, SessionsIsolated, LocksExclusive, ClaimsExclusive
<1>7. ASSUME NEW v \in Workers
      PROVE  /\ RowsCurrent(sess[v])' /\ LoopCoversOrder(sess[v])'
             /\ KnowsOrder(sess[v])' /\ HoldsClaim(sess[v])'
  <2>1. RowsCurrent(sess[v]) /\ LoopCoversOrder(sess[v]) /\ KnowsOrder(sess[v])
        /\ HoldsClaim(sess[v])
    BY DEF ShopInv, SessionsIsolated, SessionsSound
  <2>2. RowsCurrent(sess[v])' /\ LoopCoversOrder(sess[v])' /\ KnowsOrder(sess[v])'
    BY <1>1, <2>1 DEF RowsCurrent, Changed, LoopCoversOrder, InCart, KnowsOrder, Logged
  <2>3. sess[v].pc = "paid" =>
          /\ sess[v].order \in Orders
          /\ sess[v].attempt \in Attempts
          /\ ~(sess[v].order = o /\ sess[v].attempt = k)
    BY <1>1, <2>1 DEF KnowsOrder, OnOrder, HoldsClaim, Claiming
  <2>4. HoldsClaim(sess[v])'
    BY <1>1, <1>3, <2>1, <2>3 DEF HoldsClaim
  <2> QED
    BY <2>2, <2>4
<1> QED
  BY <1>4, <1>5, <1>6, <1>7 DEF ShopInv, SessionsIsolated, SessionsSound

\* A correction waits for the row's lock, so it changes no row a session
\* has read under its lock.
LEMMA StockCorrectionKeepsInv ==
  ASSUME ShopInv, StockCorrection
  PROVE  ShopInv'
<1>1. PICK p \in Products, delta \in StockDeltas : Restock(p, delta) \/ Adjust(p, delta)
  BY DEF StockCorrection
<1> DEFINE total == product_inventory[p].total + delta
<1>2. /\ \A w \in Workers : p \notin sess[w].locked
      /\ product_inventory' = [product_inventory EXCEPT ![p].total = total]
      /\ UNCHANGED <<carts, orders, order_status_history, purchases, payments, gateway,
                     refunds, overridden, sess, faults>>
  BY <1>1 DEF Restock, Adjust
<1>3. product_inventory \in [Products -> Rows] /\ delta \in Int
  BY StockAssumption DEF ShopInv, TypeOK
<1>4. total \in Nat /\ product_inventory[p].reserved <= total
  BY <1>1, <1>3 DEF Restock, Adjust, Rows
<1> HIDE DEF total
<1>5. /\ product_inventory' \in [Products -> Rows]
      /\ \A q \in Products \ {p} : product_inventory'[q] = product_inventory[q]
  BY <1>2, <1>3, <1>4 DEF Rows
<1>6. TypeOK' /\ PaymentsHaveOrders' /\ GatewayKnowsPayments' /\ PaidMeansCaptured' /\ HistoryIsConnected'
  BY <1>2, <1>5 DEF ShopInv, TypeOK, PaymentsHaveOrders, GatewayKnowsPayments, PaidMeansCaptured,
                    HistoryIsConnected
<1>7. LocksExclusive' /\ ClaimsExclusive'
  BY <1>2 DEF ShopInv, SessionsIsolated, LocksExclusive, ClaimsExclusive
<1>8. ASSUME NEW v \in Workers
      PROVE  /\ RowsCurrent(sess[v])' /\ LoopCoversOrder(sess[v])'
             /\ KnowsOrder(sess[v])' /\ HoldsClaim(sess[v])'
  <2>1. RowsCurrent(sess[v]) /\ LoopCoversOrder(sess[v]) /\ KnowsOrder(sess[v])
        /\ HoldsClaim(sess[v]) /\ sess[v] \in Sessions
    BY DEF ShopInv, TypeOK, SessionsIsolated, SessionsSound
  <2>2. \A q \in sess[v].locked : product_inventory'[q] = product_inventory[q]
    BY <1>2, <1>5, <2>1 DEF Sessions
  <2>3. RowsCurrent(sess[v])'
    BY <1>2, <2>1, <2>2 DEF RowsCurrent, Changed
  <2> QED
    BY <1>2, <2>1, <2>3 DEF LoopCoversOrder, InCart, KnowsOrder, Logged, HoldsClaim
<1> QED
  BY <1>6, <1>7, <1>8 DEF ShopInv, SessionsIsolated, SessionsSound

-----------------------------------------------------------------------------
(* The invariant.                                                          *)

LEMMA InitEstablishesInv == Init => ShopInv
<1> SUFFICES ASSUME Init PROVE ShopInv
  OBVIOUS
<1>1. TypeOK
  <2>1. sess \in [Workers -> Sessions]
    BY IdleIsSession DEF Init
  <2>2. product_inventory \in [Products -> Rows] /\ carts \in [Customers -> Quantities]
    BY StockAssumption DEF Init, Rows, Quantities
  <2>3. orders \in [Orders -> [status : OrderStatuses \cup {"none"}, items : Quantities]]
    BY DEF Init, NoItems, Quantities
  <2> QED
    BY <2>1, <2>2, <2>3, StockAssumption DEF Init, TypeOK, PaymentStatuses, GatewayStates
<1>2. SessionsIsolated
  <2>1. \A w \in Workers : sess[w] = Idle
    BY DEF Init
  <2>2. LocksExclusive /\ ClaimsExclusive
    BY <2>1 DEF LocksExclusive, ClaimsExclusive, Idle, Claiming
  <2>3. SessionsSound
    BY <2>1 DEF SessionsSound, RowsCurrent, LoopCoversOrder, KnowsOrder, HoldsClaim, Idle,
                Claiming, OnOrder, ChangesStock, NoLoop
  <2> QED
    BY <2>2, <2>3 DEF SessionsIsolated
<1>3. PaymentsHaveOrders /\ GatewayKnowsPayments /\ PaidMeansCaptured /\ HistoryIsConnected
  BY DEF Init, PaymentsHaveOrders, GatewayKnowsPayments, PaidMeansCaptured, HistoryIsConnected
<1> QED
  BY <1>1, <1>2, <1>3 DEF ShopInv

LEMMA StutterKeepsInv ==
  ASSUME ShopInv, UNCHANGED vars
  PROVE  ShopInv'
<1>1. TypeOK' /\ PaymentsHaveOrders' /\ GatewayKnowsPayments' /\ PaidMeansCaptured' /\ HistoryIsConnected'
  BY DEF vars, ShopInv, TypeOK, PaymentsHaveOrders, GatewayKnowsPayments, PaidMeansCaptured,
         HistoryIsConnected
<1>2. LocksExclusive' /\ ClaimsExclusive'
  BY DEF vars, ShopInv, SessionsIsolated, LocksExclusive, ClaimsExclusive
<1>3. SessionsSound'
  BY DEF vars, ShopInv, SessionsIsolated, SessionsSound, RowsCurrent, Changed,
         LoopCoversOrder, InCart, KnowsOrder, Logged, HoldsClaim
<1> QED
  BY <1>1, <1>2, <1>3 DEF ShopInv, SessionsIsolated

LEMMA NextKeepsInv ==
  ASSUME ShopInv, [Next]_vars
  PROVE  ShopInv'
<1>1. ASSUME NEW w \in Workers, Step(w)
      PROVE  ShopInv'
  <2>1. ASSUME VerifySucceeds(w) \/ VerifyFails(w)
        PROVE  ShopInv'
    BY <2>1, DecidingKeepsInv DEF VerifySucceeds, VerifyFails
  <2> QED
    BY <1>1, <2>1, NextItemKeepsInv, LockForUpdateKeepsInv, CommitCheckoutKeepsInv,
       CommitPaymentKeepsInv, CommitPaidKeepsInv, CommitPaymentFailedKeepsInv,
       CommitCancelKeepsInv, CommitAdminUpdateKeepsInv, RollbackKeepsInv DEF Step
<1>2. ASSUME NEW w \in Workers, Request(w)
      PROVE  ShopInv'
  BY <1>2, CheckoutKeepsInv, InitPaymentKeepsInv, CallbackKeepsInv, CancelKeepsInv,
     AdminUpdateStatusKeepsInv, GoalsAssumption DEF Request
<1> QED
  BY <1>1, <1>2, RollbackKeepsInv, AtGatewayKeepsInv, StockCorrectionKeepsInv,
     StutterKeepsInv DEF Next

\* However many workers serve however many requests at the same time, the
\* rows keep their CHECKs, locks and claims are exclusive, and what a running
\* transaction relies on about rows others commit to stays true.
THEOREM InvariantHolds == Spec => []ShopInv
<1>1. Init => ShopInv
  BY InitEstablishesInv
<1>2. ShopInv /\ [Next]_vars => ShopInv'
  BY NextKeepsInv
<1> QED
  BY <1>1, <1>2, PTL DEF Spec

\* Every variable keeps its type; in particular no commit of release or
\* commit_purchase ever violates a CHECK of product_inventory.
THEOREM TypesHold == Spec => []TypeOK
<1>1. ShopInv => TypeOK
  BY DEF ShopInv
<1> QED
  BY <1>1, InvariantHolds, PTL

\* Row locks and payment claims isolate concurrent callbacks, cancellations
\* and corrections from each other.
THEOREM IsolationHolds == Spec => []SessionsIsolated
<1>1. ShopInv => SessionsIsolated
  BY DEF ShopInv
<1> QED
  BY <1>1, InvariantHolds, PTL

\* Whatever Status callbacks arrive with, and whatever crashes, no payment is
\* verified and no order becomes paid without captured money or an admin.
THEOREM PaidMeansCapturedHolds == Spec => []PaidMeansCaptured
<1>1. ShopInv => PaidMeansCaptured
  BY DEF ShopInv
<1> QED
  BY <1>1, InvariantHolds, PTL

\* The audit log stays connected although _transition works on a status read
\* earlier.
THEOREM HistoryConnectionHolds == Spec => []HistoryIsConnected
<1>1. ShopInv => HistoryIsConnected
  BY DEF ShopInv
<1> QED
  BY <1>1, InvariantHolds, PTL
=============================================================================
