-------------------------------- MODULE Cart --------------------------------
(***************************************************************************)
(* One user's cart (cart/), as several workers serve his tabs with         *)
(* Postgres at READ COMMITTED, and the checkout (orders/) that empties it. *)
(* A request loads the cart with its rows, without a lock, and commits     *)
(* later.  What is left to the database is one cart per user and one row   *)
(* per product of a cart.  SQLAlchemy writes a row by its id: an UPDATE    *)
(* that finds no such row fails, a DELETE that finds none does not, and a  *)
(* quantity that is as loaded is not written.                              *)
(*                                                                         *)
(* A request that is refused (an inactive product, a product that is not   *)
(* in the cart, too little stock) is one that is not made.  The stock of a *)
(* product moves as the rest of the shop pleases.  A checkout loads a      *)
(* product with its stock, and then locks the stock's row but does not     *)
(* load it again; the lock is held to the commit (Shop has it), and what   *)
(* others commit between the load and the lock is here what they commit    *)
(* between the load and the commit.  peak and the field touched are        *)
(* history: no handler reads them.                                         *)
(*                                                                         *)
(* Definitions marked FAULT are not part of the model: each is a plausible *)
(* mistake in the definition after it, used to see the properties fail.    *)
(***************************************************************************)
EXTENDS InventoryRow

CONSTANTS
  Workers,      \* requests served at the same time
  Products,
  Quantities,   \* what the body of a request may ask for
  StockRows,    \* the stock that the rest of the shop may leave of a product
  MaxRequests   \* requests in one behaviour (a bound)

ASSUME QuantitiesAssumption == Quantities \subseteq Nat \ {0}
ASSUME StockAssumption == StockRows \subseteq Rows
ASSUME CartBounds == MaxRequests \in Nat

VARIABLES
  cart,         \* the user has a row in carts
  items,        \* cart_items: the id and the quantity of each product's row
  ids,          \* ids given to rows so far
  ordered,      \* units in the user's orders
  product_inventory,  \* the row of each product's stock
  peak,         \* the highest available stock so far
  sess,         \* what the workers' sessions have loaded and will write
  requests      \* requests begun

vars == <<cart, items, ids, ordered, product_inventory, peak, sess, requests>>

-----------------------------------------------------------------------------
(* Types.                                                                  *)

ItemRows == [id : Nat, quantity : Nat]
NoRow == [id |-> 0, quantity |-> 0]
Empty == [p \in Products |-> NoRow]

Ops == {"add_item", "update_item", "remove_item", "clear", "checkout"}

NoStock == [total |-> 0, reserved |-> 0]

\* scope: the products the request is about; quantity: what it asks for;
\* creates: it makes the cart; seen: the rows it has loaded; touched: rows
\* that others have changed since; loaded: the products a checkout has loaded,
\* with the stock they had.
Sessions ==
  [op : Ops \cup {"idle"}, scope : SUBSET Products, quantity : Nat, creates : BOOLEAN,
   seen : [Products -> ItemRows], touched : SUBSET Products, loaded : SUBSET Products,
   stock : [Products -> Rows]]

Idle ==
  [op |-> "idle", scope |-> {}, quantity |-> 0, creates |-> FALSE, seen |-> Empty,
   touched |-> {}, loaded |-> {}, stock |-> [p \in Products |-> NoStock]]

\* One type invariant: also, the rows are rows of a cart, and no two have the
\* same id.
CartTypeOK ==
  /\ cart \in BOOLEAN
  /\ items \in [Products -> ItemRows]
  /\ ids \in Nat
  /\ ordered \in [Products -> Nat]
  /\ product_inventory \in [Products -> Rows] /\ peak \in [Products -> Nat]
  /\ sess \in [Workers -> Sessions]
  /\ requests \in Nat
  /\ \A p \in Products : items[p].id = 0 <=> items[p] = NoRow
  /\ \A p \in Products : items[p].id # 0 => cart /\ items[p].id <= ids
  /\ \A p, q \in Products : p # q /\ items[p].id = items[q].id => items[p].id = 0

Init ==
  /\ cart = FALSE
  /\ items = Empty
  /\ ids = 0
  /\ ordered = [p \in Products |-> 0]
  /\ product_inventory \in [Products -> {row \in StockRows : row.reserved = 0}]
  /\ peak = [p \in Products |-> Available(product_inventory[p])]
  /\ sess = [w \in Workers |-> Idle]
  /\ requests = 0

-----------------------------------------------------------------------------
(* Requests.                                                               *)

\* get_or_create: the cart and its rows; the cart is inserted if there is
\* none.
Load(w, op, scope, quantity) ==
  /\ sess[w].op = "idle"
  /\ requests < MaxRequests
  /\ requests' = requests + 1
  /\ sess' = [sess EXCEPT ![w] =
       [Idle EXCEPT !.op = op, !.scope = scope, !.quantity = quantity, !.creates = ~cart,
                    !.seen = items]]
  /\ UNCHANGED <<cart, items, ids, ordered, product_inventory, peak>>

\* FAULT: what is in the cart already is not counted.
FitsAlone(p, quantity) == quantity <= Available(product_inventory[p])

\* new_quantity is in stock.
Fits(p, quantity) == items[p].quantity + quantity <= Available(product_inventory[p])

add_item(w, p, quantity) ==
  /\ Fits(p, quantity)
  /\ Load(w, "add_item", {p}, quantity)

update_item(w, p, quantity) ==
  /\ quantity <= Available(product_inventory[p])
  /\ items[p] # NoRow
  /\ Load(w, "update_item", {p}, quantity)

remove_item(w, p) == Load(w, "remove_item", {p}, 0)

clear(w) == Load(w, "clear", Products, 0)

\* checkout of OrderService: an empty cart is refused.
checkout(w) ==
  /\ items # Empty
  /\ Load(w, "checkout", Products, 0)

InCart(w) == {p \in Products : sess[w].seen[p] # NoRow}

\* get_by_id, for each item of the cart as loaded: the product with its stock.
LoadProduct(w, p) ==
  /\ sess[w].op = "checkout"
  /\ p \in InCart(w) \ sess[w].loaded
  /\ sess' = [sess EXCEPT ![w] =
       [sess[w] EXCEPT !.loaded = @ \cup {p},
                       !.stock = [@ EXCEPT ![p] = product_inventory[p]]]]
  /\ UNCHANGED <<cart, items, ids, ordered, product_inventory, peak, requests>>

-----------------------------------------------------------------------------
(* Commits.                                                                *)

\* carts.user_id is unique.
CartKept(w) == sess[w].creates => ~cart

\* FAULT: a row is written whether it is there or not.
KeptAnyway(w, p) == TRUE

\* The row is the one that was loaded, or there is still none.
Kept(w, p) == items[p].id = sess[w].seen[p].id

\* The rows become new.
Commit(w, new) ==
  /\ cart' = TRUE
  /\ items' = new
  /\ sess' = [v \in Workers |->
       IF v = w THEN Idle
       ELSE [sess[v] EXCEPT !.touched =
               IF sess[v].op = "idle" THEN {}
               ELSE @ \cup {p \in Products : new[p] # items[p]}]]

\* FAULT: the quantity is replaced.
NewQuantityAlone(w, p) == sess[w].quantity

NewQuantity(w, p) == sess[w].seen[p].quantity + sess[w].quantity

CommitAdd(w, p) ==
  LET insert == sess[w].seen[p] = NoRow
  IN  /\ sess[w].op = "add_item" /\ p \in sess[w].scope
      /\ CartKept(w) /\ Kept(w, p)
      /\ Commit(w, [items EXCEPT ![p] =
           [id |-> IF insert THEN ids + 1 ELSE @.id, quantity |-> NewQuantity(w, p)]])
      /\ ids' = IF insert THEN ids + 1 ELSE ids
      /\ UNCHANGED <<ordered, product_inventory, peak, requests>>

CommitUpdate(w, p) ==
  LET unchanged == sess[w].seen[p].quantity = sess[w].quantity
  IN  /\ sess[w].op = "update_item" /\ p \in sess[w].scope
      /\ ~unchanged => Kept(w, p)
      /\ Commit(w, IF unchanged THEN items
                   ELSE [items EXCEPT ![p].quantity = sess[w].quantity])
      /\ UNCHANGED <<ids, ordered, product_inventory, peak, requests>>

\* The rows that were loaded, and are still there.
Doomed(w) == {p \in sess[w].scope : Kept(w, p)}

Without(P) == [p \in Products |-> IF p \in P THEN NoRow ELSE items[p]]

\* remove_item and clear.
CommitDelete(w) ==
  /\ sess[w].op \in {"remove_item", "clear"}
  /\ CartKept(w)
  /\ Commit(w, Without(Doomed(w)))
  /\ UNCHANGED <<ids, ordered, product_inventory, peak, requests>>

\* FAULT: the order has one of each product.
OneOfEach(w, p) == IF sess[w].seen[p] = NoRow THEN 0 ELSE 1

\* The order has the rows as they were loaded.
OrderItem(w, p) == sess[w].seen[p].quantity

\* The UPDATEs of the stock: reserved is computed from the row as loaded, and
\* is the only column that is written.
Reserved(w) ==
  [p \in Products |->
     IF p \in sess[w].loaded
     THEN [product_inventory[p] EXCEPT
             !.reserved = Reserve(sess[w].stock[p], OrderItem(w, p)).reserved]
     ELSE product_inventory[p]]

\* The stock, become new, may be higher than it ever was.
StockIs(new) ==
  /\ product_inventory' = new
  /\ peak' = [p \in Products |-> IF Available(new[p]) > peak[p] THEN Available(new[p])
                                 ELSE peak[p]]

\* The stock is reserved, and the rows the cart has by now are deleted.
CommitCheckout(w) ==
  /\ sess[w].op = "checkout"
  /\ sess[w].loaded = InCart(w)
  /\ \A p \in InCart(w) : OrderItem(w, p) <= Available(sess[w].stock[p])
  /\ Reserved(w) \in [Products -> Rows]
  /\ StockIs(Reserved(w))
  /\ ordered' = [p \in Products |-> ordered[p] + OrderItem(w, p)]
  /\ Commit(w, Without(Products))
  /\ UNCHANGED <<ids, requests>>

-----------------------------------------------------------------------------

\* The request ends without a commit: a row has gone (StaleDataError), a row
\* or cart is there already or a CHECK of the stock fails (IntegrityError), the
\* stock does not do any more, or the worker or its connection is lost.
Abort(w) ==
  /\ sess[w].op # "idle"
  /\ sess' = [sess EXCEPT ![w] = Idle]
  /\ UNCHANGED <<cart, items, ids, ordered, product_inventory, peak, requests>>

\* Other customers' orders, their cancellation, restocking.
StockMoves(p, row) ==
  /\ StockIs([product_inventory EXCEPT ![p] = row])
  /\ UNCHANGED <<cart, items, ids, ordered, sess, requests>>

Start(w) ==
  \/ \E p \in Products :
       \/ \E quantity \in Quantities : add_item(w, p, quantity) \/ update_item(w, p, quantity)
       \/ remove_item(w, p) \/ LoadProduct(w, p)
  \/ clear(w) \/ checkout(w)

Finish(w) ==
  \/ \E p \in Products : CommitAdd(w, p) \/ CommitUpdate(w, p)
  \/ CommitDelete(w) \/ CommitCheckout(w)

Next ==
  \/ \E w \in Workers : Start(w) \/ Finish(w) \/ Abort(w)
  \/ \E p \in Products, row \in StockRows : StockMoves(p, row)

Spec == Init /\ [][Next]_vars

-----------------------------------------------------------------------------
(* Properties.                                                             *)

\* No row asks for more than the stock has ever had, however many requests
\* add to it at the same time.
QuantityWithinStock == \A p \in Products : items[p].quantity <= peak[p]

\* w's request has written to the cart.
Writes(w) == sess[w].op # "idle" /\ sess'[w].op = "idle" /\ items' # items

\* A request does to the cart what it would do alone to every row that no
\* other request has changed since it was loaded: add_item adds, update_item
\* sets, the others empty it; and it changes no row but its own.
AsIfAlone ==
  [][\A w \in Workers, p \in Products : Writes(w) /\ p \notin sess[w].touched =>
       items'[p].quantity =
         IF p \notin sess[w].scope THEN items[p].quantity
         ELSE IF sess[w].op = "add_item" THEN items[p].quantity + sess[w].quantity
         ELSE IF sess[w].op = "update_item" THEN sess[w].quantity
         ELSE 0]_vars

\* The stock of p is as w's checkout has loaded it.
Current(w, p) == p \in sess[w].loaded => sess[w].stock[p] = product_inventory[p]

\* A checkout orders what it takes out of the cart: a row it deletes without
\* ordering it, or orders without its being there (a second checkout of the
\* same cart), was changed by another request since the cart was loaded.  The
\* stock falls by as much if it is as the checkout has loaded it; if not, the
\* checkout undoes what others have done to reserved in the meantime.
CheckoutTakesTheCart ==
  [][\A w \in Workers, p \in Products :
       /\ sess[w].op = "checkout" /\ Writes(w)
       /\ p \notin sess[w].touched
       => /\ ordered'[p] = ordered[p] + items[p].quantity
          /\ Current(w, p) =>
               Available(product_inventory'[p])
                 = Available(product_inventory[p]) - items[p].quantity]_vars
=============================================================================
