----------------------------- MODULE CartProofs -----------------------------
(***************************************************************************)
(* Proofs about Cart for any number of workers and products.               *)
(*                                                                         *)
(* What a request writes is computed from the rows it has loaded, so the   *)
(* properties rest on SeenUnlessTouched, a row that nobody has changed     *)
(* since is as it was loaded, and on AskedIsInStock, what a request will   *)
(* write was in stock when it was loaded.                                  *)
(***************************************************************************)
EXTENDS Cart, TLAPS

SeenUnlessTouched ==
  \A w \in Workers, p \in Products :
    sess[w].op # "idle" /\ p \notin sess[w].touched => sess[w].seen[p] = items[p]

AskedIsInStock ==
  \A w \in Workers : \A p \in sess[w].scope :
    /\ sess[w].op = "add_item" =>
         sess[w].quantity # 0 /\ sess[w].seen[p].quantity + sess[w].quantity <= peak[p]
    /\ sess[w].op = "update_item" =>
         /\ sess[w].quantity # 0 /\ sess[w].quantity <= peak[p]
         /\ sess[w].seen[p].id # 0

\* A row that was loaded has an id, unless there was none.
SeenRows ==
  \A w \in Workers, p \in Products : sess[w].seen[p].id = 0 <=> sess[w].seen[p] = NoRow

\* A request about one product has only that in its scope; the others have
\* them all.
ScopeIsOne ==
  \A w \in Workers :
    /\ sess[w].op \in {"add_item", "update_item", "remove_item"} =>
         \A p, q \in sess[w].scope : p = q
    /\ sess[w].op \in {"clear", "checkout"} => sess[w].scope = Products

PeakIsHighest == \A p \in Products : Available(product_inventory[p]) <= peak[p]

\* The inductive invariant.
CartInv ==
  /\ CartTypeOK
  /\ QuantityWithinStock
  /\ SeenUnlessTouched
  /\ AskedIsInStock
  /\ SeenRows
  /\ ScopeIsOne
  /\ PeakIsHighest

LEMMA AvailableIsNat == ASSUME NEW row \in Rows PROVE Available(row) \in Nat
BY DEF Rows, Available

LEMMA IdleSession == Idle \in Sessions /\ Empty \in [Products -> ItemRows]
<1>1. NoRow \in ItemRows /\ NoStock \in Rows
  BY DEF NoRow, NoStock, ItemRows, Rows
<1> QED BY <1>1 DEF Idle, Sessions, Empty

\* What happens to the stock.
StockGoesOn ==
  /\ product_inventory' \in [Products -> Rows] /\ peak' \in [Products -> Nat]
  /\ \A p \in Products : peak[p] <= peak'[p] /\ Available(product_inventory'[p]) <= peak'[p]

LEMMA StockStays ==
  ASSUME CartInv, UNCHANGED <<product_inventory, peak>> PROVE StockGoesOn
BY DEF CartInv, CartTypeOK, PeakIsHighest, StockGoesOn

LEMMA StockMoved ==
  ASSUME CartInv, NEW new \in [Products -> Rows], StockIs(new) PROVE StockGoesOn
<1>1. \A p \in Products : Available(new[p]) \in Nat /\ peak[p] \in Nat
  BY AvailableIsNat DEF CartInv, CartTypeOK
<1> HIDE DEF Available
<1> QED BY <1>1 DEF StockIs, StockGoesOn

LEMMA InitCart == Init => CartInv
<1> SUFFICES ASSUME Init PROVE CartInv
  OBVIOUS
<1>2. product_inventory \in [Products -> Rows]
  BY StockAssumption DEF Init
<1>3. /\ peak \in [Products -> Nat]
      /\ \A p \in Products : peak[p] = Available(product_inventory[p])
  BY <1>2, AvailableIsNat DEF Init
<1>4. CartTypeOK
  BY <1>2, <1>3, IdleSession DEF Init, CartTypeOK, Empty, NoRow
<1>5. QuantityWithinStock /\ PeakIsHighest
  BY <1>3 DEF Init, QuantityWithinStock, PeakIsHighest, Empty, NoRow
<1> QED BY <1>4, <1>5 DEF CartInv, Init, SeenUnlessTouched, AskedIsInStock, SeenRows, ScopeIsOne,
                         Idle, Empty, NoRow

\* A request that loads the cart, if what it asks for is in stock.
LEMMA LoadPreserves ==
  ASSUME CartInv, NEW w \in Workers, NEW op \in Ops, NEW scope \in SUBSET Products,
         NEW quantity \in Nat, Load(w, op, scope, quantity),
         op \in {"clear", "checkout"} => scope = Products,
         op \notin {"clear", "checkout"} => \A p, q \in scope : p = q,
         \A p \in scope :
           /\ op = "add_item" =>
                /\ quantity # 0
                /\ items[p].quantity + quantity <= Available(product_inventory[p])
           /\ op = "update_item" =>
                /\ quantity # 0 /\ quantity <= Available(product_inventory[p])
                /\ items[p] # NoRow
  PROVE  CartInv'
<1> DEFINE s == [Idle EXCEPT !.op = op, !.scope = scope, !.quantity = quantity,
                             !.creates = ~cart, !.seen = items]
<1>1. s \in Sessions /\ sess' = [sess EXCEPT ![w] = s]
  BY IdleSession DEF Load, Sessions, CartInv, CartTypeOK
<1>8. /\ s.op = op /\ s.scope = scope /\ s.quantity = quantity /\ s.seen = items
      /\ s.touched = {}
  BY DEF Idle
<1> HIDE DEF s
<1>2. UNCHANGED <<cart, items, ids, ordered, product_inventory, peak>>
  BY DEF Load
<1>3. CartTypeOK'
  <2>1. requests' \in Nat /\ sess' \in [Workers -> Sessions]
    BY <1>1 DEF Load, CartInv, CartTypeOK
  <2> QED BY <1>2, <2>1 DEF CartInv, CartTypeOK
<1>4. QuantityWithinStock' /\ PeakIsHighest'
  BY <1>2 DEF CartInv, QuantityWithinStock, PeakIsHighest
<1>5. SeenUnlessTouched'
  BY <1>8, <1>1, <1>2 DEF CartInv, CartTypeOK, SeenUnlessTouched
<1>6. AskedIsInStock'
  <2> SUFFICES ASSUME NEW v \in Workers, NEW p \in sess'[v].scope
               PROVE  /\ sess'[v].op = "add_item" =>
                           /\ sess'[v].quantity # 0
                           /\ sess'[v].seen[p].quantity + sess'[v].quantity <= peak'[p]
                      /\ sess'[v].op = "update_item" =>
                           /\ sess'[v].quantity # 0 /\ sess'[v].quantity <= peak'[p]
                           /\ sess'[v].seen[p].id # 0
    BY DEF AskedIsInStock
  <2>1. CASE v = w
    <3>1. sess'[v] = s /\ p \in scope /\ p \in Products
      BY <1>8, <1>1, <2>1 DEF CartInv, CartTypeOK
    <3>2. /\ items[p] \in ItemRows /\ Available(product_inventory[p]) \in Nat
          /\ peak[p] \in Nat /\ Available(product_inventory[p]) <= peak[p]
          /\ items[p].id = 0 <=> items[p] = NoRow
      BY <3>1, AvailableIsNat DEF CartInv, CartTypeOK, PeakIsHighest
    <3> QED BY <1>8, <1>2, <3>1, <3>2 DEF ItemRows
  <2>2. CASE v # w
    BY <1>1, <1>2, <2>2 DEF CartInv, CartTypeOK, AskedIsInStock
  <2> QED BY <2>1, <2>2
<1>7. SeenRows' /\ ScopeIsOne'
  BY <1>8, <1>1 DEF CartInv, CartTypeOK, SeenRows, ScopeIsOne
<1> QED BY <1>3, <1>4, <1>5, <1>6, <1>7 DEF CartInv

\* A checkout loads a product.
LEMMA LoadProductPreserves ==
  ASSUME CartInv, NEW w \in Workers, NEW p \in Products, LoadProduct(w, p) PROVE CartInv'
<1> DEFINE s == [sess[w] EXCEPT !.loaded = sess[w].loaded \cup {p},
                                !.stock = [sess[w].stock EXCEPT ![p] = product_inventory[p]]]
<1>1. sess[w] \in Sessions /\ product_inventory[p] \in Rows
  BY DEF CartInv, CartTypeOK
<1>2. /\ s \in Sessions /\ s.op = sess[w].op /\ s.scope = sess[w].scope
      /\ s.quantity = sess[w].quantity /\ s.seen = sess[w].seen /\ s.touched = sess[w].touched
  BY <1>1 DEF Sessions
<1>3. sess' = [sess EXCEPT ![w] = s]
      /\ UNCHANGED <<cart, items, ids, ordered, product_inventory, peak, requests>>
  BY DEF LoadProduct
<1> HIDE DEF s
<1>4. CartTypeOK'
  BY <1>2, <1>3 DEF CartInv, CartTypeOK
<1>5. QuantityWithinStock' /\ PeakIsHighest'
  BY <1>3 DEF CartInv, QuantityWithinStock, PeakIsHighest
<1>6. \A v \in Workers :
        /\ sess'[v].op = sess[v].op /\ sess'[v].scope = sess[v].scope
        /\ sess'[v].quantity = sess[v].quantity /\ sess'[v].seen = sess[v].seen
        /\ sess'[v].touched = sess[v].touched
  BY <1>2, <1>3 DEF CartInv, CartTypeOK
<1>7. SeenUnlessTouched' /\ AskedIsInStock' /\ SeenRows' /\ ScopeIsOne'
  BY <1>3, <1>6 DEF CartInv, SeenUnlessTouched, AskedIsInStock, SeenRows, ScopeIsOne
<1> QED BY <1>4, <1>5, <1>7 DEF CartInv

\* A commit of rows that are in stock and have the ids they had, or a new one.
LEMMA CommitPreserves ==
  ASSUME CartInv, NEW w \in Workers, NEW new \in [Products -> ItemRows], Commit(w, new),
         ids' \in Nat, ids <= ids',
         ordered' \in [Products -> Nat], StockGoesOn, UNCHANGED requests,
         \A p \in Products : new[p].id = 0 <=> new[p] = NoRow,
         \A p \in Products : new[p].quantity <= peak[p],
         \A p \in Products : new[p].id \in {0, items[p].id} \/ (ids < new[p].id /\ new[p].id <= ids'),
         \A p, q \in Products : ids < new[p].id /\ ids < new[q].id => p = q
  PROVE  CartInv'
<1>1. items' = new /\ cart' = TRUE
  BY DEF Commit
<1>2. /\ sess' \in [Workers -> Sessions]
      /\ \A v \in Workers :
           \/ sess'[v] = Idle
           \/ /\ sess'[v].op = sess[v].op /\ sess'[v].scope = sess[v].scope
              /\ sess'[v].quantity = sess[v].quantity /\ sess'[v].seen = sess[v].seen
              /\ sess[v].op # "idle" =>
                   sess'[v].touched = sess[v].touched \cup {p \in Products : new[p] # items[p]}
  <2>1. Idle \in Sessions
    BY IdleSession
  <2> DEFINE t(v) == IF sess[v].op = "idle" THEN {}
                     ELSE sess[v].touched \cup {p \in Products : new[p] # items[p]}
  <2>2. \A v \in Workers : sess[v] \in Sessions /\ t(v) \in SUBSET Products
    BY DEF CartInv, CartTypeOK, Sessions
  <2>3. sess' = [v \in Workers |-> IF v = w THEN Idle ELSE [sess[v] EXCEPT !.touched = t(v)]]
    BY DEF Commit
  <2> HIDE DEF t
  <2>4. ASSUME NEW v \in Workers PROVE sess'[v] \in Sessions
    <3>1. CASE v = w
      BY <2>1, <2>3, <3>1
    <3>2. CASE v # w
      <4>1. sess'[v] = [sess[v] EXCEPT !.touched = t(v)]
        BY <2>3, <3>2
      <4> QED BY <2>2, <4>1 DEF Sessions
    <3> QED BY <3>1, <3>2
  <2>5. \A v \in Workers : v # w =>
          /\ sess'[v].op = sess[v].op /\ sess'[v].scope = sess[v].scope
          /\ sess'[v].quantity = sess[v].quantity /\ sess'[v].seen = sess[v].seen
          /\ sess'[v].touched = t(v)
    BY <2>2, <2>3 DEF Sessions
  <2>6. sess' \in [Workers -> Sessions] /\ sess'[w] = Idle
    BY <2>3, <2>4
  <2> QED BY <2>5, <2>6 DEF t
<1>3. CartTypeOK'
  <2>1. \A p \in Products : items[p] \in ItemRows /\ new[p] \in ItemRows
    BY DEF CartInv, CartTypeOK
  <2>2. \A p \in Products : new[p].id # 0 => new[p].id <= ids'
    BY <2>1 DEF CartInv, CartTypeOK, ItemRows
  <2>3. \A p, q \in Products : p # q /\ new[p].id = new[q].id => new[p].id = 0
    BY <2>1 DEF CartInv, CartTypeOK, ItemRows
  <2> QED BY <1>1, <1>2, <2>2, <2>3 DEF CartInv, CartTypeOK, StockGoesOn
<1>4. QuantityWithinStock' /\ PeakIsHighest'
  BY <1>1 DEF CartInv, CartTypeOK, QuantityWithinStock, PeakIsHighest, StockGoesOn, ItemRows
<1>6. SeenUnlessTouched'
  BY <1>1, <1>2 DEF CartInv, SeenUnlessTouched, Idle
<1>7. AskedIsInStock'
  <2>1. \A v \in Workers : sess[v].quantity \in Nat /\ \A p \in sess[v].scope :
          p \in Products /\ sess[v].seen[p].quantity \in Nat
    BY DEF CartInv, CartTypeOK, Sessions, ItemRows
  <2> QED BY <1>2, <2>1 DEF CartInv, CartTypeOK, AskedIsInStock, StockGoesOn, Idle
<1>8. SeenRows' /\ ScopeIsOne'
  BY <1>2 DEF CartInv, SeenRows, ScopeIsOne, Idle, Empty, NoRow
<1> QED BY <1>3, <1>4, <1>6, <1>7, <1>8 DEF CartInv

LEMMA CommitAddPreserves ==
  ASSUME CartInv, NEW w \in Workers, NEW p \in Products, CommitAdd(w, p)
  PROVE  CartInv'
<1> DEFINE insert == sess[w].seen[p] = NoRow
           row == [id |-> IF insert THEN ids + 1 ELSE items[p].id, quantity |-> NewQuantity(w, p)]
           new == [items EXCEPT ![p] = row]
<1>1. /\ sess[w].op = "add_item" /\ p \in sess[w].scope /\ Kept(w, p)
      /\ ids' = IF insert THEN ids + 1 ELSE ids
      /\ UNCHANGED <<ordered, product_inventory, peak, requests>>
  BY DEF CommitAdd
<1>2. Commit(w, new)
  BY DEF CommitAdd, CartInv, CartTypeOK
<1>3. /\ sess[w] \in Sessions /\ sess[w].seen[p] \in ItemRows /\ items \in [Products -> ItemRows]
      /\ ids \in Nat /\ peak \in [Products -> Nat] /\ ordered \in [Products -> Nat]
  BY DEF CartInv, CartTypeOK, Sessions
<1>4. NewQuantity(w, p) \in Nat /\ NewQuantity(w, p) # 0 /\ NewQuantity(w, p) <= peak[p]
  BY <1>1, <1>3 DEF NewQuantity, CartInv, AskedIsInStock, Sessions, ItemRows
<1>5. items[p].id # 0 \/ insert
  BY <1>1, <1>3 DEF Kept, CartInv, SeenRows
<1>6. row \in ItemRows /\ new \in [Products -> ItemRows] /\ row.id # 0 /\ row # NoRow
  BY <1>3, <1>4, <1>5 DEF ItemRows, NoRow
<1>7. \A q \in Products : new[q].id = 0 <=> new[q] = NoRow
  BY <1>3, <1>6 DEF CartInv, CartTypeOK, NoRow
<1>8. \A q \in Products : new[q].quantity <= peak[q]
  BY <1>3, <1>4 DEF CartInv, QuantityWithinStock
<1>9. \A q \in Products :
        new[q].id \in {0, items[q].id} \/ (ids < new[q].id /\ new[q].id <= ids')
  BY <1>1, <1>3
<1>10. \A q, r \in Products : ids < new[q].id /\ ids < new[r].id => q = r
  BY <1>3 DEF CartInv, CartTypeOK, ItemRows
<1>11. ids' \in Nat /\ ids <= ids'
  BY <1>1, <1>3
<1>12. ordered' \in [Products -> Nat] /\ StockGoesOn /\ UNCHANGED requests
  BY <1>1, <1>3, StockStays
<1> HIDE DEF new, row, insert
<1> QED BY <1>1, <1>2, <1>6, <1>7, <1>8, <1>9, <1>10, <1>11, <1>12, CommitPreserves

LEMMA CommitUpdatePreserves ==
  ASSUME CartInv, NEW w \in Workers, NEW p \in Products, CommitUpdate(w, p)
  PROVE  CartInv'
<1> DEFINE unchanged == sess[w].seen[p].quantity = sess[w].quantity
           new == IF unchanged THEN items ELSE [items EXCEPT ![p].quantity = sess[w].quantity]
<1>1. /\ sess[w].op = "update_item" /\ p \in sess[w].scope /\ (~unchanged => Kept(w, p))
      /\ UNCHANGED <<ids, ordered, product_inventory, peak, requests>> /\ Commit(w, new)
  BY DEF CommitUpdate
<1>2. /\ sess[w] \in Sessions /\ sess[w].seen[p] \in ItemRows /\ items \in [Products -> ItemRows]
      /\ ids \in Nat /\ peak \in [Products -> Nat] /\ ordered \in [Products -> Nat]
  BY DEF CartInv, CartTypeOK, Sessions
<1>3. /\ sess[w].quantity \in Nat /\ sess[w].quantity # 0 /\ sess[w].quantity <= peak[p]
      /\ sess[w].seen[p].id # 0
  BY <1>1, <1>2 DEF CartInv, AskedIsInStock, Sessions
<1>4. new \in [Products -> ItemRows] /\ \A q \in Products : new[q].id = items[q].id
  BY <1>2, <1>3 DEF ItemRows
<1>5. \A q \in Products : new[q].id = 0 <=> new[q] = NoRow
  BY <1>1, <1>2, <1>3, <1>4 DEF CartInv, CartTypeOK, NoRow, Kept, ItemRows
<1>6. \A q \in Products : new[q].quantity <= peak[q]
  BY <1>2, <1>3 DEF CartInv, QuantityWithinStock, ItemRows
<1>7. \A q \in Products : ~(ids < new[q].id)
  BY <1>2, <1>4 DEF CartInv, CartTypeOK, ItemRows
<1>8. ordered' \in [Products -> Nat] /\ StockGoesOn /\ UNCHANGED requests
  BY <1>1, <1>2, StockStays
<1>9. ids' \in Nat /\ ids <= ids'
  BY <1>1, <1>2
<1> HIDE DEF new, unchanged
<1> QED BY <1>1, <1>2, <1>4, <1>5, <1>6, <1>7, <1>8, <1>9, CommitPreserves

\* A commit that deletes rows.
LEMMA DeletePreserves ==
  ASSUME CartInv, NEW w \in Workers, NEW P \in SUBSET Products, Commit(w, Without(P)),
         ordered' \in [Products -> Nat], StockGoesOn, UNCHANGED <<ids, requests>>
  PROVE  CartInv'
<1>1. /\ items \in [Products -> ItemRows] /\ ids \in Nat /\ peak \in [Products -> Nat]
      /\ ids' \in Nat /\ ids <= ids'
  BY DEF CartInv, CartTypeOK
<1>2. /\ Without(P) \in [Products -> ItemRows]
      /\ \A p \in Products : Without(P)[p] = NoRow \/ Without(P)[p] = items[p]
  BY <1>1 DEF Without, NoRow, ItemRows
<1>3. NoRow.id = 0 /\ NoRow.quantity = 0
  BY DEF NoRow
<1>4. \A p \in Products : Without(P)[p].id = 0 <=> Without(P)[p] = NoRow
  BY <1>2, <1>3 DEF CartInv, CartTypeOK
<1>5. \A p \in Products : Without(P)[p].quantity <= peak[p]
  BY <1>1, <1>2, <1>3 DEF CartInv, QuantityWithinStock
<1>6. \A p \in Products : Without(P)[p].id \in {0, items[p].id}
  BY <1>2, <1>3
<1>7. \A p \in Products : ~(ids < Without(P)[p].id)
  BY <1>1, <1>2, <1>3 DEF CartInv, CartTypeOK, ItemRows
<1> QED BY <1>1, <1>2, <1>4, <1>5, <1>6, <1>7, CommitPreserves

LEMMA CheckoutPreserves ==
  ASSUME CartInv, NEW w \in Workers, CommitCheckout(w)
  PROVE  CartInv'
<1>1. /\ ordered \in [Products -> Nat]
      /\ \A p \in Products : OrderItem(w, p) \in Nat
  BY DEF CartInv, CartTypeOK, OrderItem, Sessions, ItemRows
<1>2. ordered' \in [Products -> Nat] /\ StockGoesOn
  BY <1>1, StockMoved DEF CommitCheckout
<1>3. Commit(w, Without(Products)) /\ UNCHANGED <<ids, requests>>
  BY DEF CommitCheckout
<1> QED BY <1>2, <1>3, DeletePreserves

LEMMA CartStep == CartInv /\ [Next]_vars => CartInv'
<1> SUFFICES ASSUME CartInv, [Next]_vars PROVE CartInv'
  OBVIOUS
<1>1. ASSUME NEW w \in Workers, Start(w) PROVE CartInv'
  <2>1. ASSUME NEW p \in Products, NEW quantity \in Quantities, add_item(w, p, quantity)
        PROVE  CartInv'
    BY <2>1, QuantitiesAssumption, LoadPreserves DEF add_item, Fits, Ops
  <2>2. ASSUME NEW p \in Products, NEW quantity \in Quantities, update_item(w, p, quantity)
        PROVE  CartInv'
    BY <2>2, QuantitiesAssumption, LoadPreserves DEF update_item, Ops
  <2>3. ASSUME NEW p \in Products, remove_item(w, p) PROVE CartInv'
    BY <2>3, LoadPreserves DEF remove_item, Ops
  <2>4. CASE clear(w)
    BY <2>4, LoadPreserves DEF clear, Ops
  <2>5. CASE checkout(w)
    BY <2>5, LoadPreserves DEF checkout, Ops
  <2> QED BY <1>1, <2>1, <2>2, <2>3, <2>4, <2>5, LoadProductPreserves DEF Start
<1>2. ASSUME NEW w \in Workers, Finish(w) PROVE CartInv'
  <2>1. CASE CommitDelete(w)
    <3>1. /\ Commit(w, Without(Doomed(w))) /\ UNCHANGED <<ids, ordered, product_inventory, peak, requests>>
      BY <2>1 DEF CommitDelete
    <3>2. /\ Doomed(w) \in SUBSET Products /\ ordered' \in [Products -> Nat] /\ StockGoesOn
      BY <3>1, StockStays DEF Doomed, CartInv, CartTypeOK, Sessions
    <3> QED BY <3>1, <3>2, DeletePreserves
  <2> QED BY <1>2, <2>1, CommitAddPreserves, CommitUpdatePreserves, CheckoutPreserves DEF Finish
<1>3. ASSUME NEW w \in Workers, Abort(w) PROVE CartInv'
  <2>1. Idle \in Sessions
    BY IdleSession
  <2>2. UNCHANGED <<cart, items, ids, ordered, product_inventory, peak, requests>>
        /\ sess' = [sess EXCEPT ![w] = Idle]
    BY <1>3 DEF Abort
  <2>3. CartTypeOK'
    BY <2>1, <2>2 DEF CartInv, CartTypeOK
  <2>4. QuantityWithinStock' /\ PeakIsHighest'
    BY <2>2 DEF CartInv, QuantityWithinStock, PeakIsHighest
  <2>5. SeenUnlessTouched' /\ AskedIsInStock' /\ SeenRows' /\ ScopeIsOne'
    BY <2>2 DEF CartInv, CartTypeOK, SeenUnlessTouched, AskedIsInStock, SeenRows, ScopeIsOne,
                Idle, Empty, NoRow
  <2> QED BY <2>3, <2>4, <2>5 DEF CartInv
<1>4. ASSUME NEW p \in Products, NEW row \in StockRows, StockMoves(p, row) PROVE CartInv'
  <2>1. [product_inventory EXCEPT ![p] = row] \in [Products -> Rows] /\ peak \in [Products -> Nat]
    BY StockAssumption DEF CartInv, CartTypeOK
  <2>2. StockGoesOn
    BY <1>4, <2>1, StockMoved DEF StockMoves
  <2>3. UNCHANGED <<cart, items, ids, ordered, sess, requests>>
    BY <1>4 DEF StockMoves
  <2>4. CartTypeOK'
    BY <2>2, <2>3 DEF CartInv, CartTypeOK, StockGoesOn
  <2>5. QuantityWithinStock'
    BY <2>1, <2>2, <2>3 DEF CartInv, CartTypeOK, QuantityWithinStock, StockGoesOn, ItemRows
  <2>6. AskedIsInStock'
    <3>1. \A w \in Workers : sess[w].quantity \in Nat /\ \A q \in sess[w].scope :
            q \in Products /\ sess[w].seen[q].quantity \in Nat
      BY DEF CartInv, CartTypeOK, Sessions, ItemRows
    <3> QED BY <2>1, <2>2, <2>3, <3>1 DEF CartInv, AskedIsInStock, StockGoesOn
  <2>7. SeenUnlessTouched' /\ SeenRows' /\ ScopeIsOne' /\ PeakIsHighest'
    BY <2>2, <2>3
    DEF CartInv, SeenUnlessTouched, SeenRows, ScopeIsOne, PeakIsHighest, StockGoesOn
  <2> QED BY <2>4, <2>5, <2>6, <2>7 DEF CartInv
<1>5. CASE UNCHANGED vars
  BY <1>5 DEF vars, CartInv, CartTypeOK, QuantityWithinStock, SeenUnlessTouched, AskedIsInStock,
              SeenRows, ScopeIsOne, PeakIsHighest
<1> QED BY <1>1, <1>2, <1>3, <1>4, <1>5 DEF Next

\* CartInv, the inductive invariant, holds in every reachable state.
THEOREM CartInvariantHolds == Spec => []CartInv
BY InitCart, CartStep, PTL DEF Spec

\* Type correctness: one row per product, with an id of its own.
THEOREM CartTypesHold == Spec => []CartTypeOK
<1>1. CartInv => CartTypeOK
  BY DEF CartInv
<1> QED BY <1>1, CartInvariantHolds, PTL

\* No number of concurrent requests puts more in the cart than the stock has
\* ever had.
THEOREM QuantitiesHold == Spec => []QuantityWithinStock
<1>1. CartInv => QuantityWithinStock
  BY DEF CartInv
<1> QED BY <1>1, CartInvariantHolds, PTL

-----------------------------------------------------------------------------
(* What a request does.                                                    *)

\* The only step that ends w's request and changes the cart is its commit.
LEMMA WriterCommits ==
  ASSUME CartInv, Next, NEW w \in Workers, Writes(w)
  PROVE  Finish(w)
<1>1. PICK v \in Workers : Finish(v)
  BY DEF Next, Start, add_item, update_item, remove_item, clear, checkout, Load, LoadProduct,
         Abort, StockMoves, Writes
<1>2. v = w
  <2>1. PICK new : Commit(v, new)
    BY <1>1 DEF Finish, CommitAdd, CommitUpdate, CommitDelete, CommitCheckout
  <2>2. v # w => sess'[w].op = sess[w].op
    BY <2>1 DEF Commit, CartInv, CartTypeOK, Sessions
  <2> QED BY <2>2 DEF Writes
<1> QED BY <1>1, <1>2

\* A request does to the rows nobody else has changed what it would do alone.
THEOREM RequestsActAlone == Spec => AsIfAlone
<1> DEFINE A == \A w \in Workers, p \in Products : Writes(w) /\ p \notin sess[w].touched =>
                  items'[p].quantity =
                    IF p \notin sess[w].scope THEN items[p].quantity
                    ELSE IF sess[w].op = "add_item" THEN items[p].quantity + sess[w].quantity
                    ELSE IF sess[w].op = "update_item" THEN sess[w].quantity
                    ELSE 0
<1>1. CartInv /\ Next => A
  <2> SUFFICES ASSUME CartInv, Next, NEW w \in Workers, NEW p \in Products, Writes(w),
                      p \notin sess[w].touched
               PROVE  items'[p].quantity =
                        IF p \notin sess[w].scope THEN items[p].quantity
                        ELSE IF sess[w].op = "add_item" THEN items[p].quantity + sess[w].quantity
                        ELSE IF sess[w].op = "update_item" THEN sess[w].quantity
                        ELSE 0
    OBVIOUS
  <2>1. Finish(w)
    BY WriterCommits
  <2>2. sess[w].seen[p] = items[p] /\ items \in [Products -> ItemRows]
    BY DEF Writes, CartInv, SeenUnlessTouched, CartTypeOK
  <2>3. ASSUME NEW q \in Products, CommitAdd(w, q)
        PROVE  items'[p].quantity = IF p \notin sess[w].scope THEN items[p].quantity
                                    ELSE items[p].quantity + sess[w].quantity
    <3>1. q \in sess[w].scope /\ items'[q].quantity = NewQuantity(w, q)
          /\ \A x \in Products : x # q => items'[x] = items[x]
      BY <2>2, <2>3 DEF CommitAdd, Commit
    <3>2. p # q => p \notin sess[w].scope
      BY <3>1, <2>3 DEF CommitAdd, CartInv, ScopeIsOne
    <3> QED BY <2>2, <3>1, <3>2 DEF NewQuantity
  <2>4. ASSUME NEW q \in Products, CommitUpdate(w, q)
        PROVE  items'[p].quantity = IF p \notin sess[w].scope THEN items[p].quantity
                                    ELSE sess[w].quantity
    <3>1. q \in sess[w].scope /\ \A x \in Products : x # q => items'[x] = items[x]
      BY <2>2, <2>4 DEF CommitUpdate, Commit
    <3>2. p # q => p \notin sess[w].scope
      BY <3>1, <2>4 DEF CommitUpdate, CartInv, ScopeIsOne
    <3>3. p = q => items'[p].quantity = sess[w].quantity
      BY <2>2, <2>4 DEF CommitUpdate, Commit, ItemRows
    <3> QED BY <3>1, <3>2, <3>3
  <2>5. CASE CommitDelete(w)
    BY <2>2, <2>5 DEF CommitDelete, Commit, Without, Doomed, Kept, NoRow
  <2>6. CASE CommitCheckout(w)
    BY <2>2, <2>6 DEF CommitCheckout, Commit, Without, NoRow, CartInv, ScopeIsOne
  <2> QED BY <2>1, <2>3, <2>4, <2>5, <2>6
          DEF Finish, CommitAdd, CommitUpdate, CommitDelete, CommitCheckout
<1>2. CartInv /\ [Next]_vars => [A]_vars
  BY <1>1
<1> QED BY <1>2, CartInvariantHolds, PTL DEF Spec, AsIfAlone

\* A checkout orders what it takes out of the cart.
THEOREM CheckoutsTakeTheCart == Spec => CheckoutTakesTheCart
<1> DEFINE A == \A w \in Workers, p \in Products :
                  /\ sess[w].op = "checkout" /\ Writes(w)
                  /\ p \notin sess[w].touched
                  => /\ ordered'[p] = ordered[p] + items[p].quantity
                     /\ Current(w, p) =>
                          Available(product_inventory'[p])
                            = Available(product_inventory[p]) - items[p].quantity
<1>1. CartInv /\ Next => A
  <2> SUFFICES ASSUME CartInv, Next, NEW w \in Workers, NEW p \in Products, Writes(w),
                      sess[w].op = "checkout", p \notin sess[w].touched
               PROVE  /\ ordered'[p] = ordered[p] + items[p].quantity
                      /\ Current(w, p) =>
                           Available(product_inventory'[p])
                             = Available(product_inventory[p]) - items[p].quantity
    OBVIOUS
  <2>1. CommitCheckout(w)
    BY WriterCommits DEF Finish, CommitAdd, CommitUpdate, CommitDelete
  <2>2. sess[w].seen[p] = items[p]
    BY DEF Writes, CartInv, SeenUnlessTouched
  <2>3. /\ items[p] \in ItemRows /\ product_inventory[p] \in Rows
        /\ ordered'[p] = ordered[p] + items[p].quantity
        /\ product_inventory'[p] = Reserved(w)[p]
    BY <2>1, <2>2 DEF CommitCheckout, OrderItem, StockIs, CartInv, CartTypeOK
  <2>4. CASE p \in sess[w].loaded
    BY <2>2, <2>3, <2>4 DEF Current, Reserved, Reserve, OrderItem, Available, Rows, ItemRows
  <2>5. CASE p \notin sess[w].loaded
    <3>1. items[p] = NoRow /\ Available(product_inventory[p]) \in Nat
      BY <2>1, <2>2, <2>3, <2>5, AvailableIsNat DEF CommitCheckout, InCart
    <3> QED BY <2>3, <2>5, <3>1 DEF Reserved, NoRow
  <2> QED BY <2>3, <2>4, <2>5
<1>2. CartInv /\ [Next]_vars => [A]_vars
  BY <1>1
<1> QED BY <1>2, CartInvariantHolds, PTL DEF Spec, CheckoutTakesTheCart
=============================================================================
