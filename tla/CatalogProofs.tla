--------------------------- MODULE CatalogProofs ---------------------------
(***************************************************************************)
(* Proofs about Catalog for any number of workers, categories and          *)
(* products.                                                               *)
(*                                                                         *)
(* The invariant has four layers, each inductive given the ones before it: *)
(* the types and shapes of the sessions; the tree; the products; the       *)
(* cache.  The heart of the second is MoveKeepsForest: a set of categories *)
(* that is closed under the new parents keeps, without the subtree of the  *)
(* moved category, a set that was closed under the old ones.               *)
(***************************************************************************)
EXTENDS Catalog, TLAPS

-----------------------------------------------------------------------------
(* Trees.                                                                  *)

LEMMA ReachIsClosed ==
  ASSUME NEW P, NEW c, NEW x \in Categories,
         P[x] = c \/ P[x] \in Reach(P, c)
  PROVE  x \in Reach(P, c)
<1> SUFFICES ASSUME NEW S \in SUBSET Categories, Children(P, c) \subseteq S,
                    \A y \in S : Children(P, y) \subseteq S
             PROVE  x \in S
  BY DEF Reach
<1>1. CASE P[x] = c
  BY <1>1 DEF Children
<1>2. CASE P[x] \in Reach(P, c)
  <2>1. P[x] \in S
    BY <1>2 DEF Reach
  <2> QED BY <2>1 DEF Children
<1> QED BY <1>1, <1>2

LEMMA ReachIsLeast ==
  ASSUME NEW P, NEW c, NEW S \in SUBSET Categories,
         \A x \in Categories : P[x] = c \/ P[x] \in S => x \in S
  PROVE  Reach(P, c) \subseteq S
<1>1. Children(P, c) \subseteq S /\ \A y \in S : Children(P, y) \subseteq S
  BY DEF Children
<1> QED BY <1>1 DEF Reach

\* No category refers to one that is not there.
Resolved(P) == \A c \in Categories : P[c] \in Categories => Present(P, P[c])

\* A new leaf.
LEMMA LeafKeepsForest ==
  ASSUME NEW P \in [Categories -> Parents], NEW c \in Categories, NEW q \in Categories \cup {None},
         Resolved(P), P[c] = "absent", q # None => Present(P, q)
  PROVE  /\ Resolved([P EXCEPT ![c] = q])
         /\ Forest(P) => Forest([P EXCEPT ![c] = q])
<1> DEFINE N == [P EXCEPT ![c] = q]
<1>1. ~Present(P, c) /\ q # c
  BY CatalogNames DEF Present
<1>2. \A x \in Categories : P[x] # c
  BY <1>1 DEF Resolved
<1>3. Resolved(N)
  <2> SUFFICES ASSUME NEW x \in Categories, N[x] \in Categories PROVE Present(N, N[x])
    BY DEF Resolved
  <2>1. Present(P, N[x]) /\ N[x] # c
    BY <1>1, <1>2, CatalogNames DEF Resolved
  <2> QED BY <2>1 DEF Present
<1>4. ASSUME Forest(P), NEW S \in (SUBSET Categories) \ {{}} PROVE \E x \in S : N[x] \notin S
  <2>1. CASE S = {c}
    BY <1>1, <2>1
  <2>2. CASE S # {c}
    <3>1. S \ {c} \in (SUBSET Categories) \ {{}}
      BY <2>2
    <3>2. PICK x \in S \ {c} : P[x] \notin S \ {c}
      BY <1>4, <3>1 DEF Forest
    <3> QED BY <1>2, <3>2
  <2> QED BY <2>1, <2>2
<1> QED BY <1>3, <1>4 DEF Forest

LEMMA LeafKeepsReach ==
  ASSUME NEW P \in [Categories -> Parents], NEW c \in Categories, NEW q \in Categories \cup {None},
         Resolved(P), P[c] = "absent", q # None => Present(P, q),
         NEW d \in Categories, P[d] # "absent", NEW x \in Categories, x # c,
         x \notin Reach(P, d)
  PROVE  x \notin Reach([P EXCEPT ![c] = q], d)
<1> DEFINE N == [P EXCEPT ![c] = q]
           S == Reach(P, d) \cup {c}
<1>1. \A y \in Categories : P[y] # c
  BY CatalogNames DEF Resolved, Present
<1>2. q # c
  BY CatalogNames DEF Present
<1>3. S \in SUBSET Categories
  BY DEF Reach
<1>4. ASSUME NEW y \in Categories, N[y] = d \/ N[y] \in S PROVE y \in S
  <2>1. CASE y = c
    BY <2>1
  <2>2. CASE y # c
    <3>1. P[y] = d \/ P[y] \in Reach(P, d)
      BY <1>1, <1>4, <2>2
    <3> QED BY <3>1, ReachIsClosed
  <2> QED BY <2>1, <2>2
<1> HIDE DEF N, S
<1>5. Reach(N, d) \subseteq S
  BY <1>3, <1>4, ReachIsLeast
<1> QED BY <1>5 DEF N, S

\* A leaf that is taken away.
LEMMA DeletionKeepsForest ==
  ASSUME NEW P \in [Categories -> Parents], NEW c \in Categories,
         Resolved(P), Children(P, c) = {}
  PROVE  /\ Resolved([P EXCEPT ![c] = "deleted"])
         /\ Forest(P) => Forest([P EXCEPT ![c] = "deleted"])
<1> DEFINE N == [P EXCEPT ![c] = "deleted"]
<1>1. "deleted" \notin Categories
  BY CatalogNames
<1>2. \A x \in Categories : P[x] # c
  BY DEF Children
<1>3. Resolved(N)
  BY <1>1, <1>2 DEF Resolved, Present
<1>4. ASSUME Forest(P), NEW S \in (SUBSET Categories) \ {{}} PROVE \E x \in S : N[x] \notin S
  <2>1. PICK x \in S : P[x] \notin S
    BY <1>4 DEF Forest
  <2> QED BY <1>1, <2>1
<1> QED BY <1>3, <1>4 DEF Forest

LEMMA DeletionKeepsReach ==
  ASSUME NEW P \in [Categories -> Parents], NEW c \in Categories, NEW d \in Categories,
         NEW x \in Categories, x \notin Reach(P, d)
  PROVE  x \notin Reach([P EXCEPT ![c] = "deleted"], d)
<1> DEFINE N == [P EXCEPT ![c] = "deleted"]
<1>1. "deleted" \notin Categories
  BY CatalogNames
<1>2. Reach(P, d) \in SUBSET Categories
  BY DEF Reach
<1>3. ASSUME NEW y \in Categories, N[y] = d \/ N[y] \in Reach(P, d) PROVE y \in Reach(P, d)
  <2>1. P[y] = d \/ P[y] \in Reach(P, d)
    BY <1>1, <1>2, <1>3
  <2> QED BY <2>1, ReachIsClosed
<1> HIDE DEF N
<1>4. Reach(N, d) \subseteq Reach(P, d)
  BY <1>2, <1>3, ReachIsLeast
<1> QED BY <1>4 DEF N

\* A move that is checked against the tree it changes.
LEMMA MoveKeepsForest ==
  ASSUME NEW P \in [Categories -> Parents], NEW c \in Categories, NEW n \in Categories \cup {None},
         Forest(P), n # None => n # c /\ n \notin Reach(P, c)
  PROVE  Forest([P EXCEPT ![c] = n])
<1> DEFINE N == [P EXCEPT ![c] = n]
<1> SUFFICES ASSUME NEW S \in (SUBSET Categories) \ {{}}, \A x \in S : N[x] \in S
             PROVE  FALSE
  BY DEF Forest
<1>1. PICK x \in S : P[x] \notin S
  BY DEF Forest
<1>2. x = c /\ n \in S /\ n # None
  BY <1>1, CatalogNames
<1> DEFINE T == S \ (Reach(P, c) \cup {c})
<1>3. n \in T /\ T \in (SUBSET Categories) \ {{}}
  BY <1>2
<1>4. PICK y \in T : P[y] \notin T
  BY <1>3 DEF Forest
<1>5. P[y] = N[y] /\ P[y] \in S
  BY <1>4
<1>6. P[y] = c \/ P[y] \in Reach(P, c)
  BY <1>4, <1>5
<1> QED BY <1>4, <1>6, ReachIsClosed

\* A forest without dangling parents is what get_tree shows.
LEMMA TreeShowsAll ==
  ASSUME NEW P \in [Categories -> Parents], Resolved(P), Forest(P)
  PROVE  get_tree(P) = {c \in Categories : Present(P, c)}
<1> DEFINE E == {c \in Categories : Present(P, c)}
           R == Reach(P, None)
           D == E \ R
<1>1. ASSUME NEW x \in Categories, P[x] = None \/ P[x] \in E PROVE x \in E
  BY <1>1 DEF Present
<1>2. E \in SUBSET Categories
  OBVIOUS
<1>3. R \subseteq E
  <2> HIDE DEF E
  <2> QED BY <1>1, <1>2, ReachIsLeast
<1>4. D = {}
  <2> SUFFICES ASSUME D # {} PROVE FALSE
    OBVIOUS
  <2>1. D \in (SUBSET Categories) \ {{}}
    OBVIOUS
  <2>2. PICK x \in D : P[x] \notin D
    BY <2>1 DEF Forest
  <2>3. P[x] = None \/ P[x] \in R
    BY <2>2 DEF Present, Resolved
  <2> QED BY <2>2, <2>3, ReachIsClosed
<1> QED BY <1>3, <1>4 DEF get_tree

LEMMA MoveKeepsResolved ==
  ASSUME NEW P \in [Categories -> Parents], NEW c \in Categories, NEW n \in Categories \cup {None},
         Resolved(P), Present(P, c), n # None => Present(P, n)
  PROVE  Resolved([P EXCEPT ![c] = n])
<1> DEFINE N == [P EXCEPT ![c] = n]
<1>1. \A y \in Categories : Present(P, y) => Present(N, y)
  BY DEF Present
<1> SUFFICES ASSUME NEW x \in Categories, N[x] \in Categories PROVE Present(N, N[x])
  BY DEF Resolved
<1>2. Present(P, N[x])
  BY CatalogNames DEF Resolved
<1> QED BY <1>1, <1>2

-----------------------------------------------------------------------------
(* Amounts.                                                                *)

\* Rounding keeps the order of two amounts, though not a strict one.
LEMMA NumericKeepsOrder ==
  ASSUME NEW a \in Nat, NEW b \in Nat, a <= b
  PROVE  Numeric(a) <= Numeric(b)
BY DEF Numeric

LEMMA StoredShape ==
  ASSUME NEW row \in ProductRows
  PROVE  /\ Stored(row) \in ProductRows
         /\ Stored(row).category_id = row.category_id
         /\ NotAbovePrice(row) => NotAbovePrice(Stored(row))
<1> DEFINE n == Numeric(row.price)
           d == IF row.discount_price = None THEN None ELSE Numeric(row.discount_price)
           s == Stored(row)
<1>1. row.price \in Prices /\ row.discount_price \in Prices \cup {None}
  BY DEF ProductRows
<1>2. n \in Prices /\ d \in Prices \cup {None}
  BY <1>1, PricesAssumption
<1>3. s = [row EXCEPT !.price = n, !.discount_price = d]
  BY DEF Stored
<1> HIDE DEF n, d, s
<1>4. /\ s \in ProductRows /\ s.category_id = row.category_id
      /\ s.price = n /\ s.discount_price = d
  BY <1>2, <1>3 DEF ProductRows
<1>5. ASSUME NotAbovePrice(row) PROVE NotAbovePrice(s)
  <2>1. CASE row.discount_price = None
    BY <1>4, <2>1 DEF NotAbovePrice, d
  <2>2. CASE row.discount_price # None
    <3>1. row.discount_price \in Nat /\ row.price \in Nat /\ row.discount_price <= row.price
      BY <1>1, <1>5, <2>2, PricesAssumption DEF NotAbovePrice
    <3>2. Numeric(row.discount_price) <= Numeric(row.price)
      BY <3>1, NumericKeepsOrder
    <3>3. d = Numeric(row.discount_price) /\ n = Numeric(row.price)
      BY <2>2 DEF d, n
    <3> QED BY <1>4, <3>2, <3>3 DEF NotAbovePrice
  <2> QED BY <2>1, <2>2
<1> QED BY <1>4, <1>5 DEF s

LEMMA DiscountedNotAbove ==
  ASSUME NEW row \in ProductRows, Discounted(row)
  PROVE  NotAbovePrice(row)
<1>1. row.price \in Nat /\ (row.discount_price # None => row.discount_price \in Nat)
  BY PricesAssumption DEF ProductRows
<1> QED BY <1>1 DEF Discounted, NotAbovePrice

-----------------------------------------------------------------------------
(* Types and shapes.                                                       *)

CategoryEdits == {"create_category", "update_category", "move", "delete"}
ProductEdits == {"create_product", "update_product"}

\* What the fields of a session are for each edit.
Shaped(s) ==
  /\ s \in Sessions
  /\ s.op \in CategoryEdits => s.id \in Categories /\ s.new \in Categories \cup {None}
  /\ s.op \in ProductEdits => s.id \in Products /\ s.new \in ProductRows
  /\ s.op = "update_product" => s.loaded \in ProductRows
  /\ s.pc = "read" => s.op = "read" /\ s.id \in CacheKeys
  /\ s.pc = "loaded" => s.op = "move" /\ s.new # None
  /\ s.pc \in {"checked", "flushed", "invalidated"} => s.op \in Edits

\* A product that is being updated is there for good.
Kept(s) == s.op = "update_product" => products[s.id] # None

ShapeInv == CatalogTypeOK /\ \A w \in Workers : Shaped(sess[w]) /\ Kept(sess[w])

LEMMA IdleShaped == Shaped(Idle)
BY DEF Shaped, Idle, Sessions, Values, CategoryEdits, ProductEdits, Edits, Versions

LEMMA InitShape == Init => ShapeInv
<1> SUFFICES ASSUME Init PROVE ShapeInv
  OBVIOUS
<1>1. Idle \in Sessions
  BY IdleShaped DEF Shaped
<1>2. CatalogTypeOK
  BY <1>1, InitialTree, InitialRows DEF Init, CatalogTypeOK, Versions
<1>3. Kept(Idle)
  BY DEF Kept, Idle
<1> QED BY <1>2, <1>3, IdleShaped DEF Init, ShapeInv

\* A step that gives w another session, and changes nothing else of the types.
LEMMA SessionShape ==
  ASSUME ShapeInv, NEW w \in Workers, NEW s, Shaped(s), sess' = [sess EXCEPT ![w] = s]
  PROVE  /\ sess' \in [Workers -> Sessions] /\ \A v \in Workers : Shaped(sess'[v])
         /\ \A v \in Workers : sess'[v] = IF v = w THEN s ELSE sess[v]
BY DEF ShapeInv, CatalogTypeOK, Shaped

\* Forgetting that a session is fresh.
LEMMA StaleShape ==
  ASSUME NEW s, Shaped(s)
  PROVE  /\ Shaped([s EXCEPT !.fresh = FALSE])
         /\ [s EXCEPT !.fresh = FALSE].op = s.op /\ [s EXCEPT !.fresh = FALSE].id = s.id
         /\ [s EXCEPT !.fresh = FALSE].new = s.new /\ [s EXCEPT !.fresh = FALSE].pc = s.pc
         /\ [s EXCEPT !.fresh = FALSE].loaded = s.loaded
         /\ [s EXCEPT !.fresh = FALSE].fresh = FALSE
<1> DEFINE t == [s EXCEPT !.fresh = FALSE]
<1>1. s \in Sessions
  BY DEF Shaped
<1>2. /\ t \in Sessions /\ t.op = s.op /\ t.id = s.id /\ t.new = s.new /\ t.pc = s.pc
      /\ t.loaded = s.loaded /\ t.fresh = FALSE
  BY <1>1 DEF Sessions
<1> HIDE DEF t
<1> QED BY <1>2 DEF Shaped, t

\* The fields of a session whose pc is advanced.
LEMMA AdvanceShape ==
  ASSUME NEW s, Shaped(s), NEW pc \in {"checked", "invalidated"}, s.op \in Edits
  PROVE  /\ Shaped([s EXCEPT !.pc = pc])
         /\ [s EXCEPT !.pc = pc].op = s.op /\ [s EXCEPT !.pc = pc].id = s.id
         /\ [s EXCEPT !.pc = pc].new = s.new /\ [s EXCEPT !.pc = pc].pc = pc
         /\ [s EXCEPT !.pc = pc].loaded = s.loaded /\ [s EXCEPT !.pc = pc].fresh = s.fresh
<1> DEFINE t == [s EXCEPT !.pc = pc]
<1>1. s \in Sessions
  BY DEF Shaped
<1>2. /\ t \in Sessions /\ t.op = s.op /\ t.id = s.id /\ t.new = s.new /\ t.pc = pc
      /\ t.loaded = s.loaded /\ t.fresh = s.fresh
  BY <1>1 DEF Sessions
<1> HIDE DEF t
<1> QED BY <1>2 DEF Shaped, t

\* The session after CheckMove.
LEMMA CheckedShape ==
  ASSUME NEW s, Shaped(s), s.op \in Edits
  PROVE  LET t == [s EXCEPT !.pc = "checked", !.fresh = TRUE]
         IN  /\ Shaped(t) /\ t.op = s.op /\ t.id = s.id /\ t.new = s.new
             /\ t.pc = "checked" /\ t.loaded = s.loaded
<1> DEFINE t == [s EXCEPT !.pc = "checked", !.fresh = TRUE]
<1>1. s \in Sessions
  BY DEF Shaped
<1>2. /\ t \in Sessions /\ t.op = s.op /\ t.id = s.id /\ t.new = s.new /\ t.pc = "checked"
      /\ t.loaded = s.loaded
  BY <1>1 DEF Sessions
<1> HIDE DEF t
<1>3. Shaped(t)
  BY <1>2 DEF Shaped
<1> QED BY <1>2, <1>3 DEF t

\* The sessions that requests begin with.
NewSession(s) ==
  \/ \E c \in Categories, parent \in Categories \cup {None} :
       /\ s = [Idle EXCEPT !.pc = "flushed", !.op = "create_category", !.id = c, !.new = parent]
       /\ categories[c] = "absent" /\ ~Pending(c) /\ (parent # None => Exists(parent))
  \/ \E c \in Categories :
       /\ s = [Idle EXCEPT !.pc = "checked", !.op = "update_category", !.id = c]
       /\ Exists(c)
  \/ \E c \in Categories, parent \in Categories \cup {None} :
       /\ s = [Idle EXCEPT !.pc = IF parent = None THEN "checked" ELSE "loaded",
                           !.op = "move", !.id = c, !.loaded = categories[c],
                           !.new = parent, !.fresh = parent = None]
       /\ Exists(c) /\ (parent # None => parent # c /\ Exists(parent))
  \/ \E c \in Categories :
       /\ s = [Idle EXCEPT !.pc = "checked", !.op = "delete", !.id = c]
       /\ Exists(c)
  \/ \E p \in Products, row \in ProductRows :
       /\ s = [Idle EXCEPT !.pc = "flushed", !.op = "create_product", !.id = p, !.new = row]
       /\ products[p] = None /\ ~Pending(p) /\ NotAbovePrice(row) /\ Exists(row.category_id)
  \/ \E p \in Products, row \in ProductRows :
       /\ s = [Idle EXCEPT !.pc = "checked", !.op = "update_product", !.id = p,
                           !.loaded = products[p], !.new = row, !.fresh = TRUE]
       /\ products[p] # None
       /\ p \notin raced /\ NotAbovePrice(products[p]) => NotAbovePrice(row)
  \/ \E k \in CacheKeys :
       s = [Idle EXCEPT !.pc = "read", !.op = "read", !.id = k, !.version = version[k]]

\* A request that begins gives w a new session and changes nothing else.
LEMMA RequestBegins ==
  ASSUME ShapeInv, NEW w \in Workers, Request(w)
  PROVE  /\ \E s : NewSession(s) /\ sess' = [sess EXCEPT ![w] = s]
         /\ UNCHANGED <<categories, products, cache, version, raced>>
         /\ edits' \in Nat /\ sess[w].pc = "idle"
<1>1. ASSUME NEW c \in Categories, NEW parent \in Categories \cup {None},
             CreateCategory(w, c, parent)
      PROVE  \E s : NewSession(s) /\ sess' = [sess EXCEPT ![w] = s]
  BY <1>1 DEF CreateCategory, Begin, NewSession
<1>2. ASSUME NEW c \in Categories, UpdateCategory(w, c)
      PROVE  \E s : NewSession(s) /\ sess' = [sess EXCEPT ![w] = s]
  BY <1>2 DEF UpdateCategory, Begin, NewSession
<1>3. ASSUME NEW c \in Categories, NEW parent \in Categories \cup {None},
             MoveCategory(w, c, parent)
      PROVE  \E s : NewSession(s) /\ sess' = [sess EXCEPT ![w] = s]
  BY <1>3 DEF MoveCategory, Begin, NewSession
<1>4. ASSUME NEW c \in Categories, DeleteCategory(w, c)
      PROVE  \E s : NewSession(s) /\ sess' = [sess EXCEPT ![w] = s]
  BY <1>4 DEF DeleteCategory, Begin, NewSession
<1>5. ASSUME NEW p \in Products, NEW row \in Bodies, CreateProduct(w, p, row)
      PROVE  \E s : NewSession(s) /\ sess' = [sess EXCEPT ![w] = s]
  BY <1>5, BodiesAssumption, DiscountedNotAbove DEF CreateProduct, Begin, NewSession
<1>6. ASSUME NEW p \in Products, NEW patch \in Patches, UpdateProduct(w, p, patch)
      PROVE  \E s : NewSession(s) /\ sess' = [sess EXCEPT ![w] = s]
  <2>1. products[p] \in ProductRows
    BY <1>6 DEF UpdateProduct, ShapeInv, CatalogTypeOK
  <2>2. /\ Patched(products[p], patch) \in ProductRows
        /\ NotAbovePrice(Patched(products[p], patch))
    BY <1>6, <2>1, PatchesAssumption, DiscountedNotAbove DEF UpdateProduct
  <2> QED BY <1>6, <2>2 DEF UpdateProduct, Begin, NewSession
<1>7. ASSUME NEW p \in Products, ArchiveProduct(w, p)
      PROVE  \E s : NewSession(s) /\ sess' = [sess EXCEPT ![w] = s]
  <2>1. products[p] \in ProductRows
    BY <1>7 DEF ArchiveProduct, ShapeInv, CatalogTypeOK
  <2> DEFINE row == [products[p] EXCEPT !.is_active = FALSE]
  <2>2. row \in ProductRows /\ (NotAbovePrice(products[p]) => NotAbovePrice(row))
    BY <2>1 DEF ProductRows, NotAbovePrice
  <2>3. products[p] # None
        /\ sess' = [sess EXCEPT ![w] =
             [Idle EXCEPT !.pc = "checked", !.op = "update_product", !.id = p,
                          !.loaded = products[p], !.fresh = TRUE, !.new = row]]
    BY <1>7 DEF ArchiveProduct, Begin
  <2>4. [Idle EXCEPT !.pc = "checked", !.op = "update_product", !.id = p,
                     !.loaded = products[p], !.fresh = TRUE, !.new = row]
        = [Idle EXCEPT !.pc = "checked", !.op = "update_product", !.id = p,
                       !.loaded = products[p], !.new = row, !.fresh = TRUE]
    BY DEF Idle
  <2> HIDE DEF row
  <2> QED BY <2>2, <2>3, <2>4 DEF NewSession
<1>8. ASSUME NEW k \in CacheKeys, Miss(w, k)
      PROVE  \E s : NewSession(s) /\ sess' = [sess EXCEPT ![w] = s]
  BY <1>8 DEF Miss, NewSession
<1>9. /\ UNCHANGED <<categories, products, cache, version, raced>>
      /\ edits' \in Nat /\ sess[w].pc = "idle"
  <2>1. edits \in Nat
    BY DEF ShapeInv, CatalogTypeOK
  <2>2. CASE \E s : Begin(w, s)
    BY <2>1, <2>2 DEF Begin
  <2>3. CASE \E k \in CacheKeys : Miss(w, k)
    BY <2>1, <2>3 DEF Miss
  <2>4. (\E s : Begin(w, s)) \/ (\E k \in CacheKeys : Miss(w, k))
    BY Zenon DEF Request, CreateCategory, UpdateCategory, MoveCategory, DeleteCategory,
                 CreateProduct, UpdateProduct, ArchiveProduct
  <2> QED BY <2>2, <2>3, <2>4
<1> QED BY <1>1, <1>2, <1>3, <1>4, <1>5, <1>6, <1>7, <1>8, <1>9 DEF Request

LEMMA NewSessionShaped ==
  ASSUME ShapeInv, NEW s, NewSession(s)
  PROVE  Shaped(s)
<1>1. ASSUME NEW c \in Categories, Exists(c) PROVE categories[c] \in Categories \cup {None}
  BY <1>1 DEF Exists, Present
<1>2. ASSUME NEW p \in Products, products[p] # None PROVE products[p] \in ProductRows
  BY <1>2 DEF ShapeInv, CatalogTypeOK
<1>3. \A k \in CacheKeys : version[k] \in Versions
  BY DEF ShapeInv, CatalogTypeOK
<1>0. [rows |-> 0, stock |-> 0] \in Versions
  BY DEF Versions
<1> USE <1>0 DEF Shaped, Idle, Sessions, Values, CategoryEdits, ProductEdits, Edits, CacheKeys
<1>4. ASSUME NEW c \in Categories, NEW parent \in Categories \cup {None},
             s = [Idle EXCEPT !.pc = "flushed", !.op = "create_category", !.id = c,
                              !.new = parent]
      PROVE  Shaped(s)
  BY <1>4
<1>5. ASSUME NEW c \in Categories,
             s = [Idle EXCEPT !.pc = "checked", !.op = "update_category", !.id = c]
      PROVE  Shaped(s)
  BY <1>5
<1>6. ASSUME NEW c \in Categories, NEW parent \in Categories \cup {None}, Exists(c),
             s = [Idle EXCEPT !.pc = IF parent = None THEN "checked" ELSE "loaded",
                              !.op = "move", !.id = c, !.loaded = categories[c],
                              !.new = parent, !.fresh = parent = None]
      PROVE  Shaped(s)
  <2>1. categories[c] \in Categories \cup {None}
    BY <1>1, <1>6
  <2> QED BY <1>6, <2>1
<1>7. ASSUME NEW c \in Categories,
             s = [Idle EXCEPT !.pc = "checked", !.op = "delete", !.id = c]
      PROVE  Shaped(s)
  BY <1>7
<1>8. ASSUME NEW p \in Products, NEW row \in ProductRows,
             s = [Idle EXCEPT !.pc = "flushed", !.op = "create_product", !.id = p, !.new = row]
      PROVE  Shaped(s)
  BY <1>8
<1>9. ASSUME NEW p \in Products, NEW row \in ProductRows, products[p] # None,
             s = [Idle EXCEPT !.pc = "checked", !.op = "update_product", !.id = p,
                              !.loaded = products[p], !.new = row, !.fresh = TRUE]
      PROVE  Shaped(s)
  BY <1>2, <1>9
<1>10. ASSUME NEW k \in CacheKeys,
              s = [Idle EXCEPT !.pc = "read", !.op = "read", !.id = k, !.version = version[k]]
       PROVE  Shaped(s)
  BY <1>3, <1>10
<1> QED BY <1>4, <1>5, <1>6, <1>7, <1>8, <1>9, <1>10 DEF NewSession

-----------------------------------------------------------------------------
(* The steps, by what they do to the rows and the sessions.                *)

Ends(w) == End(w) /\ UNCHANGED <<categories, products, raced>>

\* Every step of the system is one of these.
StepCases ==
  \/ UNCHANGED <<categories, products, raced, sess>>
  \/ \E w \in Workers :
       \/ Request(w) \/ Ends(w) \/ CheckMove(w) \/ Invalidate(w)
       \/ CommitCreateCategory(w) \/ CommitMove(w) \/ CommitDelete(w)
       \/ CommitCreateProduct(w) \/ CommitUpdateProduct(w)

LEMMA NextCases == [Next]_vars => StepCases
<1> SUFFICES ASSUME [Next]_vars PROVE StepCases
  OBVIOUS
<1>1. CASE UNCHANGED vars
  BY <1>1 DEF vars, StepCases
<1>2. ASSUME NEW k \in CacheKeys, Expire(k) PROVE StepCases
  BY <1>2 DEF Expire, StepCases
<1>3. ASSUME NEW w \in Workers, Abort(w) PROVE Ends(w)
  BY <1>3 DEF Abort, Ends
<1>4. ASSUME NEW w \in Workers, RefuseMove(w) PROVE Ends(w)
  BY <1>4 DEF RefuseMove, Ends
<1>5. ASSUME NEW w \in Workers, Fill(w) PROVE Ends(w)
  BY <1>5 DEF Fill, Ends
<1>6. ASSUME NEW w \in Workers, CommitUpdateCategory(w) PROVE Ends(w)
  BY <1>6 DEF CommitUpdateCategory, Ends
<1>7. ASSUME NEW w \in Workers, CommitNothing(w) PROVE Ends(w)
  BY <1>7 DEF CommitNothing, Ends
<1>8. ASSUME NEW w \in Workers, FlushFails(w) PROVE Ends(w)
  BY <1>8 DEF FlushFails, Ends
<1>9. ASSUME NEW p \in Products, MoveStock(p) PROVE StepCases
  BY <1>9 DEF MoveStock, StepCases
<1>10. CASE Next
  BY <1>2, <1>3, <1>4, <1>5, <1>6, <1>7, <1>8, <1>9, <1>10 DEF Next, Step, StepCases
<1> QED BY <1>1, <1>10

\* The session a commit leaves to the other workers.
Demoted(s, t) == t = s \/ t = [s EXCEPT !.fresh = FALSE]

LEMMA DemotedShape ==
  ASSUME NEW s, NEW t, Shaped(s), Demoted(s, t)
  PROVE  /\ Shaped(t) /\ t.op = s.op /\ t.id = s.id /\ t.new = s.new /\ t.pc = s.pc
         /\ t.loaded = s.loaded /\ (t.fresh => s.fresh)
BY StaleShape DEF Demoted

\* After a commit of a move or of a product: w is idle, the others are as
\* they were, or no longer fresh.
LEMMA CommitSessions ==
  ASSUME ShapeInv, NEW w \in Workers, CommitMove(w) \/ CommitUpdateProduct(w)
  PROVE  /\ sess'[w] = Idle
         /\ \A v \in Workers : v # w => Demoted(sess[v], sess'[v])
         /\ \A v \in Workers : Shaped(sess'[v])
         /\ sess' \in [Workers -> Sessions]
<1>1. sess'[w] = Idle /\ DOMAIN sess' = Workers
  BY DEF CommitMove, CommitUpdateProduct
<1>2. ASSUME NEW v \in Workers, v # w PROVE Demoted(sess[v], sess'[v])
  BY <1>2 DEF CommitMove, CommitUpdateProduct, Demoted
<1>3. ASSUME NEW v \in Workers PROVE Shaped(sess'[v])
  BY <1>1, <1>2, IdleShaped, DemotedShape DEF ShapeInv
<1>4. sess' = [v \in Workers |-> sess'[v]]
  BY DEF CommitMove, CommitUpdateProduct
<1> QED BY <1>1, <1>2, <1>3, <1>4 DEF Shaped

\* The rows and sessions keep their types and shapes.
LEMMA RowsShape ==
  ASSUME ShapeInv, StepCases
  PROVE  /\ categories' \in [Categories -> Parents]
         /\ products' \in [Products -> ProductRows \cup {None}]
         /\ raced' \subseteq {"tree"} \cup Products
         /\ sess' \in [Workers -> Sessions]
         /\ \A v \in Workers : Shaped(sess'[v])
<1> DEFINE Good == /\ categories' \in [Categories -> Parents]
                   /\ products' \in [Products -> ProductRows \cup {None}]
                   /\ raced' \subseteq {"tree"} \cup Products
                   /\ sess' \in [Workers -> Sessions]
                   /\ \A v \in Workers : Shaped(sess'[v])
<1>0. /\ categories \in [Categories -> Parents]
      /\ products \in [Products -> ProductRows \cup {None}]
      /\ raced \subseteq {"tree"} \cup Products
      /\ sess \in [Workers -> Sessions]
      /\ \A v \in Workers : Shaped(sess[v])
  BY DEF ShapeInv, CatalogTypeOK
<1>1. CASE UNCHANGED <<categories, products, raced, sess>>
  BY <1>0, <1>1
<1>2. ASSUME NEW w \in Workers, Request(w) PROVE Good
  BY <1>0, <1>2, RequestBegins, NewSessionShaped, SessionShape
<1>3. ASSUME NEW w \in Workers, Ends(w) PROVE Good
  BY <1>0, <1>3, IdleShaped, SessionShape DEF Ends, End
<1>4. ASSUME NEW w \in Workers, CheckMove(w) PROVE Good
  <2>1. sess[w].op \in Edits
    BY <1>0, <1>4 DEF CheckMove, Shaped, Edits
  <2>2. sess' = [sess EXCEPT ![w] = [sess[w] EXCEPT !.pc = "checked", !.fresh = TRUE]]
    BY <1>4 DEF CheckMove
  <2>3. Shaped([sess[w] EXCEPT !.pc = "checked", !.fresh = TRUE])
    BY <1>0, <2>1, CheckedShape
  <2>4. UNCHANGED <<categories, products, raced>>
    BY <1>4 DEF CheckMove
  <2> QED BY <1>0, <2>2, <2>3, <2>4, SessionShape
<1>5. ASSUME NEW w \in Workers, Invalidate(w) PROVE Good
  <2>1. sess[w].op \in Edits
    BY <1>0, <1>5 DEF Invalidate, Shaped
  <2>2. sess' = [sess EXCEPT ![w] = [sess[w] EXCEPT !.pc = "invalidated"]]
    BY <1>5 DEF Invalidate
  <2>3. Shaped([sess[w] EXCEPT !.pc = "invalidated"])
    BY <1>0, <2>1, AdvanceShape
  <2>4. UNCHANGED <<categories, products, raced>>
    BY <1>5 DEF Invalidate
  <2> QED BY <1>0, <2>2, <2>3, <2>4, SessionShape
<1>6. ASSUME NEW w \in Workers, CommitCreateCategory(w) PROVE Good
  <2>1. sess[w].id \in Categories /\ sess[w].new \in Categories \cup {None}
    BY <1>0, <1>6 DEF CommitCreateCategory, Ready, Shaped, CategoryEdits
  <2>2. categories' \in [Categories -> Parents]
    BY <1>0, <1>6, <2>1 DEF CommitCreateCategory, Parents
  <2> QED BY <1>0, <1>6, <2>2, IdleShaped, SessionShape DEF CommitCreateCategory, End
<1>7. ASSUME NEW w \in Workers, CommitMove(w) PROVE Good
  <2>1. sess[w].id \in Categories /\ sess[w].new \in Categories \cup {None}
    BY <1>0, <1>7 DEF CommitMove, Ready, Shaped, CategoryEdits
  <2>2. categories' \in [Categories -> Parents]
    BY <1>0, <1>7, <2>1 DEF CommitMove, Parents
  <2>3. raced' \subseteq {"tree"} \cup Products /\ UNCHANGED products
    BY <1>0, <1>7 DEF CommitMove
  <2> QED BY <1>0, <1>7, <2>2, <2>3, CommitSessions
<1>8. ASSUME NEW w \in Workers, CommitDelete(w) PROVE Good
  <2>1. categories' \in [Categories -> Parents]
    BY <1>0, <1>8 DEF CommitDelete, Parents
  <2> QED BY <1>0, <1>8, <2>1, IdleShaped, SessionShape DEF CommitDelete, End
<1>9. ASSUME NEW w \in Workers, CommitCreateProduct(w) PROVE Good
  <2>1. sess[w].new \in ProductRows
    BY <1>0, <1>9 DEF CommitCreateProduct, Ready, Shaped, ProductEdits
  <2>2. products' \in [Products -> ProductRows \cup {None}]
    BY <1>0, <1>9, <2>1, StoredShape DEF CommitCreateProduct
  <2> QED BY <1>0, <1>9, <2>2, IdleShaped, SessionShape DEF CommitCreateProduct, End
<1>10. ASSUME NEW w \in Workers, CommitUpdateProduct(w) PROVE Good
  <2>1. /\ sess[w].id \in Products /\ sess[w].new \in ProductRows
        /\ sess[w].loaded \in ProductRows
    BY <1>0, <1>10 DEF CommitUpdateProduct, Ready, Shaped, ProductEdits
  <2>2. products[sess[w].id] \in ProductRows
    BY <1>0, <1>10, <2>1 DEF CommitUpdateProduct, Ready, ShapeInv, Kept
  <2>3. Written(sess[w].loaded, sess[w].new, products[sess[w].id]) \in ProductRows
    BY <2>1, <2>2 DEF Written, Assigned, ProductRows
  <2>4. products' \in [Products -> ProductRows \cup {None}]
    BY <1>0, <1>10, <2>3, StoredShape DEF CommitUpdateProduct
  <2>5. raced' \subseteq {"tree"} \cup Products /\ UNCHANGED categories
    BY <1>0, <1>10, <2>1 DEF CommitUpdateProduct
  <2> QED BY <1>0, <1>10, <2>4, <2>5, CommitSessions
<1> QED BY <1>1, <1>2, <1>3, <1>4, <1>5, <1>6, <1>7, <1>8, <1>9, <1>10 DEF StepCases

\* How a step changes one session: v's is as it was, no longer fresh, idle,
\* new, checked, or invalidated; op and id are kept unless it begins or ends.
LEMMA SessionCases ==
  ASSUME ShapeInv, StepCases, NEW v \in Workers
  PROVE  \/ Demoted(sess[v], sess'[v])
         \/ sess'[v] = Idle
         \/ NewSession(sess'[v]) /\ Request(v) /\ \A u \in Workers : u # v => sess'[u] = sess[u]
         \/ sess[v].pc = "loaded" /\ sess'[v] = [sess[v] EXCEPT !.pc = "checked", !.fresh = TRUE]
            /\ CheckMove(v)
         \/ sess[v].op \in Edits /\ sess'[v] = [sess[v] EXCEPT !.pc = "invalidated"]
            /\ Invalidate(v)
<1>0. sess \in [Workers -> Sessions]
  BY DEF ShapeInv, CatalogTypeOK
<1>1. CASE UNCHANGED <<categories, products, raced, sess>>
  BY <1>1 DEF Demoted
<1>2. ASSUME NEW w \in Workers, Request(w), v # w PROVE Demoted(sess[v], sess'[v])
  BY <1>0, <1>2, RequestBegins DEF Demoted
<1>3. ASSUME Request(v)
      PROVE  NewSession(sess'[v]) /\ \A u \in Workers : u # v => sess'[u] = sess[u]
  BY <1>0, <1>3, RequestBegins
<1>4. ASSUME NEW w \in Workers, End(w)
      PROVE  Demoted(sess[v], sess'[v]) \/ sess'[v] = Idle
  BY <1>0, <1>4 DEF End, Demoted
<1>5. ASSUME NEW w \in Workers, CheckMove(w), v # w PROVE Demoted(sess[v], sess'[v])
  BY <1>0, <1>5 DEF CheckMove, Demoted
<1>6. ASSUME CheckMove(v)
      PROVE  sess[v].pc = "loaded" /\ sess'[v] = [sess[v] EXCEPT !.pc = "checked", !.fresh = TRUE]
  BY <1>0, <1>6 DEF CheckMove
<1>7. ASSUME NEW w \in Workers, Invalidate(w), v # w PROVE Demoted(sess[v], sess'[v])
  BY <1>0, <1>7 DEF Invalidate, Demoted
<1>8. ASSUME Invalidate(v)
      PROVE  sess[v].op \in Edits /\ sess'[v] = [sess[v] EXCEPT !.pc = "invalidated"]
  BY <1>0, <1>8 DEF Invalidate, ShapeInv, Shaped
<1>9. ASSUME NEW w \in Workers, CommitMove(w) \/ CommitUpdateProduct(w)
      PROVE  Demoted(sess[v], sess'[v]) \/ sess'[v] = Idle
  BY <1>9, CommitSessions
<1> QED BY <1>1, <1>2, <1>3, <1>4, <1>5, <1>6, <1>7, <1>8, <1>9
        DEF StepCases, Ends, CommitCreateCategory, CommitDelete, CommitCreateProduct

\* Rows of products are never deleted.
LEMMA ProductsStay ==
  ASSUME ShapeInv, StepCases, NEW p \in Products, products[p] # None
  PROVE  products'[p] # None
<1>1. /\ products \in [Products -> ProductRows \cup {None}]
      /\ \A v \in Workers : Shaped(sess[v])
  BY DEF ShapeInv, CatalogTypeOK
<1>2. ASSUME NEW w \in Workers, CommitCreateProduct(w) PROVE products'[p] # None
  <2>1. sess[w].new \in ProductRows
    BY <1>1, <1>2 DEF CommitCreateProduct, Ready, Shaped, ProductEdits
  <2>2. Stored(sess[w].new) # None
    BY <2>1, StoredShape, CatalogNames
  <2> QED BY <1>1, <1>2, <2>2 DEF CommitCreateProduct
<1>3. ASSUME NEW w \in Workers, CommitUpdateProduct(w) PROVE products'[p] # None
  <2>1. products' = [products EXCEPT ![sess[w].id] =
          Stored(Written(sess[w].loaded, sess[w].new, products[sess[w].id]))]
    BY <1>3 DEF CommitUpdateProduct
  <2>2. CASE p = sess[w].id
    <3>1. products'[p] = Stored(Written(sess[w].loaded, sess[w].new, products[p]))
      BY <1>1, <2>1, <2>2
    <3>2. products[p] \in ProductRows /\ sess[w].new \in ProductRows
          /\ sess[w].loaded \in ProductRows
      BY <1>1, <1>3 DEF CommitUpdateProduct, Ready, Shaped, ProductEdits
    <3>3. Written(sess[w].loaded, sess[w].new, products[p]) \in ProductRows
      BY <3>2 DEF Written, Assigned, ProductRows
    <3> QED BY <3>1, <3>3, StoredShape, CatalogNames
  <2>3. CASE p # sess[w].id
    BY <1>1, <2>1, <2>3
  <2> QED BY <2>2, <2>3
<1>4. ASSUME NEW w \in Workers, Request(w) PROVE UNCHANGED products
  BY <1>4, RequestBegins
<1> QED BY <1>2, <1>3, <1>4
        DEF StepCases, Ends, CheckMove, Invalidate, CommitCreateCategory, CommitMove, CommitDelete

LEMMA CacheTypes ==
  ASSUME ShapeInv, [Next]_vars
  PROVE  /\ cache' \in [CacheKeys -> Entries \cup {None}]
         /\ version' \in [CacheKeys -> Versions]
         /\ edits' \in Nat
<1> DEFINE Good == /\ cache' \in [CacheKeys -> Entries \cup {None}]
                   /\ version' \in [CacheKeys -> Versions]
                   /\ edits' \in Nat
<1>0. /\ cache \in [CacheKeys -> Entries \cup {None}]
      /\ version \in [CacheKeys -> Versions]
      /\ edits \in Nat
      /\ sess \in [Workers -> Sessions]
  BY DEF ShapeInv, CatalogTypeOK
<1>1. CASE UNCHANGED vars
  BY <1>0, <1>1 DEF vars
<1>2. ASSUME NEW k \in CacheKeys, Expire(k) PROVE Good
  BY <1>0, <1>2 DEF Expire
<1>3. ASSUME NEW w \in Workers, UNCHANGED <<cache, version, edits>> PROVE Good
  BY <1>0, <1>3
<1>4. ASSUME NEW w \in Workers, Bump(w), UNCHANGED <<cache, edits>> PROVE Good
  <2>1. ASSUME NEW k \in CacheKeys
        PROVE  version[k] \in Versions /\ [version[k] EXCEPT !.rows = @ + 1] \in Versions
    BY <1>0 DEF Versions
  <2>2. version' \in [CacheKeys -> Versions]
    BY <1>4, <2>1 DEF Bump
  <2> QED BY <1>0, <1>4, <2>2
<1>5. ASSUME NEW w \in Workers, Invalidate(w) PROVE Good
  BY <1>0, <1>5 DEF Invalidate
<1>6. ASSUME NEW w \in Workers, Fill(w) PROVE Good
  <2> DEFINE e == [version |-> sess[w].version,
                   raced |-> Changing(sess[w].id)
                             \/ sess[w].version.rows # version[sess[w].id].rows]
  <2>1. sess[w].version \in Versions
    BY <1>0 DEF Sessions
  <2>2. Changing(sess[w].id) \in BOOLEAN
    BY DEF Changing
  <2>3. (Changing(sess[w].id) \/ sess[w].version.rows # version[sess[w].id].rows) \in BOOLEAN
    BY Zenon, <2>2
  <2>4. e \in Entries
    BY Zenon, <2>1, <2>3 DEF Entries
  <2>5. cache' = [cache EXCEPT ![sess[w].id] = e]
    BY <1>6 DEF Fill
  <2> HIDE DEF e
  <2> QED BY <1>0, <1>6, <2>4, <2>5 DEF Fill
<1>7. ASSUME NEW w \in Workers, Request(w) PROVE Good
  BY <1>0, <1>7, RequestBegins
<1>8. ASSUME NEW p \in Products, MoveStock(p) PROVE Good
  <2>1. ASSUME NEW k \in CacheKeys
        PROVE  version[k] \in Versions /\ [version[k] EXCEPT !.stock = @ + 1] \in Versions
    BY <1>0 DEF Versions
  <2>2. version' \in [CacheKeys -> Versions]
    BY <1>8, <2>1 DEF MoveStock
  <2> QED BY <1>0, <1>8, <2>2 DEF MoveStock
<1>9. CASE Next
  BY <1>2, <1>3, <1>4, <1>5, <1>6, <1>7, <1>8, <1>9
     DEF Next, Step, CheckMove, RefuseMove, CommitCreateCategory, CommitUpdateCategory,
         CommitMove, CommitDelete, CommitCreateProduct, CommitUpdateProduct, CommitNothing,
         FlushFails, Abort
<1> QED BY <1>1, <1>9

LEMMA ShapeStep == ShapeInv /\ [Next]_vars => ShapeInv'
<1> SUFFICES ASSUME ShapeInv, [Next]_vars PROVE ShapeInv'
  OBVIOUS
<1>1. StepCases
  BY NextCases
<1>2. CatalogTypeOK' /\ \A v \in Workers : Shaped(sess'[v])
  BY <1>1, RowsShape, CacheTypes DEF CatalogTypeOK
<1>3. ASSUME NEW v \in Workers, sess'[v].op = "update_product"
      PROVE  products'[sess'[v].id] # None
  <2>0. Shaped(sess[v]) /\ Shaped(sess'[v]) /\ Kept(sess[v])
    BY <1>2 DEF ShapeInv
  <2>1. sess'[v].id \in Products
    BY <1>3, <2>0 DEF Shaped, ProductEdits
  <2>2. CASE Demoted(sess[v], sess'[v])
    BY <1>1, <1>3, <2>0, <2>1, <2>2, DemotedShape, ProductsStay DEF Kept
  <2>3. CASE sess'[v] = Idle
    BY <1>3, <2>3 DEF Idle
  <2>4. CASE NewSession(sess'[v])
    <3>1. products[sess'[v].id] # None
      BY <1>3, <2>4 DEF NewSession, Idle
    <3> QED BY <1>1, <2>1, <3>1, ProductsStay
  <2>5. CASE sess[v].pc = "loaded"
             /\ sess'[v] = [sess[v] EXCEPT !.pc = "checked", !.fresh = TRUE]
    BY <1>3, <2>0, <2>5, CheckedShape DEF Shaped, Edits
  <2>6. CASE sess[v].op \in Edits /\ sess'[v] = [sess[v] EXCEPT !.pc = "invalidated"]
    BY <1>1, <1>3, <2>0, <2>1, <2>6, AdvanceShape, ProductsStay DEF Kept
  <2> QED BY <1>1, <2>2, <2>3, <2>4, <2>5, <2>6, SessionCases
<1> QED BY <1>2, <1>3 DEF ShapeInv, Kept

-----------------------------------------------------------------------------
(* The unique indexes: one flushed INSERT of a name at a time.             *)

Creates == {"create_category", "create_product"}

SoleInserts ==
  \A v, w \in Workers :
    sess[v].op \in Creates /\ sess[w].op \in Creates /\ sess[v].id = sess[w].id => v = w

\* op and id outlive every step but the first and the last of a request.
LEMMA SameEdit ==
  ASSUME ShapeInv, StepCases, NEW v \in Workers, sess'[v].op \in Edits
  PROVE  \/ sess'[v].op = sess[v].op /\ sess'[v].id = sess[v].id /\ sess'[v].new = sess[v].new
         \/ NewSession(sess'[v]) /\ Request(v) /\ \A u \in Workers : u # v => sess'[u] = sess[u]
<1>1. Shaped(sess[v])
  BY DEF ShapeInv
<1>2. CASE Demoted(sess[v], sess'[v])
  BY <1>1, <1>2, DemotedShape
<1>3. sess'[v] # Idle
  BY DEF Idle, Edits
<1>4. CASE sess[v].pc = "loaded"
           /\ sess'[v] = [sess[v] EXCEPT !.pc = "checked", !.fresh = TRUE]
  <2>1. sess[v].op \in Edits
    BY <1>1, <1>4 DEF Shaped, Edits
  <2> QED BY <1>1, <1>4, <2>1, CheckedShape
<1>5. CASE sess[v].op \in Edits /\ sess'[v] = [sess[v] EXCEPT !.pc = "invalidated"]
  BY <1>1, <1>5, AdvanceShape
<1> QED BY <1>2, <1>3, <1>4, <1>5, SessionCases

LEMMA NewInsertIsSole ==
  ASSUME NEW s, NewSession(s), s.op \in Creates
  PROVE  ~Pending(s.id)
BY DEF NewSession, Idle, Creates

LEMMA SoleStep ==
  ASSUME ShapeInv, SoleInserts, StepCases PROVE SoleInserts'
<1> SUFFICES ASSUME NEW v \in Workers, NEW w \in Workers, sess'[v].op \in Creates,
                    sess'[w].op \in Creates, sess'[v].id = sess'[w].id, v # w
             PROVE  FALSE
  BY DEF SoleInserts
<1>1. sess'[v].op \in Edits /\ sess'[w].op \in Edits
  BY DEF Creates, Edits
<1>2. CASE NewSession(sess'[v]) /\ sess'[w] = sess[w]
  BY <1>2, NewInsertIsSole DEF Pending, Creates
<1>3. CASE NewSession(sess'[w]) /\ sess'[v] = sess[v]
  BY <1>3, NewInsertIsSole DEF Pending, Creates
<1>4. CASE sess'[v].op = sess[v].op /\ sess'[v].id = sess[v].id
           /\ sess'[w].op = sess[w].op /\ sess'[w].id = sess[w].id
  BY <1>4 DEF SoleInserts
<1> QED BY <1>1, <1>2, <1>3, <1>4, SameEdit

-----------------------------------------------------------------------------
(* The tree.                                                               *)

\* What an edit under way knows of the tree P.
Rooted(P, s) ==
  /\ s.op = "create_category" => P[s.id] = "absent" /\ (s.new # None => Present(P, s.new))
  /\ s.op = "create_product" => Present(P, s.new.category_id)
  /\ s.op \in {"update_category", "move", "delete"} => P[s.id] # "absent"
  /\ s.op = "move" /\ s.new # None =>
       /\ s.new # s.id /\ P[s.new] # "absent"
       /\ s.fresh => s.new \notin Reach(P, s.id)

TreeInv ==
  /\ ReferencesResolve
  /\ "tree" \notin raced => Forest(categories)
  /\ \A w \in Workers : Rooted(categories, sess[w])

LEMMA RootedIdle == ASSUME NEW P PROVE Rooted(P, Idle)
BY DEF Rooted, Idle

LEMMA RootedDemoted ==
  ASSUME NEW P, NEW s, NEW t, Shaped(s), Rooted(P, s), Demoted(s, t)
  PROVE  Rooted(P, t)
BY DemotedShape DEF Rooted

LEMMA RootedNew ==
  ASSUME ShapeInv, NEW s, NewSession(s)
  PROVE  Rooted(categories, s)
<1>1. ASSUME NEW c, Exists(c) PROVE categories[c] # "absent"
  BY <1>1, CatalogNames DEF Exists, Present
<1>2. ASSUME NEW c \in Categories, NEW parent \in Categories \cup {None},
             s = [Idle EXCEPT !.pc = "flushed", !.op = "create_category", !.id = c,
                              !.new = parent],
             categories[c] = "absent", parent # None => Exists(parent)
      PROVE  Rooted(categories, s)
  BY <1>2 DEF Rooted, Idle, Exists
<1>3. ASSUME NEW c \in Categories, Exists(c),
             s = [Idle EXCEPT !.pc = "checked", !.op = "update_category", !.id = c]
      PROVE  Rooted(categories, s)
  BY <1>1, <1>3 DEF Rooted, Idle
<1>4. ASSUME NEW c \in Categories, NEW parent \in Categories \cup {None}, Exists(c),
             parent # None => parent # c /\ Exists(parent),
             s = [Idle EXCEPT !.pc = IF parent = None THEN "checked" ELSE "loaded",
                              !.op = "move", !.id = c, !.loaded = categories[c],
                              !.new = parent, !.fresh = parent = None]
      PROVE  Rooted(categories, s)
  <2>1. s.op = "move" /\ s.id = c /\ s.new = parent /\ s.fresh = (parent = None)
    BY <1>4 DEF Idle
  <2> QED BY <1>1, <1>4, <2>1 DEF Rooted
<1>5. ASSUME NEW c \in Categories, Exists(c),
             s = [Idle EXCEPT !.pc = "checked", !.op = "delete", !.id = c]
      PROVE  Rooted(categories, s)
  BY <1>1, <1>5 DEF Rooted, Idle
<1>6. ASSUME NEW p \in Products, NEW row \in ProductRows, Exists(row.category_id),
             s = [Idle EXCEPT !.pc = "flushed", !.op = "create_product", !.id = p, !.new = row]
      PROVE  Rooted(categories, s)
  BY <1>6 DEF Rooted, Idle, Exists
<1>7. ASSUME s.op \in {"update_product", "read"} PROVE Rooted(categories, s)
  BY <1>7 DEF Rooted
<1>8. ASSUME NEW p \in Products, NEW row \in ProductRows,
             s = [Idle EXCEPT !.pc = "checked", !.op = "update_product", !.id = p,
                              !.loaded = products[p], !.new = row, !.fresh = TRUE]
      PROVE  Rooted(categories, s)
  BY <1>7, <1>8 DEF Idle
<1>9. ASSUME NEW k \in CacheKeys,
             s = [Idle EXCEPT !.pc = "read", !.op = "read", !.id = k, !.version = version[k]]
      PROVE  Rooted(categories, s)
  BY <1>7, <1>9 DEF Idle
<1> QED BY <1>2, <1>3, <1>4, <1>5, <1>6, <1>8, <1>9 DEF NewSession

\* The tree as it is: what sessions know of it survives their own steps.
LEMMA RootedStep ==
  ASSUME ShapeInv, StepCases, UNCHANGED categories, NEW v \in Workers,
         Rooted(categories, sess[v])
  PROVE  Rooted(categories, sess'[v])
<1>1. Shaped(sess[v])
  BY DEF ShapeInv
<1>2. CASE Demoted(sess[v], sess'[v])
  BY <1>1, <1>2, RootedDemoted
<1>3. CASE sess'[v] = Idle
  BY <1>3, RootedIdle
<1>4. CASE NewSession(sess'[v])
  BY <1>4, RootedNew
<1>5. CASE sess[v].pc = "loaded" /\ CheckMove(v)
           /\ sess'[v] = [sess[v] EXCEPT !.pc = "checked", !.fresh = TRUE]
  <2>1. sess[v].op = "move" /\ sess[v].op \in Edits
    BY <1>1, <1>5 DEF Shaped, Edits
  <2>2. sess'[v].op = "move" /\ sess'[v].id = sess[v].id /\ sess'[v].new = sess[v].new
    BY <1>1, <1>5, <2>1, CheckedShape
  <2>3. sess[v].new \notin Reach(categories, sess[v].id)
    BY <1>5 DEF CheckMove, get_descendant_ids
  <2> QED BY <2>1, <2>2, <2>3 DEF Rooted
<1>6. CASE sess[v].op \in Edits /\ sess'[v] = [sess[v] EXCEPT !.pc = "invalidated"]
  <2>1. /\ sess'[v].op = sess[v].op /\ sess'[v].id = sess[v].id
        /\ sess'[v].new = sess[v].new /\ sess'[v].fresh = sess[v].fresh
    BY <1>1, <1>6, AdvanceShape
  <2> QED BY <2>1 DEF Rooted
<1> QED BY <1>2, <1>3, <1>4, <1>5, <1>6, SessionCases

\* Another worker's commits.
LEMMA RootedLeaf ==
  ASSUME NEW P \in [Categories -> Parents], NEW c \in Categories, NEW q \in Categories \cup {None},
         Resolved(P), P[c] = "absent", q # None => Present(P, q),
         NEW s, Shaped(s), Rooted(P, s), s.op \in Creates => s.id # c
  PROVE  Rooted([P EXCEPT ![c] = q], s)
<1> DEFINE N == [P EXCEPT ![c] = q]
<1>1. q \notin {"absent"}
  BY CatalogNames
<1>2. ASSUME NEW x \in Categories, Present(P, x) PROVE Present(N, x)
  BY <1>2 DEF Present
<1>3. ASSUME NEW x \in Categories, P[x] # "absent" PROVE N[x] # "absent"
  BY <1>1, <1>3
<1>4. CASE s.op = "create_category"
  <2>1. s.id \in Categories /\ s.new \in Categories \cup {None}
    BY <1>4 DEF Shaped, CategoryEdits
  <2>2. s.id # c
    BY <1>4 DEF Creates
  <2> QED BY <1>2, <1>4, <2>1, <2>2 DEF Rooted
<1>5. CASE s.op = "create_product"
  <2>1. s.new.category_id \in Categories
    BY <1>5 DEF Shaped, ProductEdits, ProductRows
  <2> QED BY <1>2, <1>5, <2>1 DEF Rooted
<1>6. CASE s.op = "move"
  <2>1. s.id \in Categories /\ s.new \in Categories \cup {None} /\ P[s.id] # "absent"
    BY <1>6 DEF Shaped, CategoryEdits, Rooted
  <2>2. ASSUME s.new # None
        PROVE  /\ s.new # s.id /\ N[s.new] # "absent"
               /\ s.fresh => s.new \notin Reach(N, s.id)
    <3>1. s.new # s.id /\ P[s.new] # "absent" /\ s.new \in Categories /\ s.new # c
      BY <1>6, <2>1, <2>2 DEF Rooted
    <3>2. ASSUME s.fresh PROVE s.new \notin Reach(N, s.id)
      BY <1>6, <2>1, <2>2, <3>1, <3>2, LeafKeepsReach DEF Rooted
    <3> QED BY <1>3, <3>1, <3>2
  <2> QED BY <1>3, <1>6, <2>1, <2>2 DEF Rooted
<1>7. CASE s.op \in {"update_category", "delete"}
  <2>1. s.id \in Categories /\ P[s.id] # "absent"
    BY <1>7 DEF Shaped, CategoryEdits, Rooted
  <2> QED BY <1>3, <1>7, <2>1 DEF Rooted
<1> QED BY <1>4, <1>5, <1>6, <1>7 DEF Rooted

LEMMA RootedDeletion ==
  ASSUME NEW P \in [Categories -> Parents], NEW c \in Categories, P[c] # "absent",
         NEW s, Shaped(s), Rooted(P, s),
         s.op = "create_category" => s.new # c,
         s.op = "create_product" => s.new.category_id # c
  PROVE  Rooted([P EXCEPT ![c] = "deleted"], s)
<1> DEFINE N == [P EXCEPT ![c] = "deleted"]
<1>2. ASSUME NEW x \in Categories, Present(P, x), x # c PROVE Present(N, x)
  BY <1>2 DEF Present
<1>3. ASSUME NEW x \in Categories, P[x] # "absent" PROVE N[x] # "absent"
  BY <1>3
<1>4. CASE s.op = "create_category"
  <2>1. s.id \in Categories /\ s.new \in Categories \cup {None}
    BY <1>4 DEF Shaped, CategoryEdits
  <2>2. s.id # c
    BY <1>4 DEF Rooted
  <2> QED BY <1>2, <1>4, <2>1, <2>2 DEF Rooted
<1>5. CASE s.op = "create_product"
  <2>1. s.new.category_id \in Categories
    BY <1>5 DEF Shaped, ProductEdits, ProductRows
  <2> QED BY <1>2, <1>5, <2>1 DEF Rooted
<1>6. CASE s.op = "move"
  <2>1. s.id \in Categories /\ s.new \in Categories \cup {None} /\ P[s.id] # "absent"
    BY <1>6 DEF Shaped, CategoryEdits, Rooted
  <2>2. ASSUME s.new # None
        PROVE  /\ s.new # s.id /\ N[s.new] # "absent"
               /\ s.fresh => s.new \notin Reach(N, s.id)
    <3>1. s.new # s.id /\ P[s.new] # "absent" /\ s.new \in Categories
      BY <1>6, <2>1, <2>2 DEF Rooted
    <3>2. ASSUME s.fresh PROVE s.new \notin Reach(N, s.id)
      BY <1>6, <2>1, <2>2, <3>1, <3>2, DeletionKeepsReach DEF Rooted
    <3> QED BY <1>3, <3>1, <3>2
  <2> QED BY <1>3, <1>6, <2>1, <2>2 DEF Rooted
<1>7. CASE s.op \in {"update_category", "delete"}
  <2>1. s.id \in Categories /\ P[s.id] # "absent"
    BY <1>7 DEF Shaped, CategoryEdits, Rooted
  <2> QED BY <1>3, <1>7, <2>1 DEF Rooted
<1> QED BY <1>4, <1>5, <1>6, <1>7 DEF Rooted

LEMMA RootedMove ==
  ASSUME NEW P \in [Categories -> Parents], NEW c \in Categories, NEW q \in Categories \cup {None},
         Present(P, c), NEW s, Shaped(s), Rooted(P, s),
         s.op = "move" /\ s.new # None => ~s.fresh
  PROVE  Rooted([P EXCEPT ![c] = q], s)
<1> DEFINE N == [P EXCEPT ![c] = q]
<1>1. q # "absent" /\ P[c] # "absent"
  BY CatalogNames DEF Present
<1>2. ASSUME NEW x \in Categories, Present(P, x) PROVE Present(N, x)
  BY <1>2 DEF Present
<1>3. ASSUME NEW x \in Categories, P[x] # "absent" PROVE N[x] # "absent"
  BY <1>1, <1>3
<1>4. CASE s.op = "create_category"
  <2>1. s.id \in Categories /\ s.new \in Categories \cup {None} /\ s.id # c
    BY <1>1, <1>4 DEF Shaped, CategoryEdits, Rooted
  <2> QED BY <1>2, <1>4, <2>1 DEF Rooted
<1>5. CASE s.op = "create_product"
  <2>1. s.new.category_id \in Categories
    BY <1>5 DEF Shaped, ProductEdits, ProductRows
  <2> QED BY <1>2, <1>5, <2>1 DEF Rooted
<1>6. CASE s.op \in {"move", "update_category", "delete"}
  <2>1. s.id \in Categories /\ P[s.id] # "absent" /\ s.new \in Categories \cup {None}
    BY <1>6 DEF Shaped, CategoryEdits, Rooted
  <2> QED BY <1>3, <1>6, <2>1 DEF Rooted
<1> QED BY <1>4, <1>5, <1>6 DEF Rooted

\* A step that keeps the tree and the products' categories.
LEMMA TreeKept ==
  ASSUME ShapeInv, TreeInv, StepCases, UNCHANGED categories,
         "tree" \notin raced' => "tree" \notin raced,
         \A p \in Products : products'[p] # None => Exists(products'[p].category_id)
  PROVE  TreeInv'
<1>1. ASSUME NEW v \in Workers PROVE Rooted(categories', sess'[v])
  BY RootedStep DEF TreeInv
<1>2. ReferencesResolve'
  <2>1. \A c \in Categories : categories[c] \in Categories => Exists(categories[c])
    BY DEF TreeInv, ReferencesResolve
  <2> QED BY <2>1 DEF ReferencesResolve, Exists, Present
<1>3. "tree" \notin raced' => Forest(categories')
  BY DEF TreeInv
<1> QED BY <1>1, <1>2, <1>3 DEF TreeInv

\* A step that changes the tree and leaves the products alone.
LEMMA TreeChanged ==
  ASSUME ShapeInv, TreeInv, UNCHANGED products,
         Resolved(categories'), "tree" \notin raced' => Forest(categories'),
         \A p \in Products : products[p] # None => Present(categories', products[p].category_id),
         \A v \in Workers : Rooted(categories', sess'[v])
  PROVE  TreeInv'
<1>1. ReferencesResolve'
  BY DEF ReferencesResolve, Resolved, Exists
<1> QED BY <1>1 DEF TreeInv

LEMMA TreeStep ==
  ASSUME ShapeInv, SoleInserts, TreeInv, StepCases PROVE TreeInv'
<1>0. /\ categories \in [Categories -> Parents]
      /\ products \in [Products -> ProductRows \cup {None}]
      /\ sess \in [Workers -> Sessions]
      /\ \A v \in Workers : Shaped(sess[v]) /\ Rooted(categories, sess[v])
      /\ Resolved(categories)
      /\ \A p \in Products : products[p] # None => Present(categories, products[p].category_id)
      /\ "tree" \notin raced => Forest(categories)
  BY DEF ShapeInv, CatalogTypeOK, TreeInv, ReferencesResolve, Resolved, Exists
<1>1. CASE UNCHANGED <<categories, products, raced>>
  BY <1>0, <1>1, TreeKept DEF Exists
<1>2. ASSUME NEW w \in Workers, CommitCreateCategory(w) PROVE TreeInv'
  <2> DEFINE c == sess[w].id
             q == sess[w].new
  <2>1. /\ c \in Categories /\ q \in Categories \cup {None}
        /\ categories[c] = "absent" /\ (q # None => Present(categories, q))
    BY <1>0, <1>2 DEF CommitCreateCategory, Ready, Shaped, Rooted, CategoryEdits
  <2>2. categories' = [categories EXCEPT ![c] = q] /\ UNCHANGED <<products, raced>>
        /\ sess' = [sess EXCEPT ![w] = Idle] /\ sess[w].op \in Creates
    BY <1>2 DEF CommitCreateCategory, End, Ready, Creates
  <2> HIDE DEF c, q
  <2>3. Resolved(categories') /\ ("tree" \notin raced' => Forest(categories'))
    BY <1>0, <2>1, <2>2, LeafKeepsForest
  <2>4. ASSUME NEW p \in Products, products[p] # None
        PROVE  Present(categories', products[p].category_id)
    <3>1. products[p].category_id \in Categories
          /\ Present(categories, products[p].category_id)
      BY <1>0, <2>4 DEF ProductRows
    <3> QED BY <1>0, <2>1, <2>2, <3>1 DEF Present
  <2>5. ASSUME NEW v \in Workers PROVE Rooted(categories', sess'[v])
    <3>1. CASE v = w
      BY <1>0, <2>2, <3>1, RootedIdle
    <3>2. CASE v # w
      <4>1. sess[v].op \in Creates => sess[v].id # c
        BY <2>2, <3>2 DEF SoleInserts, c
      <4>2. Rooted(categories', sess[v])
        BY <1>0, <2>1, <2>2, <4>1, RootedLeaf
      <4> QED BY <1>0, <2>2, <3>2, <4>2
    <3> QED BY <3>1, <3>2
  <2> QED BY <2>2, <2>3, <2>4, <2>5, TreeChanged
<1>3. ASSUME NEW w \in Workers, CommitDelete(w) PROVE TreeInv'
  <2> DEFINE c == sess[w].id
  <2>1. /\ c \in Categories /\ categories[c] # "absent" /\ Children(categories, c) = {}
        /\ \A p \in Products : products[p] # None => products[p].category_id # c
        /\ \A v \in Workers : /\ sess[v].op = "create_category" => sess[v].new # c
                              /\ sess[v].op = "create_product" => sess[v].new.category_id # c
    BY <1>0, <1>3 DEF CommitDelete, Ready, Shaped, Rooted, CategoryEdits, Unreferenced, AwaitedBy
  <2>2. categories' = [categories EXCEPT ![c] = "deleted"] /\ UNCHANGED <<products, raced>>
        /\ sess' = [sess EXCEPT ![w] = Idle]
    BY <1>3 DEF CommitDelete, End
  <2> HIDE DEF c
  <2>3. Resolved(categories') /\ ("tree" \notin raced' => Forest(categories'))
    BY <1>0, <2>1, <2>2, DeletionKeepsForest
  <2>4. ASSUME NEW p \in Products, products[p] # None
        PROVE  Present(categories', products[p].category_id)
    <3>1. /\ products[p].category_id \in Categories /\ products[p].category_id # c
          /\ Present(categories, products[p].category_id)
      BY <1>0, <2>1, <2>4 DEF ProductRows
    <3> QED BY <1>0, <2>1, <2>2, <3>1 DEF Present
  <2>5. ASSUME NEW v \in Workers PROVE Rooted(categories', sess'[v])
    <3>1. CASE v = w
      BY <1>0, <2>2, <3>1, RootedIdle
    <3>2. CASE v # w
      <4>1. Rooted(categories', sess[v])
        BY <1>0, <2>1, <2>2, RootedDeletion
      <4> QED BY <1>0, <2>2, <3>2, <4>1
    <3> QED BY <3>1, <3>2
  <2> QED BY <2>2, <2>3, <2>4, <2>5, TreeChanged
<1>4. ASSUME NEW w \in Workers, CommitMove(w) PROVE TreeInv'
  <2> DEFINE c == sess[w].id
             q == sess[w].new
  <2>1. /\ c \in Categories /\ q \in Categories \cup {None} /\ Present(categories, c)
        /\ q # None => /\ q # c /\ Present(categories, q)
                       /\ sess[w].fresh => q \notin Reach(categories, c)
    BY <1>0, <1>4 DEF CommitMove, Ready, Shaped, Rooted, CategoryEdits, Movable, Exists
  <2>2. categories' = [categories EXCEPT ![c] = q] /\ UNCHANGED products
        /\ raced' = IF sess[w].fresh THEN raced ELSE raced \cup {"tree"}
    BY <1>4 DEF CommitMove
  <2>3. Resolved(categories')
    BY <1>0, <2>1, <2>2, MoveKeepsResolved
  <2>4. ASSUME "tree" \notin raced' PROVE Forest(categories')
    <3>1. sess[w].fresh /\ Forest(categories)
      BY <1>0, <2>2, <2>4
    <3> HIDE DEF c, q
    <3> QED BY <1>0, <2>1, <2>2, <3>1, MoveKeepsForest
  <2>5. ASSUME NEW p \in Products, products[p] # None
        PROVE  Present(categories', products[p].category_id)
    <3>1. products[p].category_id \in Categories
          /\ Present(categories, products[p].category_id)
      BY <1>0, <2>5 DEF ProductRows
    <3> QED BY <1>0, <2>1, <2>2, <3>1 DEF Present
  <2>6. ASSUME NEW v \in Workers PROVE Rooted(categories', sess'[v])
    <3>1. CASE v = w
      BY <1>4, <3>1, RootedIdle, CommitSessions
    <3>2. CASE v # w
      <4>1. Demoted(sess[v], sess'[v]) /\ Shaped(sess'[v])
        BY <1>4, <3>2, CommitSessions
      <4>2. Rooted(categories, sess'[v])
        BY <1>0, <4>1, RootedDemoted
      <4>3. sess'[v].op = "move" /\ sess'[v].new # None => ~sess'[v].fresh
        <5>1. sess'[v] = IF sess[v].op = "move" /\ sess[v].new # None
                         THEN [sess[v] EXCEPT !.fresh = FALSE] ELSE sess[v]
          BY <1>4, <3>2 DEF CommitMove
        <5>2. CASE sess[v].op = "move" /\ sess[v].new # None
          BY <1>0, <5>1, <5>2, StaleShape
        <5>3. CASE ~(sess[v].op = "move" /\ sess[v].new # None)
          BY <5>1, <5>3
        <5> QED BY <5>2, <5>3
      <4> HIDE DEF c, q
      <4> QED BY <1>0, <2>1, <2>2, <4>1, <4>2, <4>3, RootedMove
    <3> QED BY <3>1, <3>2
  <2> QED BY <2>2, <2>3, <2>4, <2>5, <2>6, TreeChanged
<1>5. ASSUME NEW w \in Workers, CommitCreateProduct(w) PROVE TreeInv'
  <2>0. sess[w].new \in ProductRows
    BY <1>0, <1>5 DEF CommitCreateProduct, Ready, Shaped, ProductEdits
  <2>1. Exists(Stored(sess[w].new).category_id)
    BY <1>0, <1>5, <2>0, StoredShape DEF CommitCreateProduct, Ready, Rooted, Exists
  <2>2. UNCHANGED <<categories, raced>>
        /\ products' = [products EXCEPT ![sess[w].id] = Stored(sess[w].new)]
    BY <1>5 DEF CommitCreateProduct
  <2>3. ASSUME NEW p \in Products, products'[p] # None PROVE Exists(products'[p].category_id)
    BY <1>0, <2>1, <2>2, <2>3 DEF Exists
  <2> QED BY <2>2, <2>3, TreeKept
<1>6. ASSUME NEW w \in Workers, CommitUpdateProduct(w) PROVE TreeInv'
  <2> DEFINE row == Written(sess[w].loaded, sess[w].new, products[sess[w].id])
  <2>1. UNCHANGED categories /\ products' = [products EXCEPT ![sess[w].id] = Stored(row)]
        /\ CategoryKept(w) /\ ("tree" \notin raced' => "tree" \notin raced)
    BY <1>6 DEF CommitUpdateProduct
  <2>2. /\ sess[w].id \in Products /\ products[sess[w].id] # None
        /\ sess[w].loaded \in ProductRows /\ sess[w].new \in ProductRows
    BY <1>0, <1>6 DEF CommitUpdateProduct, Ready, Shaped, ProductEdits, ShapeInv, Kept
  <2>3. Exists(row.category_id)
    BY <1>0, <2>1, <2>2 DEF Written, Assigned, CategoryKept, Exists
  <2>4. row \in ProductRows
    BY <1>0, <2>2 DEF Written, Assigned, ProductRows
  <2> HIDE DEF row
  <2>5. Exists(Stored(row).category_id)
    BY <2>3, <2>4, StoredShape
  <2>6. ASSUME NEW p \in Products, products'[p] # None PROVE Exists(products'[p].category_id)
    BY <1>0, <2>1, <2>5, <2>6 DEF Exists
  <2> QED BY <2>1, <2>6, TreeKept
<1>7. ASSUME NEW w \in Workers, Request(w) PROVE UNCHANGED <<categories, products, raced>>
  BY <1>7, RequestBegins
<1> QED BY <1>1, <1>2, <1>3, <1>4, <1>5, <1>6, <1>7 DEF StepCases, Ends, CheckMove, Invalidate

-----------------------------------------------------------------------------
(* The products.                                                           *)

\* What an edit under way knows of the products R; X is what has been raced.
Priced(R, X, s) ==
  /\ s.op = "create_product" => R[s.id] = None /\ NotAbovePrice(s.new)
  /\ s.op = "update_product" /\ s.fresh =>
       s.loaded = R[s.id] /\ (s.id \notin X => NotAbovePrice(s.new))

ProductInv ==
  /\ DiscountUnlessRaced
  /\ \A w \in Workers : Priced(products, raced, sess[w])

LEMMA PricedIdle == ASSUME NEW R, NEW X PROVE Priced(R, X, Idle)
BY DEF Priced, Idle

LEMMA PricedDemoted ==
  ASSUME NEW R, NEW X, NEW s, NEW t, Shaped(s), Priced(R, X, s), Demoted(s, t)
  PROVE  Priced(R, X, t)
BY DemotedShape DEF Priced

LEMMA PricedNew ==
  ASSUME ShapeInv, ProductInv, NEW s, NewSession(s)
  PROVE  Priced(products, raced, s)
<1>1. ASSUME NEW p \in Products, NEW row \in ProductRows, products[p] = None, NotAbovePrice(row),
             s = [Idle EXCEPT !.pc = "flushed", !.op = "create_product", !.id = p, !.new = row]
      PROVE  Priced(products, raced, s)
  BY <1>1 DEF Priced, Idle
<1>2. ASSUME NEW p \in Products, NEW row \in ProductRows, products[p] # None,
             p \notin raced /\ NotAbovePrice(products[p]) => NotAbovePrice(row),
             s = [Idle EXCEPT !.pc = "checked", !.op = "update_product", !.id = p,
                              !.loaded = products[p], !.new = row, !.fresh = TRUE]
      PROVE  Priced(products, raced, s)
  <2>1. s.op = "update_product" /\ s.id = p /\ s.loaded = products[p] /\ s.new = row
    BY <1>2 DEF Idle
  <2> QED BY <1>2, <2>1 DEF Priced, ProductInv, DiscountUnlessRaced
<1>3. ASSUME s.op \notin ProductEdits PROVE Priced(products, raced, s)
  BY <1>3 DEF Priced, ProductEdits
<1>4. ASSUME NEW c \in Categories, NEW parent \in Categories \cup {None},
             s = [Idle EXCEPT !.pc = "flushed", !.op = "create_category", !.id = c,
                              !.new = parent]
      PROVE  Priced(products, raced, s)
  BY <1>3, <1>4 DEF Idle, ProductEdits
<1>5. ASSUME NEW c \in Categories,
             s = [Idle EXCEPT !.pc = "checked", !.op = "update_category", !.id = c]
      PROVE  Priced(products, raced, s)
  BY <1>3, <1>5 DEF Idle, ProductEdits
<1>6. ASSUME NEW c \in Categories, NEW parent \in Categories \cup {None},
             s = [Idle EXCEPT !.pc = IF parent = None THEN "checked" ELSE "loaded",
                              !.op = "move", !.id = c, !.loaded = categories[c],
                              !.new = parent, !.fresh = parent = None]
      PROVE  Priced(products, raced, s)
  BY <1>3, <1>6 DEF Idle, ProductEdits
<1>7. ASSUME NEW c \in Categories,
             s = [Idle EXCEPT !.pc = "checked", !.op = "delete", !.id = c]
      PROVE  Priced(products, raced, s)
  BY <1>3, <1>7 DEF Idle, ProductEdits
<1>8. ASSUME NEW k \in CacheKeys,
             s = [Idle EXCEPT !.pc = "read", !.op = "read", !.id = k, !.version = version[k]]
      PROVE  Priced(products, raced, s)
  BY <1>3, <1>8 DEF Idle, ProductEdits
<1> QED BY <1>1, <1>2, <1>4, <1>5, <1>6, <1>7, <1>8 DEF NewSession

LEMMA PricedStep ==
  ASSUME ShapeInv, ProductInv, StepCases, UNCHANGED <<products, raced>>, NEW v \in Workers
  PROVE  Priced(products, raced, sess'[v])
<1>1. Shaped(sess[v]) /\ Priced(products, raced, sess[v])
  BY DEF ShapeInv, ProductInv
<1>2. CASE Demoted(sess[v], sess'[v])
  BY <1>1, <1>2, PricedDemoted
<1>3. CASE sess'[v] = Idle
  BY <1>3, PricedIdle
<1>4. CASE NewSession(sess'[v])
  BY <1>4, PricedNew
<1>5. CASE sess[v].pc = "loaded"
           /\ sess'[v] = [sess[v] EXCEPT !.pc = "checked", !.fresh = TRUE]
  <2>1. sess[v].op = "move" /\ sess[v].op \in Edits
    BY <1>1, <1>5 DEF Shaped, Edits
  <2>2. sess'[v].op = "move"
    BY <1>1, <1>5, <2>1, CheckedShape
  <2> QED BY <2>2 DEF Priced
<1>6. CASE sess[v].op \in Edits /\ sess'[v] = [sess[v] EXCEPT !.pc = "invalidated"]
  <2>1. /\ sess'[v].op = sess[v].op /\ sess'[v].id = sess[v].id
        /\ sess'[v].new = sess[v].new /\ sess'[v].fresh = sess[v].fresh
        /\ sess'[v].loaded = sess[v].loaded
    BY <1>1, <1>6, AdvanceShape
  <2> QED BY <1>1, <2>1 DEF Priced
<1> QED BY <1>2, <1>3, <1>4, <1>5, <1>6, SessionCases

\* The whole row is written when nobody has changed it since it was loaded.
LEMMA FreshWritesNew ==
  ASSUME NEW loaded \in ProductRows, NEW new \in ProductRows
  PROVE  Written(loaded, new, loaded) = new
BY DEF Written, Assigned, ProductRows

LEMMA ProductStep ==
  ASSUME ShapeInv, SoleInserts, ProductInv, StepCases PROVE ProductInv'
<1>0. /\ products \in [Products -> ProductRows \cup {None}]
      /\ sess \in [Workers -> Sessions]
      /\ \A v \in Workers : Shaped(sess[v]) /\ Priced(products, raced, sess[v])
      /\ \A p \in Products \ raced : products[p] # None => NotAbovePrice(products[p])
      /\ "tree" \notin Products
  BY CatalogNames DEF ShapeInv, CatalogTypeOK, ProductInv, DiscountUnlessRaced
<1>1. CASE UNCHANGED <<products, raced>>
  BY <1>0, <1>1, PricedStep DEF ProductInv, DiscountUnlessRaced
<1>2. ASSUME NEW w \in Workers, CommitMove(w) PROVE ProductInv'
  <2>1. UNCHANGED products /\ \A p \in Products : p \in raced' <=> p \in raced
    BY <1>0, <1>2 DEF CommitMove
  <2>2. ASSUME NEW v \in Workers PROVE Priced(products', raced', sess'[v])
    <3>1. Priced(products, raced, sess'[v]) /\ Shaped(sess'[v])
      BY <1>0, <1>2, CommitSessions, PricedDemoted, PricedIdle
    <3>2. sess'[v].op = "update_product" => sess'[v].id \in Products
      BY <3>1 DEF Shaped, ProductEdits
    <3> QED BY <2>1, <3>1, <3>2 DEF Priced
  <2> QED BY <1>0, <2>1, <2>2 DEF ProductInv, DiscountUnlessRaced
<1>3. ASSUME NEW w \in Workers, CommitCreateProduct(w) PROVE ProductInv'
  <2> DEFINE p == sess[w].id
             row == Stored(sess[w].new)
  <2>1. /\ p \in Products /\ row \in ProductRows /\ products[p] = None /\ NotAbovePrice(row)
        /\ sess[w].op \in Creates
    BY <1>0, <1>3, StoredShape
       DEF CommitCreateProduct, Ready, Shaped, ProductEdits, Priced, Creates
  <2>2. products' = [products EXCEPT ![p] = row] /\ UNCHANGED raced
        /\ sess' = [sess EXCEPT ![w] = Idle]
    BY <1>3 DEF CommitCreateProduct, End
  <2>3. ASSUME NEW v \in Workers PROVE Priced(products', raced', sess'[v])
    <3>1. CASE v = w
      BY <1>0, <2>2, <3>1, PricedIdle
    <3>2. CASE v # w
      <4>1. sess[v].op = "create_product" => sess[v].id # p
        BY <2>1, <3>2 DEF SoleInserts, Creates
      <4>2. sess[v].op = "update_product" => sess[v].id # p
        BY <2>1 DEF ShapeInv, Kept
      <4>3. sess[v].op \in ProductEdits => products'[sess[v].id] = products[sess[v].id]
        BY <1>0, <2>2, <4>1, <4>2 DEF Shaped, ProductEdits
      <4>4. sess'[v] = sess[v]
        BY <1>0, <2>2, <3>2
      <4> QED BY <1>0, <2>2, <4>3, <4>4 DEF Priced, ProductEdits
    <3> QED BY <3>1, <3>2
  <2>4. ASSUME NEW x \in Products \ raced', products'[x] # None
        PROVE  NotAbovePrice(products'[x])
    <3> HIDE DEF row
    <3> QED BY <1>0, <2>1, <2>2, <2>4
  <2>5. DiscountUnlessRaced'
    BY <2>4 DEF DiscountUnlessRaced, NotAbovePrice
  <2> QED BY <2>3, <2>5 DEF ProductInv
<1>4. ASSUME NEW w \in Workers, CommitUpdateProduct(w) PROVE ProductInv'
  <2> DEFINE p == sess[w].id
             row == Stored(Written(sess[w].loaded, sess[w].new, products[p]))
  <2>1. /\ p \in Products /\ products[p] # None /\ sess[w].op = "update_product"
        /\ sess[w].loaded \in ProductRows /\ sess[w].new \in ProductRows
    BY <1>0, <1>4 DEF CommitUpdateProduct, Ready, Shaped, ProductEdits, ShapeInv, Kept
  <2>2. products' = [products EXCEPT ![p] = row]
        /\ raced' = IF sess[w].fresh THEN raced ELSE raced \cup {p}
    BY <1>4 DEF CommitUpdateProduct
  <2>3. ASSUME p \notin raced' PROVE NotAbovePrice(row)
    <3>1. sess[w].fresh /\ p \notin raced
      BY <2>2, <2>3
    <3>2. sess[w].loaded = products[p] /\ NotAbovePrice(sess[w].new)
      BY <1>0, <2>1, <3>1 DEF Priced
    <3>3. row = Stored(sess[w].new)
      BY <2>1, <3>2, FreshWritesNew
    <3> HIDE DEF row
    <3> QED BY <2>1, <3>2, <3>3, StoredShape
  <2>4. ASSUME NEW v \in Workers PROVE Priced(products', raced', sess'[v])
    <3>1. CASE v = w
      BY <1>4, <3>1, CommitSessions, PricedIdle
    <3>2. CASE v # w /\ sess[v].id # p
      <4>1. sess'[v] = sess[v]
        BY <1>4, <3>2 DEF CommitUpdateProduct
      <4>2. sess[v].op \in ProductEdits => products'[sess[v].id] = products[sess[v].id]
        BY <1>0, <2>2, <3>2 DEF Shaped
      <4>3. sess[v].id \notin raced' => sess[v].id \notin raced
        BY <2>2
      <4>4. Priced(products, raced, sess[v])
        BY <1>0
      <4> HIDE DEF p, row
      <4> QED BY <4>1, <4>2, <4>3, <4>4 DEF Priced, ProductEdits
    <3>3. CASE v # w /\ sess[v].id = p
      <4>1. sess'[v] = [sess[v] EXCEPT !.fresh = FALSE]
        BY <1>4, <3>3 DEF CommitUpdateProduct
      <4>2. sess'[v].op = sess[v].op /\ ~sess'[v].fresh
        BY <1>0, <4>1, StaleShape
      <4>3. sess[v].op # "create_product"
        BY <1>0, <2>1, <3>3 DEF Priced
      <4> QED BY <4>2, <4>3 DEF Priced
    <3> QED BY <3>1, <3>2, <3>3
  <2>5. ASSUME NEW x \in Products \ raced', products'[x] # None
        PROVE  NotAbovePrice(products'[x])
    <3> HIDE DEF row
    <3>1. CASE x = p
      BY <1>0, <2>2, <2>3, <3>1
    <3>2. CASE x # p
      BY <1>0, <2>2, <2>5, <3>2
    <3> QED BY <3>1, <3>2
  <2>6. DiscountUnlessRaced'
    BY <2>5 DEF DiscountUnlessRaced, NotAbovePrice
  <2> QED BY <2>4, <2>6 DEF ProductInv
<1>5. ASSUME NEW w \in Workers, Request(w) PROVE UNCHANGED <<products, raced>>
  BY <1>5, RequestBegins
<1> QED BY <1>1, <1>2, <1>3, <1>4, <1>5
        DEF StepCases, Ends, CheckMove, Invalidate, CommitCreateCategory, CommitDelete

-----------------------------------------------------------------------------
(* The cache.                                                              *)

\* From its invalidation to its commit an edit's keys hold nothing but what
\* readers have stored since.
CacheInv ==
  /\ StaleOnlyByRace
  /\ \A w \in Workers : sess[w].pc = "invalidated" =>
       \A k \in Keys(w) : cache[k] # None => cache[k].raced

LEMMA KeysAreKeys ==
  ASSUME ShapeInv, NEW w \in Workers, sess[w].pc = "invalidated"
  PROVE  Keys(w) \subseteq CacheKeys
BY DEF ShapeInv, Keys, CacheKeys

\* A step that leaves the cache and the versions alone.
LEMMA CacheUntouched ==
  ASSUME CacheInv, UNCHANGED <<cache, version>>,
         \A v \in Workers : sess'[v].pc = "invalidated" =>
           sess[v].pc = "invalidated" /\ sess'[v].id = sess[v].id
  PROVE  CacheInv'
<1>1. StaleOnlyByRace'
  BY DEF CacheInv, StaleOnlyByRace
<1>2. ASSUME NEW v \in Workers, sess'[v].pc = "invalidated", NEW k \in Keys(v)',
             cache'[k] # None
      PROVE  cache'[k].raced
  BY <1>2 DEF CacheInv, Keys
<1> QED BY <1>1, <1>2 DEF CacheInv

\* A commit: what its keys hold has been stored by a racing reader.
LEMMA CacheAtCommit ==
  ASSUME ShapeInv, CacheInv, NEW w \in Workers, sess[w].pc = "invalidated", Bump(w),
         UNCHANGED cache,
         \A v \in Workers : sess'[v].pc = "invalidated" =>
           sess[v].pc = "invalidated" /\ sess'[v].id = sess[v].id
  PROVE  CacheInv'
<1>1. ASSUME NEW k \in CacheKeys, cache'[k] # None, ~cache'[k].raced
      PROVE  cache'[k].version.rows = version'[k].rows
  <2>1. cache[k].version.rows = version[k].rows
    BY <1>1 DEF CacheInv, StaleOnlyByRace
  <2>2. k \notin Keys(w)
    BY <1>1 DEF CacheInv
  <2>3. version'[k] = version[k]
    BY <2>2 DEF Bump, Keys
  <2> QED BY <2>1, <2>3
<1>2. ASSUME NEW v \in Workers, sess'[v].pc = "invalidated", NEW k \in Keys(v)',
             cache'[k] # None
      PROVE  cache'[k].raced
  BY <1>2 DEF CacheInv, Keys
<1> QED BY <1>1, <1>2 DEF CacheInv, StaleOnlyByRace

\* No session but the one that has just been invalidated becomes so.
LEMMA StillInvalidated ==
  ASSUME ShapeInv, StepCases, NEW v \in Workers, sess'[v].pc = "invalidated", ~Invalidate(v)
  PROVE  sess[v].pc = "invalidated" /\ sess'[v].id = sess[v].id
<1>1. Shaped(sess[v])
  BY DEF ShapeInv
<1>2. CASE Demoted(sess[v], sess'[v])
  BY <1>1, <1>2, DemotedShape
<1>3. sess'[v] # Idle
  BY DEF Idle
<1>4. ~NewSession(sess'[v])
  BY DEF NewSession, Idle
<1>5. CASE sess[v].pc = "loaded"
           /\ sess'[v] = [sess[v] EXCEPT !.pc = "checked", !.fresh = TRUE]
  <2>1. sess[v].op \in Edits
    BY <1>1, <1>5 DEF Shaped, Edits
  <2> QED BY <1>1, <1>5, <2>1, CheckedShape
<1> QED BY <1>2, <1>3, <1>4, <1>5, SessionCases

LEMMA CacheStep ==
  ASSUME ShapeInv, CacheInv, [Next]_vars PROVE CacheInv'
<1>0. /\ cache \in [CacheKeys -> Entries \cup {None}]
      /\ sess \in [Workers -> Sessions]
      /\ \A v \in Workers : Shaped(sess[v])
      /\ StepCases
  BY NextCases DEF ShapeInv, CatalogTypeOK
<1>1. ASSUME NEW w \in Workers, Invalidate(w) PROVE CacheInv'
  <2>1. sess' = [sess EXCEPT ![w] = [sess[w] EXCEPT !.pc = "invalidated"]]
        /\ cache' = [k \in CacheKeys |-> IF k \in Keys(w) THEN None ELSE cache[k]]
        /\ UNCHANGED version
    BY <1>1 DEF Invalidate
  <2>2. ASSUME NEW k \in CacheKeys, cache'[k] # None, ~cache'[k].raced
        PROVE  cache'[k].version.rows = version'[k].rows
    BY <2>1, <2>2 DEF CacheInv, StaleOnlyByRace
  <2>3. ASSUME NEW v \in Workers, sess'[v].pc = "invalidated", NEW k \in Keys(v)',
               cache'[k] # None
        PROVE  cache'[k].raced
    <3>1. sess'[v].id = sess[v].id
      BY <1>0, <2>1 DEF Sessions
    <3>2. k \in Keys(v) /\ k \in CacheKeys
      BY <2>3, <3>1 DEF Keys, CacheKeys
    <3>3. v # w /\ cache'[k] = cache[k]
      BY <2>1, <2>3, <3>2
    <3>4. sess[v].pc = "invalidated"
      BY <1>0, <2>1, <2>3, <3>3
    <3> QED BY <2>3, <3>2, <3>3, <3>4 DEF CacheInv
  <2> QED BY <2>2, <2>3 DEF CacheInv, StaleOnlyByRace
<1>2. CASE \A w \in Workers : ~Invalidate(w)
  <2>1. \A v \in Workers : sess'[v].pc = "invalidated" =>
          sess[v].pc = "invalidated" /\ sess'[v].id = sess[v].id
    BY <1>0, <1>2, StillInvalidated
  <2>2. CASE UNCHANGED <<cache, version>>
    BY <2>1, <2>2, CacheUntouched
  <2>3. ASSUME NEW w \in Workers, sess[w].pc = "invalidated", Bump(w), UNCHANGED cache
        PROVE  CacheInv'
    BY <2>1, <2>3, CacheAtCommit
  <2>4. ASSUME NEW k \in CacheKeys, Expire(k) PROVE CacheInv'
    <3>1. UNCHANGED version /\ \A j \in CacheKeys : cache'[j] # None => cache'[j] = cache[j]
      BY <1>0, <2>4 DEF Expire
    <3>2. StaleOnlyByRace'
      BY <3>1 DEF CacheInv, StaleOnlyByRace
    <3>3. ASSUME NEW v \in Workers, sess'[v].pc = "invalidated", NEW j \in Keys(v)',
                 cache'[j] # None
          PROVE  cache'[j].raced
      BY <2>1, <3>1, <3>3 DEF CacheInv, Keys, CacheKeys
    <3> QED BY <3>2, <3>3 DEF CacheInv
  <2>5. ASSUME NEW w \in Workers, Fill(w) PROVE CacheInv'
    <3> DEFINE k == sess[w].id
               r == Changing(k) \/ sess[w].version.rows # version[k].rows
    <3>1. cache' = [cache EXCEPT ![k] = [version |-> sess[w].version, raced |-> r]]
          /\ UNCHANGED version
      BY <2>5 DEF Fill
    <3>2. k \in CacheKeys
      BY <1>0, <2>5 DEF Fill, Shaped
    <3>3. cache'[k].version = sess[w].version /\ cache'[k].raced = r
      BY <1>0, <3>1, <3>2
    <3>4. \A j \in CacheKeys : j # k => cache'[j] = cache[j]
      BY <1>0, <3>1
    <3>5. ASSUME NEW j \in CacheKeys, cache'[j] # None, ~cache'[j].raced
          PROVE  cache'[j].version.rows = version'[j].rows
      <4>1. CASE j = k
        BY <3>1, <3>3, <3>5, <4>1
      <4>2. CASE j # k
        BY <3>1, <3>4, <3>5, <4>2 DEF CacheInv, StaleOnlyByRace
      <4> QED BY <4>1, <4>2
    <3>6. ASSUME NEW v \in Workers, sess'[v].pc = "invalidated", NEW j \in Keys(v)',
                 cache'[j] # None
          PROVE  cache'[j].raced
      <4>1. sess[v].pc = "invalidated" /\ j \in Keys(v) /\ j \in CacheKeys
        BY <2>1, <3>6 DEF Keys, CacheKeys
      <4>2. CASE j = k
        BY <3>3, <4>1, <4>2 DEF Changing
      <4>3. CASE j # k
        BY <3>4, <3>6, <4>1, <4>3 DEF CacheInv
      <4> QED BY <4>2, <4>3
    <3> QED BY <3>5, <3>6 DEF CacheInv, StaleOnlyByRace
  <2>6. ASSUME NEW w \in Workers, Request(w) PROVE UNCHANGED <<cache, version>>
    BY <2>6, RequestBegins
  <2>7. CASE UNCHANGED vars
    BY <2>2, <2>7 DEF vars
  <2>8. ASSUME NEW p \in Products, MoveStock(p) PROVE CacheInv'
    <3>1. UNCHANGED cache /\ \A k \in CacheKeys : version'[k].rows = version[k].rows
      <4>1. version \in [CacheKeys -> Versions]
        BY DEF ShapeInv, CatalogTypeOK
      <4>2. ASSUME NEW k \in CacheKeys
            PROVE  [version[k] EXCEPT !.stock = @ + 1].rows = version[k].rows
        BY <4>1 DEF Versions
      <4> QED BY <2>8, <4>2 DEF MoveStock
    <3>2. StaleOnlyByRace'
      BY <3>1 DEF CacheInv, StaleOnlyByRace
    <3>3. ASSUME NEW v \in Workers, sess'[v].pc = "invalidated", NEW k \in Keys(v)',
                 cache'[k] # None
          PROVE  cache'[k].raced
      BY <2>1, <3>1, <3>3 DEF CacheInv, Keys
    <3> QED BY <3>2, <3>3 DEF CacheInv
  <2>9. CASE Next
    BY <1>2, <2>2, <2>3, <2>4, <2>5, <2>6, <2>8, <2>9
       DEF Next, Step, Ready, CheckMove, RefuseMove, CommitCreateCategory,
           CommitUpdateCategory, CommitMove, CommitDelete, CommitCreateProduct,
           CommitUpdateProduct, CommitNothing, FlushFails, Abort
  <2> QED BY <2>7, <2>9
<1> QED BY <1>1, <1>2

-----------------------------------------------------------------------------
(* The theorems.                                                           *)

CatalogInv == ShapeInv /\ SoleInserts /\ TreeInv /\ ProductInv /\ CacheInv

LEMMA CatalogInit == Init => CatalogInv
<1> SUFFICES ASSUME Init PROVE CatalogInv
  OBVIOUS
<1>1. ShapeInv
  BY InitShape
<1>2. \A w \in Workers : sess[w] = Idle
  BY DEF Init
<1>3. SoleInserts
  BY <1>2 DEF SoleInserts, Idle, Creates
<1>4. TreeInv
  BY <1>2, InitialTree, InitialRows, RootedIdle DEF Init, TreeInv, ReferencesResolve, Exists
<1>5. ProductInv
  BY <1>2, InitialRows, PricedIdle DEF Init, ProductInv, DiscountUnlessRaced
<1>6. CacheInv
  <2>1. ASSUME NEW w \in Workers PROVE sess[w].pc # "invalidated"
    <3>1. sess[w].pc = "idle"
      BY <1>2 DEF Idle
    <3> QED BY <3>1
  <2>2. \A k \in CacheKeys : cache[k] = None
    BY DEF Init
  <2> QED BY <2>1, <2>2 DEF CacheInv, StaleOnlyByRace
<1> QED BY <1>1, <1>3, <1>4, <1>5, <1>6 DEF CatalogInv

LEMMA CatalogStep == CatalogInv /\ [Next]_vars => CatalogInv'
BY NextCases, ShapeStep, SoleStep, TreeStep, ProductStep, CacheStep DEF CatalogInv

\* The layered invariant holds of every behaviour of the catalogue.
THEOREM CatalogInvariantHolds == Spec => []CatalogInv
BY CatalogInit, CatalogStep, PTL DEF Spec

\* Every row, session and cache entry has its type: in particular an UPDATE
\* that leaves out the unchanged columns never leaves half a product.
THEOREM CatalogTypesHold == Spec => []CatalogTypeOK
<1>1. CatalogInv => CatalogTypeOK
  BY DEF CatalogInv, ShapeInv
<1> QED BY <1>1, CatalogInvariantHolds, PTL

\* No category and no product refers to a row that is gone, however the
\* requests of CategoryService and ProductService interleave.
THEOREM ReferencesHold == Spec => []ReferencesResolve
<1>1. CatalogInv => ReferencesResolve
  BY DEF CatalogInv, TreeInv
<1> QED BY <1>1, CatalogInvariantHolds, PTL

\* The categories stay a forest that get_tree shows as a whole, unless one
\* move is committed after another has changed the tree it was checked on.
THEOREM ForestHolds == Spec => []ForestUnlessRaced
<1>1. ASSUME CatalogInv, "tree" \notin raced
      PROVE  Forest(categories) /\ get_tree(categories) = {c \in Categories : Exists(c)}
  <2>1. categories \in [Categories -> Parents] /\ Resolved(categories) /\ Forest(categories)
    BY <1>1 DEF CatalogInv, ShapeInv, CatalogTypeOK, TreeInv, ReferencesResolve, Resolved, Exists
  <2> QED BY <2>1, TreeShowsAll DEF Exists
<1>2. CatalogInv => ForestUnlessRaced
  BY <1>1 DEF ForestUnlessRaced
<1> QED BY <1>2, CatalogInvariantHolds, PTL

\* No product is stored with a discount above its price, whatever fractions the
\* bodies carry and the columns round, unless one update is committed after
\* another has changed the row it was checked on.
THEOREM DiscountHolds == Spec => []DiscountUnlessRaced
<1>1. CatalogInv => DiscountUnlessRaced
  BY DEF CatalogInv, ProductInv
<1> QED BY <1>1, CatalogInvariantHolds, PTL

\* A cache entry that disagrees with the committed rows of the tree or of the
\* products was stored by a reader that overlapped the edit: the invalidations
\* of the edits alone miss nothing.  What moves the stock is not an edit.
THEOREM CacheHolds == Spec => []StaleOnlyByRace
<1>1. CatalogInv => StaleOnlyByRace
  BY DEF CatalogInv, CacheInv
<1> QED BY <1>1, CatalogInvariantHolds, PTL
=============================================================================
