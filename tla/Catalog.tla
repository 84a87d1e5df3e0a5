------------------------------ MODULE Catalog ------------------------------
(***************************************************************************)
(* The catalogue (catalog/): the category tree, the products, and the      *)
(* Redis cache in front of them, as several workers edit and read them     *)
(* with Postgres at READ COMMITTED.  Every check of the services is made   *)
(* on rows that were read without a lock; what is left to the database     *)
(* are the unique slugs, the foreign keys (ON DELETE RESTRICT) and         *)
(* parent_id <> id.  The cache is invalidated before the commit.           *)
(*                                                                         *)
(* A name in Categories or Products stands for one row for good: its slug  *)
(* and id.  The cache keeps no payload, only the version that was read: of *)
(* the rows, and of the stock that a product is shown with.                *)
(* Amounts are Decimals in tenths of a Toman, which is enough to tell what *)
(* is compared as sent and stored as rounded.                              *)
(* version, raced and the fields fresh and raced are history: no handler   *)
(* reads them.                                                             *)
(*                                                                         *)
(* Definitions marked FAULT are not part of the model: each is a plausible *)
(* mistake in the definition after it, used to see the properties fail.    *)
(***************************************************************************)
EXTENDS Naturals

CONSTANTS
  Workers,         \* requests served at the same time
  Categories,      \* rows that categories can ever have
  Products,        \* rows that products can ever have
  Lists,           \* the cached lists: featured and popular products
  Prices,          \* amounts of price and discount_price, in tenths
  InitialParents,  \* the tree to begin with
  InitialProducts, \* the products to begin with
  Bodies,          \* bodies of POST /admin/products
  Patches,         \* bodies of PATCH /admin/products: fields to new values
  MaxEdits,        \* edits and moves of stock in one behaviour (a bound)
  None             \* SQL's NULL; no row; no cache entry

\* A category's parent, None for a root; "absent" and "deleted": no row.
Parents == Categories \cup {None, "absent", "deleted"}
Present(P, c) == P[c] \in Categories \cup {None}

ProductRows ==
  [category_id : Categories, price : Prices, discount_price : Prices \cup {None},
   is_active : BOOLEAN]

\* NUMERIC(12, 0): the nearest whole Toman, half a Toman upwards.
Numeric(t) == 10 * ((t + 5) \div 10)

\* The columns price and discount_price of a row as it is stored.
Stored(row) ==
  [row EXCEPT !.price = Numeric(@), !.discount_price = IF @ = None THEN None ELSE Numeric(@)]

NotAbovePrice(row) == row.discount_price # None => row.discount_price <= row.price

\* Every nonempty set of categories has a member whose parent is outside it.
Forest(P) == \A S \in (SUBSET Categories) \ {{}} : \E c \in S : P[c] \notin S

ASSUME CatalogNames ==
  /\ Categories \cap (Products \cup Lists \cup {None, "tree", "absent", "deleted"}) = {}
  /\ Products \cap (Lists \cup {None, "tree"}) = {}
  /\ None \notin Lists \cup {"tree", "absent", "deleted"}
  /\ None \notin Prices /\ None \notin ProductRows
  /\ "tree" \notin Lists
ASSUME PricesAssumption == Prices \subseteq Nat /\ \A t \in Prices : Numeric(t) \in Prices
ASSUME InitialTree ==
  /\ InitialParents \in [Categories -> Parents]
  /\ Forest(InitialParents)
  /\ \A c \in Categories :
       InitialParents[c] \in Categories => Present(InitialParents, InitialParents[c])
ASSUME InitialRows ==
  /\ InitialProducts \in [Products -> ProductRows \cup {None}]
  /\ \A p \in Products : InitialProducts[p] # None =>
       /\ Present(InitialParents, InitialProducts[p].category_id)
       /\ Stored(InitialProducts[p]) = InitialProducts[p]
       /\ NotAbovePrice(InitialProducts[p])
ASSUME BodiesAssumption == Bodies \subseteq ProductRows
ASSUME CatalogBounds == MaxEdits \in Nat

VARIABLES
  categories,   \* parent_id of each committed row
  products,     \* the committed rows
  cache,        \* Redis
  sess,         \* what the workers' sessions have loaded and will write
  version,      \* how often the sources of each cache key have changed
  raced,        \* what was written from a row or tree that had changed since
  edits         \* edits begun, and moves of stock

vars == <<categories, products, cache, sess, version, raced, edits>>

-----------------------------------------------------------------------------
(* Types.                                                                  *)

CacheKeys == {"tree"} \cup Lists \cup Products

Edits == {"create_category", "update_category", "move", "delete",
          "create_product", "update_product"}

\* The rows of products or categories, and the rows of product_inventory.
Versions == [rows : Nat, stock : Nat]

\* raced: stored by a reader that overlapped an edit.
Entries == [version : Versions, raced : BOOLEAN]

\* op and id: the edit, or "read" and the key that was missed.
\* loaded, new: the parent or row as loaded, and as it will be written.
\* fresh: nobody has moved a category, or changed this product, since.
Values == Categories \cup {None} \cup ProductRows

Sessions ==
  [pc : {"idle", "loaded", "checked", "flushed", "invalidated", "read"},
   op : Edits \cup {"read", "none"}, id : Categories \cup CacheKeys \cup {None},
   loaded : Values, new : Values, version : Versions, fresh : BOOLEAN]

Idle == [pc |-> "idle", op |-> "none", id |-> None, loaded |-> None, new |-> None,
         version |-> [rows |-> 0, stock |-> 0], fresh |-> FALSE]

\* One type invariant.
CatalogTypeOK ==
  /\ categories \in [Categories -> Parents]
  /\ products \in [Products -> ProductRows \cup {None}]
  /\ cache \in [CacheKeys -> Entries \cup {None}]
  /\ sess \in [Workers -> Sessions]
  /\ version \in [CacheKeys -> Versions]
  /\ raced \subseteq {"tree"} \cup Products
  /\ edits \in Nat

Init ==
  /\ categories = InitialParents
  /\ products = InitialProducts
  /\ cache = [k \in CacheKeys |-> None]
  /\ sess = [w \in Workers |-> Idle]
  /\ version = [k \in CacheKeys |-> [rows |-> 0, stock |-> 0]]
  /\ raced = {}
  /\ edits = 0

-----------------------------------------------------------------------------
(* The tree.                                                               *)

Exists(c) == Present(categories, c)
Children(P, c) == {x \in Categories : P[x] = c}

\* The worklist of get_descendant_ids, and the recursion of get_tree, reach
\* the least set that has the children of c and of all its members.
Reach(P, c) ==
  {x \in Categories :
     \A S \in SUBSET Categories :
       Children(P, c) \subseteq S /\ (\A y \in S : Children(P, y) \subseteq S) => x \in S}

\* FAULT: only the children are looked at.
DirectChildren(P, c) == Children(P, c)

get_descendant_ids(P, c) == Reach(P, c)

\* get_tree attaches what can be reached from the roots.
get_tree(P) == Reach(P, None)

-----------------------------------------------------------------------------
(* Sessions and the cache.                                                 *)

Begin(w, s) ==
  /\ sess[w].pc = "idle"
  /\ edits < MaxEdits
  /\ edits' = edits + 1
  /\ sess' = [sess EXCEPT ![w] = s]
  /\ UNCHANGED <<categories, products, cache, version, raced>>

End(w) == sess' = [sess EXCEPT ![w] = Idle]

\* An INSERT that is flushed and not committed yet: another INSERT of the
\* name, or a DELETE of what it refers to, waits for it.
Pending(id) ==
  \E w \in Workers : sess[w].op \in {"create_category", "create_product"} /\ sess[w].id = id
AwaitedBy(c) ==
  \E w \in Workers :
    \/ sess[w].op = "create_category" /\ sess[w].new = c
    \/ sess[w].op = "create_product" /\ sess[w].new.category_id = c

\* FAULT: the cached lists are forgotten.
KeysOfDetail(w) == IF sess[w].id \in Products THEN {sess[w].id} ELSE {"tree"}

\* _invalidate_tree_cache and _invalidate_product_cache.  (home:v1 is deleted
\* as well, and never set.)
Keys(w) == IF sess[w].id \in Products THEN {sess[w].id} \cup Lists ELSE {"tree"}

Invalidate(w) ==
  /\ sess[w].pc \in {"checked", "flushed"}
  /\ cache' = [k \in CacheKeys |-> IF k \in Keys(w) THEN None ELSE cache[k]]
  /\ sess' = [sess EXCEPT ![w].pc = "invalidated"]
  /\ UNCHANGED <<categories, products, version, raced, edits>>

\* The rows that the cached pages of w's edit are made from have changed.
Bump(w) ==
  version' = [k \in CacheKeys |->
    IF (IF sess[w].id \in Products THEN k \in {sess[w].id} \cup Lists ELSE k = "tree")
    THEN [version[k] EXCEPT !.rows = @ + 1] ELSE version[k]]

\* A checkout, a payment, a cancellation, a restock or an adjustment has
\* committed a change of available_stock.  None of them invalidates the pages
\* that show it.
MoveStock(p) ==
  /\ products[p] # None
  /\ edits < MaxEdits
  /\ edits' = edits + 1
  /\ version' = [k \in CacheKeys |->
       IF k \in {p} \cup Lists THEN [version[k] EXCEPT !.stock = @ + 1] ELSE version[k]]
  /\ UNCHANGED <<categories, products, cache, sess, raced>>

Ready(w, op) == sess[w].pc = "invalidated" /\ sess[w].op = op

\* A request that finds the entry missing reads the rows (a missing product
\* is a 404) and stores them.
Miss(w, k) ==
  /\ sess[w].pc = "idle"
  /\ cache[k] = None
  /\ k \in Products => products[k] # None
  /\ sess' = [sess EXCEPT ![w] =
       [Idle EXCEPT !.pc = "read", !.op = "read", !.id = k, !.version = version[k]]]
  /\ UNCHANGED <<categories, products, cache, version, raced, edits>>

\* An edit of k's source is between its invalidation and its commit.
Changing(k) == \E v \in Workers : sess[v].pc = "invalidated" /\ k \in Keys(v)

Fill(w) ==
  LET k == sess[w].id
  IN  /\ sess[w].pc = "read"
      /\ cache' = [cache EXCEPT ![k] =
           [version |-> sess[w].version,
            raced |-> Changing(k) \/ sess[w].version.rows # version[k].rows]]
      /\ End(w)
      /\ UNCHANGED <<categories, products, version, raced, edits>>

\* FAULT: entries are stored without a TTL.
ExpireNever(k) == FALSE /\ UNCHANGED vars

\* DEFAULT_TTL_SECONDS have passed.
Expire(k) ==
  /\ cache[k] # None
  /\ cache' = [cache EXCEPT ![k] = None]
  /\ UNCHANGED <<categories, products, sess, version, raced, edits>>

-----------------------------------------------------------------------------
(* CategoryService.                                                        *)

\* create: the row is flushed at once.
CreateCategory(w, c, parent) ==
  /\ categories[c] = "absent" /\ ~Pending(c)
  /\ parent # None => Exists(parent)
  /\ Begin(w, [Idle EXCEPT !.pc = "flushed", !.op = "create_category", !.id = c,
                           !.new = parent])

CommitCreateCategory(w) ==
  /\ Ready(w, "create_category")
  /\ categories' = [categories EXCEPT ![sess[w].id] = sess[w].new]
  /\ Bump(w) /\ End(w)
  /\ UNCHANGED <<products, cache, raced, edits>>

\* update: name, is_active, sort_order; the tree keeps its shape.
UpdateCategory(w, c) ==
  /\ Exists(c)
  /\ Begin(w, [Idle EXCEPT !.pc = "checked", !.op = "update_category", !.id = c])

CommitUpdateCategory(w) ==
  /\ Ready(w, "update_category")
  /\ Exists(sess[w].id)
  /\ Bump(w) /\ End(w)
  /\ UNCHANGED <<categories, products, cache, raced, edits>>

\* move, up to the descendants; a move to the root needs no more checks.
MoveCategory(w, c, parent) ==
  /\ Exists(c)
  /\ parent # None => parent # c /\ Exists(parent)
  /\ Begin(w, [Idle EXCEPT !.pc = IF parent = None THEN "checked" ELSE "loaded",
                           !.op = "move", !.id = c, !.loaded = categories[c],
                           !.new = parent, !.fresh = parent = None])

\* The tree is read again.  (The moved row keeps the parent it was loaded
\* with, which has no effect on its descendants.)
CheckMove(w) ==
  /\ sess[w].pc = "loaded"
  /\ sess[w].new \notin get_descendant_ids(categories, sess[w].id)
  /\ sess' = [sess EXCEPT ![w].pc = "checked", ![w].fresh = TRUE]
  /\ UNCHANGED <<categories, products, cache, version, raced, edits>>

\* ConflictError: the category would go under its own subtree.
RefuseMove(w) ==
  /\ sess[w].pc = "loaded"
  /\ sess[w].new \in get_descendant_ids(categories, sess[w].id)
  /\ End(w)
  /\ UNCHANGED <<categories, products, cache, version, raced, edits>>

\* The UPDATE of a parent that has changed, against the foreign key.
Movable(w) == Exists(sess[w].id) /\ (sess[w].new # None => Exists(sess[w].new))

CommitMove(w) ==
  /\ Ready(w, "move")
  /\ sess[w].new # sess[w].loaded
  /\ Movable(w)
  /\ categories' = [categories EXCEPT ![sess[w].id] = sess[w].new]
  /\ raced' = IF sess[w].fresh THEN raced ELSE raced \cup {"tree"}
  /\ sess' = [v \in Workers |-> IF v = w THEN Idle
                                ELSE IF sess[v].op = "move" /\ sess[v].new # None
                                THEN [sess[v] EXCEPT !.fresh = FALSE] ELSE sess[v]]
  /\ Bump(w)
  /\ UNCHANGED <<products, cache, edits>>

\* delete, up to the counts of children and products.
DeleteCategory(w, c) ==
  /\ Exists(c)
  /\ Children(categories, c) = {}
  /\ \A p \in Products : products[p] # None => products[p].category_id # c
  /\ Begin(w, [Idle EXCEPT !.pc = "checked", !.op = "delete", !.id = c])

\* FAULT: the foreign keys do not restrict a DELETE.
UnreferencedUnchecked(c) == TRUE

\* ON DELETE RESTRICT.
Unreferenced(c) ==
  /\ Children(categories, c) = {}
  /\ \A p \in Products : products[p] # None => products[p].category_id # c

\* A row that is gone already is no error to a DELETE.
CommitDelete(w) ==
  /\ Ready(w, "delete")
  /\ ~AwaitedBy(sess[w].id)
  /\ Unreferenced(sess[w].id)
  /\ categories' = [categories EXCEPT ![sess[w].id] = "deleted"]
  /\ Bump(w) /\ End(w)
  /\ UNCHANGED <<products, cache, raced, edits>>

-----------------------------------------------------------------------------
(* ProductService.                                                         *)

\* FAULT: the discount is not compared with the price.
DiscountedUnchecked(row) == TRUE

\* The Decimals of the body are compared, before they are rounded.
Discounted(row) == row.discount_price # None => row.discount_price < row.price

\* create: the product and its inventory row are flushed at once.
CreateProduct(w, p, row) ==
  /\ products[p] = None /\ ~Pending(p)
  /\ Discounted(row)
  /\ Exists(row.category_id)
  /\ Begin(w, [Idle EXCEPT !.pc = "flushed", !.op = "create_product", !.id = p,
                           !.new = row])

CommitCreateProduct(w) ==
  /\ Ready(w, "create_product")
  /\ products' = [products EXCEPT ![sess[w].id] = Stored(sess[w].new)]
  /\ Bump(w) /\ End(w)
  /\ UNCHANGED <<categories, cache, raced, edits>>

\* update_fields: those of the body.
Patched(row, patch) ==
  [f \in DOMAIN row |-> IF f \in DOMAIN patch THEN patch[f] ELSE row[f]]

ASSUME PatchesAssumption ==
  \A row \in ProductRows, patch \in Patches : Patched(row, patch) \in ProductRows

\* update: the checks are made on the row as loaded.
UpdateProduct(w, p, patch) ==
  LET row == Patched(products[p], patch)
  IN  /\ products[p] # None
      /\ "category_id" \in DOMAIN patch => Exists(patch.category_id)
      /\ Discounted(row)
      /\ Begin(w, [Idle EXCEPT !.pc = "checked", !.op = "update_product", !.id = p,
                               !.loaded = products[p], !.new = row, !.fresh = TRUE])

\* archive: is_active, whatever the rest of the row is.
ArchiveProduct(w, p) ==
  /\ products[p] # None
  /\ Begin(w, [Idle EXCEPT !.pc = "checked", !.op = "update_product", !.id = p,
                           !.loaded = products[p], !.fresh = TRUE,
                           !.new = [products[p] EXCEPT !.is_active = FALSE]])

\* FAULT: a field that is not changed is written as NULL.
AssignedOrNull(loaded, new, committed) == IF new = loaded THEN None ELSE new

\* The UPDATE has the fields whose value is not the loaded one.
Assigned(loaded, new, committed) == IF new = loaded THEN committed ELSE new

Written(loaded, new, committed) ==
  [category_id |-> Assigned(loaded.category_id, new.category_id, committed.category_id),
   price |-> Assigned(loaded.price, new.price, committed.price),
   discount_price |->
     Assigned(loaded.discount_price, new.discount_price, committed.discount_price),
   is_active |-> Assigned(loaded.is_active, new.is_active, committed.is_active)]

CategoryKept(w) ==
  sess[w].new.category_id # sess[w].loaded.category_id => Exists(sess[w].new.category_id)

CommitUpdateProduct(w) ==
  /\ Ready(w, "update_product")
  /\ sess[w].new # sess[w].loaded
  /\ CategoryKept(w)
  /\ products' = [products EXCEPT ![sess[w].id] =
       Stored(Written(sess[w].loaded, sess[w].new, products[sess[w].id]))]
  /\ raced' = IF sess[w].fresh THEN raced ELSE raced \cup {sess[w].id}
  /\ sess' = [v \in Workers |-> IF v = w THEN Idle
                                ELSE IF sess[v].id = sess[w].id
                                THEN [sess[v] EXCEPT !.fresh = FALSE] ELSE sess[v]]
  /\ Bump(w)
  /\ UNCHANGED <<categories, cache, edits>>

-----------------------------------------------------------------------------

\* Nothing to write: the commit changes no row.
CommitNothing(w) ==
  /\ sess[w].pc = "invalidated"
  /\ sess[w].op \in {"move", "update_product"}
  /\ sess[w].new = sess[w].loaded
  /\ End(w)
  /\ UNCHANGED <<categories, products, cache, version, raced, edits>>

\* The flush fails: the row is gone (StaleDataError), or a foreign key
\* refuses (IntegrityError).  The session is rolled back.
FlushFails(w) ==
  /\ \/ Ready(w, "update_category") /\ ~Exists(sess[w].id)
     \/ Ready(w, "move") /\ sess[w].new # sess[w].loaded /\ ~Movable(w)
     \/ Ready(w, "delete") /\ ~AwaitedBy(sess[w].id) /\ ~Unreferenced(sess[w].id)
     \/ Ready(w, "update_product") /\ sess[w].new # sess[w].loaded /\ ~CategoryKept(w)
  /\ End(w)
  /\ UNCHANGED <<categories, products, cache, version, raced, edits>>

\* The worker dies, or its client or the database is lost: the session is
\* rolled back, the cache stays invalidated.
Abort(w) ==
  /\ sess[w].pc # "idle"
  /\ End(w)
  /\ UNCHANGED <<categories, products, cache, version, raced, edits>>

Step(w) ==
  \/ CheckMove(w) \/ RefuseMove(w) \/ Invalidate(w) \/ Fill(w)
  \/ CommitCreateCategory(w) \/ CommitUpdateCategory(w) \/ CommitMove(w) \/ CommitDelete(w)
  \/ CommitCreateProduct(w) \/ CommitUpdateProduct(w) \/ CommitNothing(w) \/ FlushFails(w)

Request(w) ==
  \/ \E c \in Categories :
       \/ \E parent \in Categories \cup {None} : CreateCategory(w, c, parent)
       \/ UpdateCategory(w, c)
       \/ \E parent \in Categories \cup {None} : MoveCategory(w, c, parent)
       \/ DeleteCategory(w, c)
  \/ \E p \in Products :
       \/ \E row \in Bodies : CreateProduct(w, p, row)
       \/ \E patch \in Patches : UpdateProduct(w, p, patch)
       \/ ArchiveProduct(w, p)
  \/ \E k \in CacheKeys : Miss(w, k)

Next ==
  \/ \E w \in Workers : Request(w) \/ Step(w) \/ Abort(w)
  \/ \E k \in CacheKeys : Expire(k)
  \/ \E p \in Products : MoveStock(p)

Spec == Init /\ [][Next]_vars

\* A request that has begun goes on, and Redis drops what has expired.
FairSpec ==
  /\ Spec
  /\ \A w \in Workers : WF_vars(Step(w))
  /\ \A k \in CacheKeys : WF_vars(Expire(k))

-----------------------------------------------------------------------------
(* Properties.                                                             *)

\* No category and no product refers to a row that is gone, although create,
\* move, update and delete check this on rows others may change before the
\* commit.
ReferencesResolve ==
  /\ \A c \in Categories : categories[c] \in Categories => Exists(categories[c])
  /\ \A p \in Products : products[p] # None => Exists(products[p].category_id)

\* move keeps the categories a forest, and get_tree shows every one of them,
\* as long as no move is committed after another one has changed the tree it
\* was checked against.  (Two such moves can make a cycle, which get_tree
\* does not show.)
ForestUnlessRaced ==
  "tree" \notin raced =>
    /\ Forest(categories)
    /\ get_tree(categories) = {c \in Categories : Exists(c)}

\* No product is stored with a discount_price above its price, although the
\* amounts are rounded after the check, as long as no update is committed
\* after another one has changed the row it was checked against.  (They may
\* become equal: 1.3 is below 1.4, and both are stored as 1.)
DiscountUnlessRaced ==
  \A p \in Products \ raced : products[p] # None => NotAbovePrice(products[p])

\* An edit alone leaves none of its changes out of the cache: an entry that
\* differs from the committed rows of the tree or of the products was stored
\* by a reader that had read them before the commit and stored them after the
\* invalidation.  (Of available_stock, which is shown with a product and is
\* kept in another row, this is not so: no move of the stock invalidates.)
StaleOnlyByRace ==
  \A k \in CacheKeys :
    cache[k] # None /\ ~cache[k].raced =>
      cache[k].version.rows = version[k].rows

\* When the edits and the moves of the stock are over the cache comes to agree
\* with the database, the stock included, and stays so: the TTL ends what the
\* invalidations have missed.
CacheConverges ==
  <>[](\A k \in CacheKeys : cache[k] # None => cache[k].version = version[k])
=============================================================================
