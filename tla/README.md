# A verification project for the Electronic-Shop backend

TLA+ models of the parts of the shop that keep state (orders, stock, payments,
wallets, carts, the catalogue and its cache, accounts and sessions, support
tickets), checked by TLC on small instances and, for most safety properties,
proved by TLAPS for instances of any size. Paths below are relative to `src/backend/app/`
unless they start with `src/`.

## 1. The system

The shop is a FastAPI backend over PostgreSQL (SQLAlchemy, async), a Redis cache,
a worker process for periodic tasks, the ZarinPal payment gateway, and a React
frontend. A request handler opens one session (`db/session.py`), calls a service,
and commits once at its end; an exception closes the session, which rolls
everything back. The session has `autoflush=False`, so that changes reach the
database at explicit flushes and at the commit. Transactions run at READ
COMMITTED. Several handlers run at once, in one event loop and in several
replicas; they interact only through the database (and the gateway).

| Component | State | Operations | Hard behaviour | What makes it correct |
|---|---|---|---|---|
| orders (`modules/orders`) | `orders`, `order_items`, `order_status_history` | checkout, mark_paid, mark_payment_failed, cancel, admin status change | status is read without a lock and written at the commit | only moves of `ALLOWED_TRANSITIONS`; the history explains the status; a refund only after a payment, and once |
| inventory (`modules/catalog/inventory_service.py`) | `product_inventory`, `inventory_history` | reserve, release, commit_purchase, restock, adjust | row locks held over a loop of items, deadlocks, stale objects in the identity map, `max(0, .)` | no lost update of a row; reservations match unpaid orders; no more is promised than there is |
| payments (`modules/payments`, `integrations/zarinpal.py`) | `payments`, the gateway's record | init_payment, callback | duplicated and concurrent callbacks, a redirect that may claim anything, crash between capture and commit, several payments of one order | decided once, together with the purchase; verified only if the gateway captured it |
| wallet (`modules/wallet`) | `wallets`, `wallet_transactions` | get_or_create, deposit, credit, debit, refund | concurrent first use, balance computed in Python, rounding columns | every ledger row continues from the one before, the balance is the last one's and never negative |
| idempotency (`common/idempotency.py`) | `idempotency_keys` | guard, finish | copies of a request that run at the same time, crashes | a key acts once; every answer is the key's own |
| cart (`modules/cart`) | `carts`, `cart_items` | get, add, update, remove, clear | read-modify-write without locks; checkout clearing it | a request acts on untouched rows as if alone; a checkout orders what it takes, off the stock too |
| tickets (`modules/tickets`, `tasks/ticket_tasks.py`) | `tickets`, `ticket_messages`, audit rows | create, reply, change status, auto-close | periodic task in several copies racing replies, crashes of the task | closed for silence only, recorded once; an answer wins; none waits for ever |
| auth (`modules/auth`) | `refresh_tokens`, reset and verification tokens, `oauth_accounts`, Redis states | register, login, rotate, logout, change, reset, Google | two uses of one refresh token; revocation racing a rotation | one live token per family; dead families stay dead; a new password ends old sessions; Google enters its own |
| users and roles (`modules/users`, `security/permissions.py`) | `users`, audit rows | role and activation changes | changes from rows loaded before another commit | somebody can manage users until one deactivates himself; the audit log agrees with the rows unless updates overlap |
| categories (`modules/catalog/service.py`) | tree of `categories` | create, update, move, delete | two moves checked before either commits | references resolve; a forest that is shown in full |
| products and cache (`modules/catalog`, `common/cache.py`) | `products`, Redis entries | create, update, archive, read-through, invalidate | invalidation before the commit; stock never invalidated; checks on unlocked rows, rounding columns | discount not above price; an edit missing from the cache only by a race, and nothing stale for ever |
| pagination, reports | none | page arithmetic, SQL aggregation | | |
| notifications, HTTP layer, frontend, seed, migrations | none that other parts read back | | | |

The hazards of this code, each at its line with the properties that watch it,
are in `PROJECT.json`.

## 2. Modules

| Module | Models |
|---|---|
| `OrderStatus` | the status enum and the transition table (`orders/models.py`) |
| `InventoryRow` | one `product_inventory` row, its CHECKs, and the arithmetic of `InventoryService` on it |
| `Shop` | checkout, stock, orders, payments and refunds composed: committed rows, the gateway's record, one session per worker |
| `ShopStock` | what reservations mean: properties of `Shop` that count promised units, and `UndisturbedSpec`, the requests that do not get in each other's way |
| `ShopInvariant` | the inductive invariants of `Shop`: `ShopInv`, and `SerialInv` and `StockInv` for requests that do not get in each other's way |
| `PaymentContract` | abstract specification: a payment is opened once and decided once, atomically with its purchase |
| `LedgerContract` | abstract specification: a posting changes the balance, adds its row and uses up its key in one step, and a key is answered with its row |
| `Wallet` | wallets, ledger and the Idempotency-Key guard; its properties and inductive invariant |
| `Cart` | one user's cart in several tabs, and the checkout that empties it |
| `Tickets` | tickets, messages, and copies of the auto-close task |
| `Catalog` | category tree, products and the Redis cache |
| `Accounts` | users, passwords, refresh-token families, Google accounts, roles and their audit |
| `ShopProofs`, `ShopTheorems`, `StockProofs`, `WalletProofs`, `CartProofs`, `TicketProofs`, `CatalogProofs`, `AccountProofs` | proofs |
| `MCShop`, `MCWallet`, `MCCart`, `MCTickets`, `MCCatalog`, `MCAccounts` | instances for TLC; one `.cfg` per run |

`Shop` composes orders, inventory, payments and refunds; `Wallet` composes the
ledger and the idempotency guard; `Cart` composes the cart and checkout;
`Tickets` the API and the Celery task; `Catalog` the database and the cache. The
groups share no row except the stock (which `Cart` and `Catalog` let move freely) and the
user's cart (which `Shop` takes as filled), so that each can be checked alone.

### Shop

All variables but `sess` hold **committed** rows (or the gateway's view), named
after their tables. `sess[w]` is what worker `w`'s open transaction has loaded
and locked: `pc` (the handler), `seen` (order.status as loaded), `goal` (the
argument of `_transition`), `items` (the cart or the order as loaded), the loop's
position (`todo`, `want`), the inventory rows held FOR UPDATE (`locked`) and the
row objects in the identity map (`rows`).

A handler is cut at the awaits where another worker's commit can matter:

* `Checkout` / `InitPayment` / `Callback` / `Cancel` / `AdminUpdateStatus`: the
  unlocked read (or, for the callback, the claiming UPDATE) that starts it;
* `NextItem`, `LockForUpdate`: one iteration of the loop over the items. In
  checkout `NextItem` loads the product with its inventory row. `lock_for_update`
  does not refresh an object the session still references (no
  `populate_existing`), so checkout computes with that older row, while the other
  handlers, which have not loaded it, see the locked one (`LockedRow`);
* `VerifySucceeds`, `VerifyFails`: the outcome of `handle_callback` after the claim;
* `CommitCheckout`, `CommitPayment`, `CommitPaid`, `CommitPaymentFailed`,
  `CommitCancel`, `CommitAdminUpdate`: transition, flush and commit in one step.
  A flush writes the columns the handler assigned (`Flushed`);
* `Reject`: `ConflictError` of `reserve` or `_transition`, or a violated CHECK;
  `DeadlockAbort`: Postgres ends a wait cycle; `Fail`: a crash, a lost
  connection, a gateway error, an archived product. All of them roll back.

`Restock` and `Adjust` take one row lock and commit, so they are single steps
that wait for the row to be free. An uncommitted `pending` payment is never
visible, so `PaymentStatuses` does not have it; a claim is the session's `pc`.
`overridden` is history: the orders whose wait for a payment an admin has ended.

What is left out, and why it does not matter here: prices and addresses (no
property tells them apart); authorisation and 404 answers (they change nothing);
the locks of the orders' and payments' rows in UPDATEs, which are taken last and
once per transaction and so add no wait cycle; adding to carts (each customer
starts with a filled cart). A callback that finds nothing to claim returns
the stored outcome and is a stuttering step.

The callback is an unauthenticated GET: it may come at any time after the
authority was issued, with any `Status`, repeatedly or never. ZarinPal is
external: of a payment the customer has paid, a verification captures the money
and answers 100, and 101 afterwards. `VerifyFails` is everything that makes
`handle_callback` store `failed`: a `Status` other than OK, whatever the gateway
knows, and any JSON answer without code 100 or 101, since
`integrations/zarinpal.py` does not look at the HTTP status; the money may be
captured all the same (`Captured`). An answer that is no JSON, or none, raises and
rolls back (`Fail`).

### Wallet

`wallets`, `wallet_transactions` and `idempotency_keys` are committed rows;
`replies` collects the transactions a request was answered with. `Guard` is the
successful INSERT of the key (it waits while another session has the same key in
flight: the unique index), `Replay` the IntegrityError path, `GetOrCreate` the
read or `ON CONFLICT DO NOTHING` insert, `Lock` the row lock, the computation and
the check, `Commit` the balance, ledger row and stored response together,
`Rollback` every other end. `get_or_create`'s object is unreferenced when
`_apply` locks the wallet, so here the lock does load the committed balance.
Amounts are Decimals in tenths of a Toman; `Numeric` is what the `NUMERIC(14, 0)`
columns make of them. A ledger row's `slot` is a history variable.

The bundled frontend makes a fresh key for every call
(`src/frontend/src/lib/idempotency.ts`), so it is HTTP-level retries and other
clients that repeat a key; `RetrySpec` assumes a client that does.

### Cart

`items` are the committed rows with their ids, because SQLAlchemy writes by
primary key: an UPDATE that finds no row fails (`StaleDataError`), a DELETE that
finds none only warns, and a quantity equal to the loaded one is not written.
`Load` is `get_or_create` with the rows (the stock is checked in the same step:
`Fits`), the `Commit...` actions are flush and commit. `repo.clear` selects the rows it deletes: for `clear_cart` that is the
load (`Doomed(w)`), but `checkout` calls it at its end, long after it has read the
cart, and so deletes the rows there are by then (`Without(Products)`). The unique
constraints (one cart per user, one row per product) are `CartKept` and `Kept`.
The stock is the rows of `product_inventory`. A checkout loads each item's product
with its stock (`LoadProduct`) and computes availability and the new `reserved`
from that row, not from the one it locks later (`Reserved`; `Shop` shows why), and
the CHECKs of the table see the result. The locks themselves are in `Shop` only:
here the rest of the shop may change a row at any time up to the commit
(`StockMoves`), which is what it may do up to the lock.
A refused request is one that is not made. `touched` (rows changed since the
load) and `peak` are history.

### Tickets

A request loads the ticket in one action (`Reply`, `ChangeStatus`) and commits in
another; the task selects its candidates (`SelectCandidates`, with LIMIT and no
ORDER BY) and handles one at a time, each with its own commit (`AutoClose`,
`SkipCandidate`). The clock is one bit per ticket, `stale`
(`last_response_at < now - STALE_AFTER`); `silent` is the same for the customer's
own messages, which the code does not store. `Assigned` is the ORM's rule that an
attribute assigned its loaded value is left out of the UPDATE. `FailTask` is a
worker lost between two candidates. No request is taken to last a day.

### Catalog

An edit is cut into its checks on unlocked rows (`CreateCategory`,
`MoveCategory` and `CheckMove`, `DeleteCategory`, `CreateProduct`,
`UpdateProduct`, ...), the invalidation (`Invalidate`, which the services do
before the router commits), and the commit with the database's own checks
(foreign keys with ON DELETE RESTRICT, unique slugs). A reader that misses the
cache (`Miss`) stores what it has read later (`Fill`). `Reach` is the least set
the worklist of `get_descendant_ids` and the recursion of `get_tree` compute.
Prices are Decimals in tenths of a Toman: the schemas and the service compare them
as sent (`Discounted`), the `NUMERIC(12, 0)` columns store them rounded (`Stored`).
The cache keeps the version of its source instead of a payload: that of the rows,
which the edits change, and that of the stock, which is shown with a product
(`available_stock`) and which orders, payments and corrections change without
invalidating anything (`MoveStock`). A miss reads a product and its stock in one
step, although they are two SELECTs: a stock read a moment later is as good as one
whose reader came a moment later, and nothing is claimed of it before it settles.
`version`, `raced` and `fresh` are history: `fresh` says whether the tree or row an
edit was checked against is still the committed one.

### Accounts

Requests that only insert rows or only set a flag for good are single actions;
login, rotation, reuse, password change and reset, the Google callback and the
administrator's update load in one action and commit in another. `Revoked(R)`
sets `revoked_at` on the tokens that were *selected*, so a token inserted between
the select and the commit is missed, as in `revoke_family` and
`revoke_all_for_user`. The callback's `redis.get` and `redis.delete` are two
steps. Passwords are numbered in the order they are set. `audit` has what the
newest audit rows about a user's role and activation say; newest by `created_at`,
which is `now()`, the start of the transaction, and not by the order of commits
(`Newest`). `forked`, `lapsed`, `overlapped` and the tokens' `password` and `raced`
are history. Access tokens (JWT) are
stateless; what they allow is `Active`, which `get_current_user` checks on every
request.

Definitions marked FAULT are plausible mistakes in the definition that follows
each. They are not part of the model; each is substituted for that definition to
see the property named in `PROJECT.json` fail.

## 3. Runs

Passing runs (a few minutes at most with two threads):

| Run | Instance | Shows |
|---|---|---|
| concurrent | 2 workers, 1 order, duplicated callbacks, cancellation, admins, 1 crash | types and CHECKs; a verified payment was captured; connected history; refunds only after a payment; refinement of `PaymentContract` |
| stock | 2 workers, 2 orders of the same 2 products, stock corrections, `FairSpec` | sessions are isolated; each verified payment takes exactly its order off the committed stock and nothing else moves `stock_total`; every request ends, deadlocks included |
| undisturbed | 2 workers, 2 customers, 2 orders, 2 payments each, 1 product, cancellation, admins, `UndisturbedSpec` | an order is purchased once and refunded once; its committed status moves by the table; `stock_reserved` is exactly what orders were promised |
| cart | 2 tabs of one customer, 2 products, a stock that others move among three rows, 4 requests | quantities within the stock; a request acts as if alone on rows nobody touched; a checkout orders what it takes, and takes it off the stock where that is as loaded |
| autoclose | 2 requests, 2 copies of the task, 2 tickets, batches of 2, 1 crash, `FairSpec` | closings recorded once; closed for silence only; an answer beats the task; no ticket waits for ever |
| catalog | 2 workers, 4 categories, 2 products, 1 list, 2 edits or moves of the stock, `FairSpec` | references resolve; forest, and no discount above its price, unless edits overlap; an edit missing from the cache only by an overlapping reader; nothing stale for ever |
| accounts | 2 workers, 3 users, 3 tokens, 1 reset, 2 Google states, 4 requests | one live token per family; dead families stay dead; old sessions end; Google enters its own account; somebody manages users unless one deactivates himself or has lost the permission; the newest audit rows agree unless updates of the user overlap |
| ledger | 2 workers, 6 requests of two users to one wallet, one with a fraction, 1 crash, `RetrySpec` | refinement of `LedgerContract`: indivisible postings, one per key, own answers; the balance follows the ledger, up to the Toman rounding takes from a debit; no negative balance; requests end; a repeated deposit happens |

Runs that TLC must refute, each a disagreement between the code and a statement
of the repository (quoted in `PROJECT.json`, "findings"): **oversell**,
**cancel_paid**, **double_refund**, **rounding**.

The pairs explain each other. `undisturbed` is the code with two conditions on
what happens to overlap, neither of which the code enforces: no two requests that
move the same order are open at once (`OneMoverPerOrder`; loading the order with
FOR UPDATE would see to it), and no checkout waits for an inventory row
(`NoCheckoutWaits`; refreshing the locked row would make it needless). Every other
overlap is there: requests on different orders interleave and wait for each
other's rows. One worker alone satisfies both conditions, which is a theorem
(`OneWorkerUndisturbed`), so a shop that serves one request at a time is a special
case of it (the run leaves out stock corrections, the theorems do not). Without the first condition `double_refund` shows an order
refunded twice, because `_transition` decides on an unlocked read; without the
second `oversell` shows one unit promised twice, because checkout trusts a row
loaded before the lock. `cancel_paid` needs neither: cancelling a paid order
releases units that were already purchased, and `ReservedIsPromised` excepts it
by name (`PaidOrderCancelled`), together with an admin who sends a failed order
back to wait for its payment (`FailedOrderReopened`). An admin who ends such a wait
does not touch the stock either; `ReservedIsPromised` counts those orders
(`overridden`) as reserving for ever.

### What the properties leave out on purpose

Several properties say "unless a request overlapped". The models contain these
overlaps, and in them the code behaves as follows. None is a property of its own;
they are listed because a reader of the docs may expect otherwise.

* Orders: two requests that loaded the same status both commit, and the second
  may move the order along a pair that is not in `ALLOWED_TRANSITIONS`
  (`orders/service.py:104`). Two open payments of one order whose callbacks
  overlap both purchase its stock (`payments/service.py:34`). A captured payment
  whose order was cancelled meanwhile is rolled back to `initiated` and verified
  again by the next callback (`payments/service.py:83`).
* Payments: `PaidMeansCaptured` is one half of agreement with the gateway: no goods
  without money. The other half, no money without goods, is false of the code. A
  payment that was paid, or captured, is stored as `failed`, for ever, when the
  redirect says NOK (`payments/service.py:78`) or the verification answers with an
  error in JSON (`integrations/zarinpal.py:98`); and one whose browser never
  comes back stays `initiated`, because no job of the repository asks the gateway
  again. So nothing is claimed about money that was never verified, and no
  liveness about callbacks; what ZarinPal does with it is outside the repository.
* Wallet: an amount with a fraction is rounded separately in `amount` and in
  `balance` (`NUMERIC(14, 0)`), and the schemas accept fractions. A debit of 1.5
  from 2 Tomans is recorded as 2 and leaves 1: the balance is not the ledger's
  sum (run `rounding`). What holds for any amounts is `BalanceFollowsLedger`:
  every row continues from the row before it, credits exactly and debits up to
  the one Toman that is lost in this way, and the balance is the last row's.
* Cart: of two simultaneous `add_item` to one row one is lost; the second of two
  first ones fails with an IntegrityError. Two checkouts of one cart both order
  it (`orders/service.py:34`), and a row added while a checkout runs is deleted
  without being ordered (`orders/service.py:89`). A checkout whose product was
  ordered by somebody else since it was loaded writes its own `reserved` over the
  other's (`catalog/repository.py:207`), so the stock falls by its items only if
  it is as loaded; `oversell` shows what comes of it.
* Tickets: the UPDATE of the task looks at the status only, so a ticket that was
  answered by both sides since the query is closed although it is fresh. A
  customer's reply to a ticket loaded as `waiting_for_support` does not write the
  status: if support's reply commits first, the ticket stays
  `waiting_for_customer` and may be closed a day later although the customer
  wrote last. A reply that commits after a close by support can leave a message
  on a closed ticket. `closed_at` is never cleared. Every task has an event loop of
  its own (`tasks/ticket_tasks.py:83`) and uses the pooled engine of its module
  (`db/session.py:9`), so that a run may meet a connection of a loop that is closed
  and fail; that is a `FailTask`, after which a later run goes on.
* Catalogue: two overlapping moves can make a cycle, which `get_tree` then does
  not show; two overlapping updates can leave a discount above the price; a
  discount below the price may equal it once both are rounded (100.3 of 100.4); a
  change of the stock does not invalidate the cached product, so that
  `StaleOnlyByRace` is about the rows of the tree and the products, and an entry's
  stock agrees by the TTL only (`CacheConverges`); `home:v1` is deleted and never
  set.
* Accounts: two uses of one refresh token at a time fork its family; a rotation
  under way survives the revocation of its family, and a login under way the
  change of its password; a reset token can be used twice at the same time; a
  Google login does not look at `is_active` (every later request does). Two
  administrators can demote each other, and any can deactivate himself, the last
  one too (`users/admin_service.py:48`), after which nobody can manage users:
  `SomebodyManagesUsers` excepts both (`lapsed`). Of two updates of one user that
  overlap the one that started first may commit last, and the newest audit row
  then tells the other one's value (`audit/models.py:23`); `AuditAgrees` leaves
  out such users (`overlapped`). `user.role.manage` is never checked.

**Bounds.** Ids of orders and payments, faults, refunds, ledger rows for
unguarded requests and the total stock are bounded (`Orders`, `Attempts`,
`MaxFaults`, `MaxRefunds`, `MaxRows`, `MaxStock`; in `Cart` the stock others leave,
`StockRows`: plenty, all but one reserved, and one piece); a run out of ids simply has no
more requests, which is why only `MCWallet` checks deadlock. The
other bounds of the same kind are `MaxRequests`, `MaxEdits` and the sets of rows
of `Cart`, `Tickets`, `Catalog` and `Accounts`; two overlapping requests and the
ones before that make their rows are within them. In `Catalog` `MaxEdits` counts the
moves of the stock too, and prices are 1, 1.3, 1.4, 2 and 3 Tomans, among which there
are a discount that rounding makes the price and one that is too high.
Four categories are the least in which a move goes under a grandchild and another
move overlaps it. Two workers and two products are the least with lock waits,
wait cycles, stale reads and duplicated callbacks; the theorems below remove the
bounds for the safety properties. `Traffic` selects the
kinds of request of a run and `AdminGoals` the statuses an admin moves orders to:
all of them in the runs that refute, the moves an order can be sent on and back by
in `concurrent` (without shipped and completed, which only lengthen the chain), and
paid, cancelled and refunded in `undisturbed`, to remain small (the theorems have all). Symmetry is used in runs without liveness only, on workers,
customers, products, orders, attempts and the rows of accounts, which no
definition distinguishes.

**Fairness.** `FairSpec`: a handler that can go on does so (strong fairness per
worker, since a row lock may be taken and released by others many times; Postgres
queues waiters). `RetrySpec` adds a client that repeats a deposit until it is
answered. In `Tickets` a
loaded request ends, the task's loop goes on, beat keeps starting the task
(`tasks/celery_app.py:34`) and days pass; in `Catalog` a request that has begun
goes on and Redis drops expired entries. Weak fairness is enough there, because
nothing waits for a lock that others take again and again. Nothing is assumed
about customers, their browsers (so a callback may never come), admins or faults.

## 4. Proofs

All safety properties of the passing runs are proved for any
(also infinite) sets of workers, customers, products, orders, users, keys and
requests (`Attempts` finite, because purchases are compared with a cardinality;
that the units reserved in any state are finitely many is part of `StockInv`).

*Shop.* The inductive invariant `ShopInv` (module `ShopInvariant`) is
`TypeOK`, `SessionsIsolated`, `PaymentsHaveOrders`, `GatewayKnowsPayments`,
`PaidMeansCaptured` and `HistoryIsConnected`. None of these is inductive alone: `TypeOK` needs the
flushed rows to satisfy the CHECKs, which follows from the rows being the
committed ones with the handler's own change (`RowsCurrent`), which needs locks
to be exclusive (`LocksExclusive`); `PaidMeansCaptured` needs a claimed payment to
be still undecided, and captured when its callback will store it as verified
(`HoldsClaim`), which needs claims to be exclusive;
the connected history needs `seen` to be a status that was once logged
(`KnowsOrder`). Lemmas treat a worker's own session and the others' separately:
whatever `w` commits lies in rows it has locked or claimed, so other sessions
stay sound. From it: `TypesHold`, `IsolationHolds`, `PaidMeansCapturedHolds`,
`HistoryConnectionHolds` (`ShopProofs`), and in `ShopTheorems` `RefundsHold`
(with `AuditInv`), `ContractRefined` (the refinement of `PaymentContract`),
`PurchasesHold` and the action property `PurchaseStepsHold`.

*Stock.* `StockProofs` adds what holds when requests do not disturb each other,
in two layers. `SerialInv`, under `OneMoverPerOrder`: a request that moves an order
knows its committed status (nobody else can have changed it), and the status
remembers the past, so that an order that can still be paid has not been
purchased and one that can still be refunded has not been refunded. From it
`PurchasedOnce`, `RefundedOnce` and `TableFollowed`. `StockInv`, under
`NoCheckoutWaits` too: a loop has covered exactly the items it no longer has to
do, the rows a checkout has loaded are current, and in every row `reserved` is
the number of units of the orders that reserve. Units are pairs of an order and
a number, so that a commit which adds or removes an order adds or removes a
finite set of known size (`Balanced`): reservations and units move together. The
exceptions are stable because the history only grows. From it `ReservationsHold`,
`PromisesCovered` (what `cancel_paid` refutes holds until the exception happens)
and `NothingOversold` (what `oversell` refutes).

*Wallet.* `WalletInv` is the types, the shape of sessions, exclusiveness of keys
in flight and of inserted and locked wallets (with the balance under the lock
still current), the correspondence of committed keys and ledger rows, and the two
properties `OncePerKey` and `AnsweredByOwnTransaction`, which the proofs need and
the refinement implies, so that no run checks them apart. `WalletContractRefined`
(the refinement of `LedgerContract`) uses that the balance under the lock is the
committed one, that a key in flight is unused, and that rounding to whole Tomans
commutes with adding whole Tomans. `BalanceHolds` needs in addition how far rounding
can part an amount from the balance it leaves: not at all in a credit, and by at
most one Toman in a debit. Neither assumes anything of the amounts. `OncePerKey` and `AnsweredByOwnTransaction` are theorems of their
own, as is `PurchasesMatchVerified` of *Shop*, which `PaymentContract` implies.

*Cart.* `CartInv` is `CartTypeOK` and `QuantityWithinStock` with what the sessions
know: a row nobody has touched since it was loaded is the committed one
(`SeenUnlessTouched`), and the quantity a session will write was within the stock
when it was loaded (`AskedIsInStock`), which is what makes `QuantityWithinStock`
inductive although the stock is not looked at again by the cart. The stock a checkout
has loaded is a row (`StockMoved`), and no more is known of it:
that it may be out of date is the point.
`RequestsActAlone` and `CheckoutsTakeTheCart` are action properties from it.

*Tickets.* `TicketInv` adds to the types that notes, audit rows and reopenings of
a ticket keep in step (`ClosingsAreRecorded` itself), that a candidate no one has
touched since the query is still stale (`SelectedAreStale`) and that a stale
ticket's customer is silent (`StaleIsSilent`). `SilenceHolds` and `AnswersWin` are action
properties from it.

*Catalog.* `CatalogInv` is layered: the shape of sessions (`ShapeInv`), at most
one pending insert of a name (`SoleInserts`), the tree (`TreeInv`: references
resolve, and the new parent of a move that is still fresh is no descendant), the products
(`ProductInv`: a fresh update would keep the discount at or below the price, since
rounding is monotonic), and the
cache (`CacheInv`: an entry that is not raced has the current version of the rows, and while
an edit is between invalidation and commit its keys hold raced entries or none). The proof that a
checked move keeps a forest is the argument about `Reach`: a nonempty set closed
under parents after the move would contain the moved category and, through it,
the new parent as one of its descendants.

*Accounts.* No row is locked, so `AccountInv` says what every session may still
rely on (`Known`): the rows it has loaded exist and keep their owner and family;
a rotation whose token is not raced has the password of its login, although the
user may have another one by the time of the commit; and a request that will set
a password has among its targets every live token of the user that is not raced.
The last is what makes `OldSessionsEnd` inductive, the second what carries it over
a rotation. `OneTokenPerFamily` needs that the family of a token is a token that
exists, so that a new one begins a family of its own; `SomebodyManagesUsers` that a
loaded change of one's own row leaves the role alone. `AuditAgrees` has an
inductive invariant of its own on top (`AuditInv`): an update under way, of a user
whose updates did not overlap, started after the newest audit rows about him, so
that its own rows will be the newest; and the log has nothing to tell of users not
yet registered. `DeadHolds` is an action
property from the invariant and what a step may do to families (`FamilyStep`).

The assumptions are the named ASSUMEs of the modules: types of the parameters,
`None` distinct from ids and rows, finite `Attempts`, a key exactly on guarded
requests, an initial tree that is a forest. TLC evaluates them in every run.

*Only model-checked:* liveness (`EveryRequestEnds`, `EveryWalletRequestEnds`, `DepositsHappen`, `AbandonedTicketsClose`,
`CacheConverges`), which is outside the prover's reach.

## 5. Not modelled, and the plan

Not modelled:

* reports: read-only SQL aggregation over the rows of the other parts; what could
  be wrong there (a GROUP BY, a boundary of a day in a time zone) is in SQL's
  semantics, not in an order of steps;
* pagination and search: stateless;
* audit rows other than those of the auto-close task and of `update_user`, and
  notifications: written along, never read back;
* the reconciliation of payments with ZarinPal: there is no code for it;
* the HTTP layer (CSRF check, error mapping), stateless per request;
* the upload of images: a file write that no other part refers to;
* the seed script and the migrations, run by hand on a database nobody uses;
* the frontend: the environment of the models stands for it, any request, at any
  time, again and again.

Done, in the order of the plan: Shop core, PaymentContract, ShopInvariant and its
proofs, Wallet with the idempotency guard, LedgerContract and its proofs, Tickets, Catalog (tree,
products and cache), Accounts (tokens, passwords, Google, roles), Cart, the
proofs of Tickets, Catalog, Cart and Accounts, and the proofs about purchases,
refunds and reservations.

Next: contracts like these for the sessions of `Accounts` (a token is spent once)
and for the cache of `Catalog`, as refinements.
