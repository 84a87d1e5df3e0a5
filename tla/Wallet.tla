------------------------------- MODULE Wallet -------------------------------
(***************************************************************************)
(* Wallets, their ledger, and the Idempotency-Key guard in front of the    *)
(* operations that move money (wallet/, common/idempotency.py), as several *)
(* workers run them against one Postgres database at READ COMMITTED.  The  *)
(* variables other than sess and replies hold committed rows.              *)
(*                                                                         *)
(* The same request may arrive any number of times, also while an earlier  *)
(* copy of it is running: a client repeats it until it is answered.        *)
(*                                                                         *)
(* Definitions marked FAULT are not part of the model: each is a plausible *)
(* mistake in the definition after it, used to see the properties fail.    *)
(***************************************************************************)
EXTENDS Integers, Sequences

CONSTANTS
  Workers,    \* requests served at the same time
  Users,      \* callers and owners of wallets
  Keys,       \* values of the Idempotency-Key header
  Requests,   \* the requests clients send
  MaxRows,    \* no refund or read of a wallet with this many rows (a bound)
  MaxFaults,  \* unforeseen rollbacks in one behaviour (a bound)
  None        \* Python's None, SQL's NULL

\* Operations behind idempotency_guard, and the ones without a guard: the
\* refund of an order and the GETs that create a missing wallet.
Guarded == {"wallet.deposit", "wallet.admin_credit", "wallet.admin_debit"}
Unguarded == {"refund", "read"}

\* Amounts are Decimals as the schemas admit them, in tenths of a Toman.
RequestType ==
  [user : Users, operation : Guarded \cup Unguarded, key : Keys \cup {None},
   owner : Users, amount : Nat \ {0}]

ASSUME RequestsAssumption ==
  /\ Requests \subseteq RequestType
  /\ \A r \in Requests : r.key \in Keys <=> r.operation \in Guarded
  /\ \A r \in Requests : r.operation = "wallet.deposit" => r.owner = r.user
ASSUME WalletBounds == MaxRows \in Nat /\ MaxFaults \in Nat
ASSUME WalletNone == None \notin Users \cup Keys \cup Requests \cup Nat

VARIABLES
  wallets,              \* balance of each user's wallet, None: no row
  wallet_transactions,  \* the ledger of each wallet
  idempotency_keys,     \* committed rows of the guard, NoKey: no row
  replies,              \* transactions each request was answered with
  sess,                 \* the workers' sessions
  faults                \* unforeseen rollbacks so far

vars == <<wallets, wallet_transactions, idempotency_keys, replies, sess, faults>>

-----------------------------------------------------------------------------
(* Types.                                                                  *)

\* UniqueConstraint(user_id, operation, key).
Slots == Users \X Guarded \X Keys
Slot(r) == <<r.user, r.operation, r.key>>

\* A transaction is named by its wallet and its place in the ledger.
Transactions == Users \X (Nat \ {0})
ASSUME NoneIsNoPair == None \notin Slots \cup Transactions

\* slot is not a column: it remembers which key the row was written under.
LedgerRows ==
  [credit : BOOLEAN, amount : Nat, balance_after : Nat, slot : Slots \cup {None}]

NoKey == [hash |-> None, response |-> None]
KeyRows == [hash : Nat, response : Transactions]

\* open: past the guard; created: the wallet exists; locked: it is locked.
Sessions ==
  [pc : {"idle", "open", "created", "locked"},
   request : Requests \cup {None},
   made    : BOOLEAN,          \* the session has inserted the wallet itself
   balance : Nat]              \* wallet.balance as loaded under the lock

Idle == [pc |-> "idle", request |-> None, made |-> FALSE, balance |-> 0]

\* One type invariant; a balance is never negative.
WalletTypeOK ==
  /\ wallets \in [Users -> Nat \cup {None}]
  /\ wallet_transactions \in [Users -> Seq(LedgerRows)]
  /\ idempotency_keys \in [Slots -> KeyRows \cup {NoKey}]
  /\ replies \in [Requests -> SUBSET Transactions]
  /\ sess \in [Workers -> Sessions]
  /\ faults \in 0..MaxFaults

Init ==
  /\ wallets = [u \in Users |-> None]
  /\ wallet_transactions = [u \in Users |-> <<>>]
  /\ idempotency_keys = [t \in Slots |-> NoKey]
  /\ replies = [r \in Requests |-> {}]
  /\ sess = [w \in Workers |-> Idle]
  /\ faults = 0

-----------------------------------------------------------------------------
(* The guard.                                                              *)

\* hashlib.sha256 of the body: of the amount, not of the wallet in the path.
RequestHash(r) == r.amount

\* A session past the guard has inserted, and not committed, its key's row.
HoldsKey(v, slot) ==
  /\ sess[v].pc # "idle"
  /\ sess[v].request.operation \in Guarded
  /\ Slot(sess[v].request) = slot

KeyFreeUnindexed(slot) == TRUE   \* FAULT: no unique constraint
\* The INSERT succeeds: nobody has committed the key, and nobody is about to.
KeyFree(slot) ==
  /\ idempotency_keys[slot] = NoKey
  /\ \A v \in Workers : ~HoldsKey(v, slot)

Begin(w, r) ==
  /\ sess[w].pc = "idle"
  /\ sess' = [sess EXCEPT ![w] = [Idle EXCEPT !.pc = "open", !.request = r]]
  /\ UNCHANGED <<wallets, wallet_transactions, idempotency_keys, replies, faults>>

Guard(w, r) ==
  /\ r.operation \in Guarded
  /\ KeyFree(Slot(r))
  /\ Begin(w, r)

\* IntegrityError: roll back, read the row, and answer as the first request
\* was answered.  A different hash is refused and changes nothing.
Replay(w, r) ==
  LET existing == idempotency_keys[Slot(r)] IN
  /\ sess[w].pc = "idle"
  /\ r.operation \in Guarded
  /\ existing # NoKey
  /\ existing.hash = RequestHash(r)
  /\ replies' = [replies EXCEPT ![r] = @ \cup {existing.response}]
  /\ UNCHANGED <<wallets, wallet_transactions, idempotency_keys, sess, faults>>

\* A refund, called with the status change of an order, or a GET.
Unkeyed(w, r) ==
  /\ r.operation \in Unguarded
  /\ Len(wallet_transactions[r.owner]) < MaxRows
  /\ Begin(w, r)

-----------------------------------------------------------------------------
(* WalletService.                                                          *)

Owner(w) == sess[w].request.owner

\* get_or_create: INSERT ... ON CONFLICT DO NOTHING waits for another
\* session's insert of the same wallet to end.
GetOrCreate(w) ==
  /\ sess[w].pc = "open"
  /\ wallets[Owner(w)] = None =>
       \A v \in Workers : sess[v].made => Owner(v) # Owner(w)
  /\ sess' = [sess EXCEPT ![w].pc = "created",
                          ![w].made = wallets[Owner(w)] = None]
  /\ UNCHANGED <<wallets, wallet_transactions, idempotency_keys, replies, faults>>

\* CREDIT_TYPES.
Credits(r) == r.operation \in {"wallet.deposit", "wallet.admin_credit", "refund"}

\* NUMERIC(14, 0) rounds a value in tenths to whole Tomans, halves away from 0.
Numeric(tenths) == (tenths + 5) \div 10

WalletFreeUnlocked(w) == TRUE   \* FAULT: a plain SELECT
\* FAULT: get_or_create locks the row too, on a connection of its own.
WalletFreeOfSelf(w) ==
  \A v \in Workers : sess[v].pc \in {"created", "locked"} => Owner(v) # Owner(w)
\* SELECT ... FOR UPDATE of the wallet is granted.
WalletFree(w) ==
  \A v \in Workers : sess[v].pc = "locked" => Owner(v) # Owner(w)

\* wallet.balance in the row the lock returns.  get_or_create's object is
\* gone by then, so it is the committed one, or the session's own insert.
LockedBalance(w) == IF sess[w].made THEN 0 ELSE wallets[Owner(w)]

\* new_balance, in tenths, from the balance given.
NewBalance(r, balance) ==
  IF Credits(r) THEN 10 * balance + r.amount ELSE 10 * balance - r.amount

CoveredUnchecked(r, balance) == TRUE   \* FAULT
\* The check that the balance does not become negative.
Covered(r, balance) == NewBalance(r, balance) >= 0

Lock(w) ==
  LET r == sess[w].request IN
  /\ sess[w].pc = "created"
  /\ r.operation # "read"
  /\ WalletFree(w)
  /\ Covered(r, LockedBalance(w))
  /\ sess' = [sess EXCEPT ![w].pc = "locked", ![w].balance = LockedBalance(w)]
  /\ UNCHANGED <<wallets, wallet_transactions, idempotency_keys, replies, faults>>

\* FAULT: the guard's row was committed on its own.
RollbackKeepsKey(w) ==
  LET r == sess[w].request IN
  /\ sess' = [sess EXCEPT ![w] = Idle]
  /\ idempotency_keys' = IF r.operation \in Guarded
       THEN [idempotency_keys EXCEPT ![Slot(r)] =
               [hash |-> RequestHash(r), response |-> None]]
       ELSE idempotency_keys
  /\ UNCHANGED <<wallets, wallet_transactions, replies>>
\* Rollback: whatever the session inserted or changed is gone.
Rollback(w) ==
  /\ sess' = [sess EXCEPT ![w] = Idle]
  /\ UNCHANGED <<wallets, wallet_transactions, idempotency_keys, replies>>

\* ConflictError: not enough money.
Overdrawn(w) ==
  LET r == sess[w].request IN
  /\ sess[w].pc = "created"
  /\ r.operation # "read"
  /\ WalletFree(w)
  /\ ~Covered(r, LockedBalance(w))
  /\ Rollback(w)
  /\ UNCHANGED faults

\* FAULT: the newest row, read back before the new one is flushed.
LatestTransaction(u) ==
  LET n == Len(wallet_transactions[u]) IN <<u, IF n = 0 THEN 1 ELSE n>>
\* The row _apply adds, which the response is made from.
NewTransaction(u) == <<u, Len(wallet_transactions[u]) + 1>>

\* The balance, the ledger row and the key's response commit together.
Commit(w) ==
  LET r == sess[w].request
      u == r.owner
      after == Numeric(NewBalance(r, sess[w].balance))
      guarded == r.operation \in Guarded
      row == [credit |-> Credits(r), amount |-> Numeric(r.amount),
              balance_after |-> after, slot |-> IF guarded THEN Slot(r) ELSE None]
      transaction == NewTransaction(u)
  IN
  /\ sess[w].pc = "locked"
  /\ wallets' = [wallets EXCEPT ![u] = after]
  /\ wallet_transactions' = [wallet_transactions EXCEPT ![u] = Append(@, row)]
  /\ IF guarded
     THEN /\ idempotency_keys' = [idempotency_keys EXCEPT ![Slot(r)] =
                                    [hash |-> RequestHash(r), response |-> transaction]]
          /\ replies' = [replies EXCEPT ![r] = @ \cup {transaction}]
     ELSE UNCHANGED <<idempotency_keys, replies>>
  /\ sess' = [sess EXCEPT ![w] = Idle]
  /\ UNCHANGED faults

\* A GET commits the wallet it may have created.
CommitRead(w) ==
  /\ sess[w].pc = "created"
  /\ sess[w].request.operation = "read"
  /\ wallets' = IF sess[w].made THEN [wallets EXCEPT ![Owner(w)] = 0] ELSE wallets
  /\ sess' = [sess EXCEPT ![w] = Idle]
  /\ UNCHANGED <<wallet_transactions, idempotency_keys, replies, faults>>

\* The worker dies, or anything else raises.
Fail(w) ==
  /\ sess[w].pc # "idle"
  /\ faults < MaxFaults
  /\ faults' = faults + 1
  /\ Rollback(w)

-----------------------------------------------------------------------------
(* The specification.                                                      *)

Step(w) == GetOrCreate(w) \/ Lock(w) \/ Overdrawn(w) \/ Commit(w) \/ CommitRead(w)

Send(r) == \E w \in Workers : Guard(w, r) \/ Replay(w, r) \/ Unkeyed(w, r)

Next ==
  \/ \E w \in Workers : Step(w) \/ Fail(w)
  \/ \E r \in Requests : Send(r)

Spec == Init /\ [][Next]_vars

\* A handler that can run does run, and Postgres serves waiters in order.
FairSpec == Spec /\ \A w \in Workers : SF_vars(Step(w))

\* In addition the client repeats a deposit until it is answered.
Deposits == {r \in Requests : r.operation = "wallet.deposit"}
RetrySpec == FairSpec /\ \A r \in Deposits : SF_vars(Send(r) /\ replies[r] = {})

-----------------------------------------------------------------------------
(* Properties.                                                             *)

Before(ledger, i) == IF i = 1 THEN 0 ELSE ledger[i - 1].balance_after

\* The balance after the i-th row is the one before it and the row's amount; a
\* debit may have left one of the gaps.
Adds(ledger, i, gaps) ==
  IF ledger[i].credit
  THEN ledger[i].balance_after = Before(ledger, i) + ledger[i].amount
  ELSE ledger[i].balance_after - (Before(ledger, i) - ledger[i].amount) \in gaps

Total(balance, ledger, gaps) ==
  /\ \A i \in 1..Len(ledger) : Adds(ledger, i, gaps)
  /\ balance \in IF ledger = <<>> THEN {0, None} ELSE {ledger[Len(ledger)].balance_after}

\* wallets.balance is the sum of the ledger, as the docstring of WalletService
\* has it.  Not so: the columns round a debit's amount and the balance apart.
BalanceIsLedgerTotal ==
  \A u \in Users : Total(wallets[u], wallet_transactions[u], {0})

\* Whatever amounts are sent, concurrent operations, each computing a balance in
\* Python, lose no posting: every row continues from the row before it, a
\* debit being at most one Toman short of its amount, and the balance is the
\* last row's.
BalanceFollowsLedger ==
  \A u \in Users : Total(wallets[u], wallet_transactions[u], {0, 1})

\* A key moves money once, however often and however concurrently its request
\* is sent: no two ledger rows were written under one key.
OncePerKey ==
  \A u, v \in Users :
    \A i \in 1..Len(wallet_transactions[u]), j \in 1..Len(wallet_transactions[v]) :
      LET slot == wallet_transactions[u][i].slot IN
      slot # None /\ slot = wallet_transactions[v][j].slot => u = v /\ i = j

\* Every answer a client ever gets for a key is the transaction written under
\* that key, also when the answer is replayed from the stored response.
AnsweredByOwnTransaction ==
  \A r \in Requests : \A t \in replies[r] :
    /\ t[2] <= Len(wallet_transactions[t[1]])
    /\ wallet_transactions[t[1]][t[2]].slot = Slot(r)

\* Concurrent copies, locks, crashes and replays implement LedgerContract: each
\* posting is one indivisible step from the balance there is, under an unused
\* key, and an answer is the row posted under the key.  An amount with a
\* fraction is rounded in the row and in the balance, halves up in both.
Posting(r) ==
  [owner |-> r.owner, credit |-> Credits(r), amount |-> Numeric(r.amount),
   change |-> Numeric(NewBalance(r, 0)),
   slot |-> IF r.operation \in Guarded THEN Slot(r) ELSE None]
Posted == [t \in Slots |-> idempotency_keys[t].response]
Answers == UNION {{<<Slot(r), t>> : t \in replies[r]} : r \in Requests}
Contract == INSTANCE LedgerContract WITH
  Postings <- {Posting(r) : r \in {q \in Requests : q.operation # "read"}},
  ledger   <- wallet_transactions,
  posted   <- Posted,
  answers  <- Answers
WalletFollowsContract == Contract!Spec

\* No handler waits for ever for a key, an insert or a row lock.
EveryWalletRequestEnds ==
  \A w \in Workers : sess[w].pc # "idle" ~> sess[w].pc = "idle"

\* A deposit whose client repeats it until it is answered gets into the
\* ledger, wherever earlier tries crashed: no try leaves its key behind.
DepositsHappen ==
  \A r \in Deposits :
    <>(\E i \in 1..Len(wallet_transactions[r.owner]) :
         wallet_transactions[r.owner][i].slot = Slot(r))

-----------------------------------------------------------------------------
(* The inductive invariant.                                                *)

\* A running session has its request; only past get_or_create can it have
\* inserted the wallet.
SessionShape ==
  \A w \in Workers :
    /\ sess[w].pc # "idle" => sess[w].request \in Requests
    /\ sess[w].pc \in {"idle", "open"} => ~sess[w].made

\* A key in flight is neither committed nor in flight elsewhere.
KeysExclusive ==
  \A w \in Workers : \A slot \in Slots : HoldsKey(w, slot) =>
    /\ idempotency_keys[slot] = NoKey
    /\ \A v \in Workers \ {w} : ~HoldsKey(v, slot)

\* An inserted wallet is not committed nor inserted elsewhere; a locked one is
\* locked once, and its balance is still the one the session computes with.
WalletsExclusive ==
  \A w \in Workers :
    /\ sess[w].made =>
         /\ wallets[Owner(w)] = None
         /\ \A v \in Workers \ {w} : sess[v].made => Owner(v) # Owner(w)
    /\ sess[w].pc \in {"created", "locked"} /\ ~sess[w].made => wallets[Owner(w)] # None
    /\ sess[w].pc = "locked" =>
         /\ sess[w].request.operation # "read"
         /\ sess[w].balance = LockedBalance(w)
         /\ Covered(sess[w].request, sess[w].balance)
         /\ \A v \in Workers \ {w} : sess[v].pc = "locked" => Owner(v) # Owner(w)

\* A committed key points to the row written under it, and every row written
\* under a key has its key committed.
KeysPointToRows ==
  /\ \A slot \in Slots : idempotency_keys[slot] # NoKey =>
       LET t == idempotency_keys[slot].response IN
       /\ t[2] <= Len(wallet_transactions[t[1]])
       /\ wallet_transactions[t[1]][t[2]].slot = slot
  /\ \A u \in Users : \A i \in 1..Len(wallet_transactions[u]) :
       LET slot == wallet_transactions[u][i].slot IN
       slot # None => idempotency_keys[slot] # NoKey

WalletInv ==
  /\ WalletTypeOK
  /\ SessionShape
  /\ KeysExclusive
  /\ WalletsExclusive
  /\ KeysPointToRows
  /\ OncePerKey
  /\ AnsweredByOwnTransaction
=============================================================================
