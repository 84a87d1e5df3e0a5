--------------------------- MODULE LedgerContract ---------------------------
(***************************************************************************)
(* What wallet/ and common/idempotency.py promise together, with no        *)
(* sessions, locks, inserts or repeated requests in sight: a posting reads *)
(* and changes the balance, adds its row to the ledger and uses up its key *)
(* in one indivisible step, and whoever is answered for a key is answered  *)
(* with the row posted under it.                                           *)
(***************************************************************************)
EXTENDS Integers, Sequences

CONSTANTS
  Users,
  Slots,      \* names of idempotency keys
  Postings,   \* movements of money: [owner, credit, amount, change, slot], with the
              \* amount as the ledger shows it and the change of the balance
  None

VARIABLES
  wallets,    \* balance of each user's wallet, None: no row
  ledger,     \* the rows posted to each wallet, oldest first
  posted,     \* the place of the row posted under each key, None: unused
  answers     \* pairs of a key and the place of a row it was answered with

contract_vars == <<wallets, ledger, posted, answers>>

Init ==
  /\ wallets = [u \in Users |-> None]
  /\ ledger = [u \in Users |-> <<>>]
  /\ posted = [t \in Slots |-> None]
  /\ answers = {}

Open(u) ==
  /\ wallets[u] = None
  /\ wallets' = [wallets EXCEPT ![u] = 0]
  /\ UNCHANGED <<ledger, posted, answers>>

Balance(u) == IF wallets[u] = None THEN 0 ELSE wallets[u]

\* The balance moves by p.change and never below zero; under a key this
\* happens at most once, and the client is told where the row is.
Post(p) ==
  LET after == Balance(p.owner) + p.change
      place == <<p.owner, Len(ledger[p.owner]) + 1>>
      row   == [credit |-> p.credit, amount |-> p.amount, balance_after |-> after,
                slot |-> p.slot]
  IN
  /\ after >= 0
  /\ wallets' = [wallets EXCEPT ![p.owner] = after]
  /\ ledger' = [ledger EXCEPT ![p.owner] = Append(@, row)]
  /\ IF p.slot = None
     THEN UNCHANGED <<posted, answers>>
     ELSE /\ posted[p.slot] = None
          /\ posted' = [posted EXCEPT ![p.slot] = place]
          /\ answers' = answers \cup {<<p.slot, place>>}

\* The request is sent again.
Answer(t) ==
  /\ posted[t] # None
  /\ answers' = answers \cup {<<t, posted[t]>>}
  /\ UNCHANGED <<wallets, ledger, posted>>

Next ==
  \/ \E u \in Users : Open(u)
  \/ \E p \in Postings : Post(p)
  \/ \E t \in Slots : Answer(t)

Spec == Init /\ [][Next]_contract_vars
=============================================================================
