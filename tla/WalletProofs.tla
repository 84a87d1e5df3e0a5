---------------------------- MODULE WalletProofs ----------------------------
(***************************************************************************)
(* Proofs that Wallet keeps its invariant for any number of workers, users *)
(* and requests, and that the balance is the ledger's total when amounts   *)
(* are whole Tomans.                                                       *)
(***************************************************************************)
EXTENDS Wallet, TLAPS

LEMMA NumericIsNat ==
  ASSUME NEW n \in Nat
  PROVE  Numeric(n) \in Nat
  BY DEF Numeric

LEMMA SlotIsSlot ==
  ASSUME NEW r \in Requests, r.operation \in Guarded
  PROVE  Slot(r) \in Slots
  BY RequestsAssumption DEF RequestType, Slot, Slots

LEMMA RequestFields ==
  ASSUME NEW r \in Requests
  PROVE  r.owner \in Users /\ r.amount \in Nat
  BY RequestsAssumption DEF RequestType

LEMMA OverwritingOne ==
  ASSUME NEW D, NEW S, NEW f \in [D -> S], NEW d \in D, NEW x \in S,
         NEW g, g = [f EXCEPT ![d] = x]
  PROVE  /\ g \in [D -> S] /\ g[d] = x
         /\ \A e \in D : e # d => g[e] = f[e]
  OBVIOUS

LEMMA AddingToOne ==
  ASSUME NEW D, NEW T, NEW f \in [D -> SUBSET T], NEW d \in D, NEW x \in T,
         NEW g, g = [f EXCEPT ![d] = @ \cup {x}]
  PROVE  /\ g \in [D -> SUBSET T]
         /\ \A e \in D : \A y \in g[e] : y \in f[e] \/ (e = d /\ y = x)
<1>1. g = [f EXCEPT ![d] = f[d] \cup {x}] /\ f[d] \cup {x} \in SUBSET T
  OBVIOUS
<1>2. /\ g \in [D -> SUBSET T] /\ g[d] = f[d] \cup {x}
      /\ \A e \in D : e # d => g[e] = f[e]
  BY <1>1
<1>3. ASSUME NEW e \in D, NEW y \in g[e]
      PROVE  y \in f[e] \/ (e = d /\ y = x)
  <2>1. CASE e = d
    BY <1>2, <1>3, <2>1
  <2>2. CASE e # d
    BY <1>2, <1>3, <2>2
  <2> QED
    BY <2>1, <2>2
<1> QED
  BY <1>2, <1>3

LEMMA IdleIsSession == Idle \in Sessions
  BY DEF Idle, Sessions

-----------------------------------------------------------------------------
(* Steps that change only sess, or sess and replies.                       *)

\* A step that leaves the committed rows and the replies alone.
LEMMA SessionOnly ==
  ASSUME WalletInv, UNCHANGED <<wallets, wallet_transactions, idempotency_keys, replies>>,
         sess' \in [Workers -> Sessions], faults' \in 0..MaxFaults,
         SessionShape', KeysExclusive', WalletsExclusive'
  PROVE  WalletInv'
<1>1. WalletTypeOK'
  BY DEF WalletInv, WalletTypeOK
<1>2. KeysPointToRows' /\ OncePerKey' /\ AnsweredByOwnTransaction'
  BY DEF WalletInv, KeysPointToRows, OncePerKey, AnsweredByOwnTransaction
<1> QED
  BY <1>1, <1>2 DEF WalletInv

LEMMA BeginKeepsInv ==
  ASSUME WalletInv, NEW r \in Requests, NEW w \in Workers, Begin(w, r),
         r.operation \in Guarded => KeyFree(Slot(r))
  PROVE  WalletInv'
<1> DEFINE s == [Idle EXCEPT !.pc = "open", !.request = r]
<1>1. /\ sess' = [sess EXCEPT ![w] = s] /\ sess \in [Workers -> Sessions]
      /\ UNCHANGED <<wallets, wallet_transactions, idempotency_keys, replies, faults>>
  BY DEF Begin, WalletInv, WalletTypeOK
<1>2. s \in Sessions /\ s.pc = "open" /\ s.request = r /\ s.made = FALSE
  BY DEF Idle, Sessions
<1> HIDE DEF s
<1>3. sess' \in [Workers -> Sessions] /\ sess'[w] = s
      /\ \A v \in Workers \ {w} : sess'[v] = sess[v]
  BY <1>1, <1>2
<1>4. SessionShape'
  BY <1>2, <1>3 DEF WalletInv, SessionShape
<1>5. KeysExclusive'
  <2>1. \A v \in Workers \ {w} : \A slot \in Slots : HoldsKey(v, slot)' <=> HoldsKey(v, slot)
    BY <1>3 DEF HoldsKey
  <2>2. \A slot \in Slots : HoldsKey(w, slot)' => slot = Slot(r) /\ r.operation \in Guarded
    BY <1>2, <1>3 DEF HoldsKey
  <2> QED
    BY <1>1, <2>1, <2>2 DEF WalletInv, KeysExclusive, KeyFree
<1>6. WalletsExclusive'
  BY <1>1, <1>2, <1>3 DEF WalletInv, WalletsExclusive, Owner, LockedBalance, Covered
<1> QED
  BY <1>1, <1>3, <1>4, <1>5, <1>6, SessionOnly DEF WalletInv, WalletTypeOK

LEMMA RollbackKeepsInv ==
  ASSUME WalletInv, NEW w \in Workers, Rollback(w), faults' \in 0..MaxFaults
  PROVE  WalletInv'
<1>1. /\ sess' = [sess EXCEPT ![w] = Idle] /\ sess \in [Workers -> Sessions]
      /\ UNCHANGED <<wallets, wallet_transactions, idempotency_keys, replies>>
  BY DEF Rollback, WalletInv, WalletTypeOK
<1>2. sess' \in [Workers -> Sessions] /\ sess'[w] = Idle
      /\ \A v \in Workers \ {w} : sess'[v] = sess[v]
  BY <1>1, IdleIsSession
<1>3. Idle.pc = "idle" /\ Idle.made = FALSE
  BY DEF Idle
<1>4. SessionShape'
  BY <1>2, <1>3 DEF WalletInv, SessionShape
<1>5. KeysExclusive'
  <2>1. \A v \in Workers \ {w} : \A slot \in Slots : HoldsKey(v, slot)' <=> HoldsKey(v, slot)
    BY <1>2 DEF HoldsKey
  <2>2. \A slot \in Slots : ~HoldsKey(w, slot)'
    BY <1>2, <1>3 DEF HoldsKey
  <2> QED
    BY <1>1, <2>1, <2>2 DEF WalletInv, KeysExclusive
<1>6. WalletsExclusive'
  BY <1>1, <1>2, <1>3 DEF WalletInv, WalletsExclusive, Owner, LockedBalance, Covered
<1> QED
  BY <1>1, <1>2, <1>4, <1>5, <1>6, SessionOnly

LEMMA GetOrCreateKeepsInv ==
  ASSUME WalletInv, NEW w \in Workers, GetOrCreate(w)
  PROVE  WalletInv'
<1> DEFINE s == sess[w]
           t == [s EXCEPT !.pc = "created", !.made = wallets[Owner(w)] = None]
<1>1. /\ sess' = [sess EXCEPT ![w] = t] /\ sess \in [Workers -> Sessions]
      /\ UNCHANGED <<wallets, wallet_transactions, idempotency_keys, replies, faults>>
      /\ s.pc = "open"
  BY DEF GetOrCreate, WalletInv, WalletTypeOK
<1>2. /\ t \in Sessions /\ t.pc = "created" /\ t.request = s.request
      /\ t.made <=> wallets[Owner(w)] = None
  BY <1>1 DEF Sessions
<1> HIDE DEF t
<1>3. sess' \in [Workers -> Sessions] /\ sess'[w] = t
      /\ \A v \in Workers \ {w} : sess'[v] = sess[v]
  BY <1>1, <1>2
<1>o. \A v \in Workers : Owner(v)' = Owner(v)
  BY <1>2, <1>3 DEF Owner
<1>4. SessionShape'
  BY <1>1, <1>2, <1>3 DEF WalletInv, SessionShape
<1>5. KeysExclusive'
  <2>1. \A v \in Workers : \A slot \in Slots : HoldsKey(v, slot)' <=> HoldsKey(v, slot)
    BY <1>1, <1>2, <1>3 DEF HoldsKey
  <2> QED
    BY <1>1, <2>1 DEF WalletInv, KeysExclusive
<1>6. WalletsExclusive'
  <2>1. wallets[Owner(w)] = None => \A v \in Workers : sess[v].made => Owner(v) # Owner(w)
    BY DEF GetOrCreate
  <2> QED
    BY <1>1, <1>2, <1>3, <1>o, <2>1 DEF WalletInv, WalletsExclusive, LockedBalance, Covered
<1> QED
  BY <1>1, <1>3, <1>4, <1>5, <1>6, SessionOnly DEF WalletInv, WalletTypeOK

LEMMA LockKeepsInv ==
  ASSUME WalletInv, NEW w \in Workers, Lock(w)
  PROVE  WalletInv'
<1> DEFINE s == sess[w]
           t == [s EXCEPT !.pc = "locked", !.balance = LockedBalance(w)]
<1>1. /\ sess' = [sess EXCEPT ![w] = t] /\ sess \in [Workers -> Sessions]
      /\ UNCHANGED <<wallets, wallet_transactions, idempotency_keys, replies, faults>>
      /\ s.pc = "created" /\ s.request.operation # "read"
      /\ Covered(s.request, LockedBalance(w))
  BY DEF Lock, WalletInv, WalletTypeOK
<1>2. Owner(w) \in Users /\ LockedBalance(w) \in Nat
  <2>1. Owner(w) \in Users
    BY <1>1, RequestFields DEF WalletInv, SessionShape, Owner
  <2>2. ~s.made => wallets[Owner(w)] # None /\ wallets[Owner(w)] \in Nat \cup {None}
    BY <1>1, <2>1 DEF WalletInv, WalletsExclusive, WalletTypeOK
  <2> QED
    BY <2>1, <2>2 DEF LockedBalance
<1>3. /\ t \in Sessions /\ t.pc = "locked" /\ t.request = s.request
      /\ t.made = s.made /\ t.balance = LockedBalance(w)
  BY <1>1, <1>2 DEF Sessions
<1> HIDE DEF t
<1>4. sess' \in [Workers -> Sessions] /\ sess'[w] = t
      /\ \A v \in Workers \ {w} : sess'[v] = sess[v]
  BY <1>1, <1>3
<1>5. SessionShape'
  BY <1>1, <1>3, <1>4 DEF WalletInv, SessionShape
<1>6. KeysExclusive'
  <2>1. \A v \in Workers : \A slot \in Slots : HoldsKey(v, slot)' <=> HoldsKey(v, slot)
    BY <1>1, <1>3, <1>4 DEF HoldsKey
  <2> QED
    BY <1>1, <2>1 DEF WalletInv, KeysExclusive
<1>7. WalletsExclusive'
  <2>1. \A v \in Workers : Owner(v)' = Owner(v) /\ LockedBalance(v)' = LockedBalance(v)
    BY <1>1, <1>3, <1>4 DEF Owner, LockedBalance
  <2>2. \A v \in Workers : sess[v].pc = "locked" => Owner(v) # Owner(w)
    BY DEF Lock, WalletFree
  <2> QED
    BY <1>1, <1>3, <1>4, <2>1, <2>2 DEF WalletInv, WalletsExclusive, Covered, NewBalance,
       Credits
<1> QED
  BY <1>1, <1>4, <1>5, <1>6, <1>7, SessionOnly DEF WalletInv, WalletTypeOK

LEMMA ReplayKeepsInv ==
  ASSUME WalletInv, NEW w \in Workers, NEW r \in Requests, Replay(w, r)
  PROVE  WalletInv'
<1> DEFINE key == idempotency_keys[Slot(r)]
<1>1. /\ replies' = [replies EXCEPT ![r] = @ \cup {key.response}]
      /\ UNCHANGED <<wallets, wallet_transactions, idempotency_keys, sess, faults>>
      /\ r.operation \in Guarded /\ key # NoKey
  BY DEF Replay
<1>2. Slot(r) \in Slots
  BY <1>1, SlotIsSlot
<1>3. key.response \in Transactions
  BY <1>1, <1>2 DEF WalletInv, WalletTypeOK, KeyRows
<1>4. WalletTypeOK'
  BY <1>1, <1>3 DEF WalletInv, WalletTypeOK
<1>5. AnsweredByOwnTransaction'
  <2>1. /\ key.response[2] <= Len(wallet_transactions[key.response[1]])
        /\ wallet_transactions[key.response[1]][key.response[2]].slot = Slot(r)
    BY <1>1, <1>2 DEF WalletInv, KeysPointToRows
  <2>2. \A q \in Requests : \A t \in replies'[q] :
          t \in replies[q] \/ (q = r /\ t = key.response)
    <3>1. replies \in [Requests -> SUBSET Transactions]
      BY DEF WalletInv, WalletTypeOK
    <3> DEFINE x == key.response
    <3>2. replies' = [replies EXCEPT ![r] = @ \cup {x}] /\ x \in Transactions
      BY <1>1, <1>3
    <3> HIDE DEF x
    <3>3. \A q \in Requests : \A t \in replies'[q] : t \in replies[q] \/ (q = r /\ t = x)
      BY <3>1, <3>2, AddingToOne
    <3> QED
      BY <3>3 DEF x
  <2> QED
    BY <1>1, <2>1, <2>2 DEF WalletInv, AnsweredByOwnTransaction
<1>6. SessionShape' /\ KeysExclusive' /\ WalletsExclusive'
  BY <1>1 DEF WalletInv, SessionShape, KeysExclusive, HoldsKey, WalletsExclusive, Owner,
     LockedBalance, Covered, NewBalance, Credits
<1>7. KeysPointToRows' /\ OncePerKey'
  BY <1>1 DEF WalletInv, KeysPointToRows, OncePerKey
<1> QED
  BY <1>4, <1>5, <1>6, <1>7 DEF WalletInv

-----------------------------------------------------------------------------
(* Commits.                                                                *)

\* A commit that ends the session, and may change the wallet it has inserted
\* or locked, leaves the other sessions' wallets alone.
LEMMA WalletsStayExclusive ==
  ASSUME WalletInv, NEW w \in Workers, sess' = [sess EXCEPT ![w] = Idle],
         sess[w].pc # "idle",
         sess[w].made \/ sess[w].pc = "locked",
         NEW balance \in Nat, wallets' = [wallets EXCEPT ![Owner(w)] = balance]
  PROVE  SessionShape' /\ WalletsExclusive'
<1>1. /\ sess \in [Workers -> Sessions]
      /\ wallets \in [Users -> Nat \cup {None}]
  BY DEF WalletInv, WalletTypeOK
<1>2. sess'[w] = Idle /\ \A v \in Workers \ {w} : sess'[v] = sess[v]
  BY <1>1
<1>3. Idle.pc = "idle" /\ Idle.made = FALSE
  BY DEF Idle
<1>4. SessionShape'
  BY <1>2, <1>3 DEF WalletInv, SessionShape
<1>5. Owner(w) \in Users /\ balance # None
  BY RequestFields, WalletNone DEF WalletInv, SessionShape, Owner
<1>6. /\ wallets'[Owner(w)] = balance
      /\ \A u \in Users : u # Owner(w) => wallets'[u] = wallets[u]
  BY <1>1, <1>5
<1>7. ASSUME NEW v \in Workers \ {w}, sess[v].pc # "idle"
      PROVE  Owner(v)' = Owner(v) /\ Owner(v) \in Users
  BY <1>2, <1>7, RequestFields DEF WalletInv, SessionShape, Owner
<1>8. ASSUME NEW v \in Workers \ {w}, sess[v].made \/ sess[v].pc = "locked"
      PROVE  /\ sess[v].pc # "idle"
             /\ Owner(v) # Owner(w)
             /\ LockedBalance(v)' = LockedBalance(v)
  <2>1. sess[v].pc # "idle"
    BY <1>8 DEF WalletInv, SessionShape
  <2>2. Owner(v) # Owner(w)
    BY <1>8, <2>1 DEF WalletInv, WalletsExclusive
  <2> QED
    BY <1>2, <1>6, <1>7, <2>1, <2>2 DEF LockedBalance
<1>9. ASSUME NEW v \in Workers \ {w}
      PROVE  /\ sess'[v].made =>
                  /\ wallets'[Owner(v)'] = None
                  /\ \A x \in Workers \ {v} : sess'[x].made => Owner(x)' # Owner(v)'
             /\ sess'[v].pc \in {"created", "locked"} /\ ~sess'[v].made =>
                  wallets'[Owner(v)'] # None
             /\ sess'[v].pc = "locked" =>
                  /\ sess'[v].request.operation # "read"
                  /\ sess'[v].balance = LockedBalance(v)'
                  /\ Covered(sess'[v].request, sess'[v].balance)
                  /\ \A x \in Workers \ {v} : sess'[x].pc = "locked" => Owner(x)' # Owner(v)'
  <2>1. CASE sess[v].pc = "idle"
    BY <1>2, <2>1 DEF WalletInv, SessionShape
  <2>2. CASE sess[v].pc # "idle"
    <3>1. Owner(v)' = Owner(v) /\ Owner(v) \in Users /\ sess'[v] = sess[v]
      BY <1>2, <1>7, <2>2
    <3>2. sess[v].made => /\ wallets'[Owner(v)] = None
                          /\ \A x \in Workers \ {v} : sess'[x].made => Owner(x)' # Owner(v)
      BY <1>2, <1>3, <1>6, <1>7, <1>8, <3>1 DEF WalletInv, WalletsExclusive
    <3>3. sess[v].pc \in {"created", "locked"} /\ ~sess[v].made => wallets'[Owner(v)] # None
      BY <1>5, <1>6, <3>1 DEF WalletInv, WalletsExclusive
    <3>4. sess[v].pc = "locked" =>
            /\ sess[v].request.operation # "read"
            /\ sess[v].balance = LockedBalance(v)'
            /\ Covered(sess[v].request, sess[v].balance)
            /\ \A x \in Workers \ {v} : sess'[x].pc = "locked" => Owner(x)' # Owner(v)
      BY <1>2, <1>3, <1>7, <1>8, <3>1 DEF WalletInv, WalletsExclusive
    <3> QED
      BY <3>1, <3>2, <3>3, <3>4
  <2> QED
    BY <2>1, <2>2
<1>10. WalletsExclusive'
  BY <1>2, <1>3, <1>9 DEF WalletsExclusive, Covered, NewBalance, Credits
<1> QED
  BY <1>4, <1>10

LEMMA CommitReadKeepsInv ==
  ASSUME WalletInv, NEW w \in Workers, CommitRead(w)
  PROVE  WalletInv'
<1>1. /\ sess' = [sess EXCEPT ![w] = Idle] /\ sess \in [Workers -> Sessions]
      /\ UNCHANGED <<wallet_transactions, idempotency_keys, replies, faults>>
      /\ sess[w].pc = "created"
  BY DEF CommitRead, WalletInv, WalletTypeOK
<1>2. CASE ~sess[w].made
  <2>1. Rollback(w) /\ faults' \in 0..MaxFaults
    BY <1>1, <1>2 DEF CommitRead, Rollback, WalletInv, WalletTypeOK
  <2> QED
    BY <2>1, RollbackKeepsInv
<1>3. CASE sess[w].made
  <2>1. wallets' = [wallets EXCEPT ![Owner(w)] = 0]
    BY <1>3 DEF CommitRead
  <2>2. SessionShape' /\ WalletsExclusive'
    BY <1>1, <1>3, <2>1, WalletsStayExclusive
  <2>3. WalletTypeOK'
    BY <1>1, <2>1, IdleIsSession DEF WalletInv, WalletTypeOK
  <2>4. KeysExclusive'
    <3>1. \A v \in Workers : \A slot \in Slots : HoldsKey(v, slot)' => HoldsKey(v, slot)
      BY <1>1 DEF HoldsKey, Idle
    <3> QED
      BY <1>1, <3>1 DEF WalletInv, KeysExclusive
  <2>5. KeysPointToRows' /\ OncePerKey' /\ AnsweredByOwnTransaction'
    BY <1>1 DEF WalletInv, KeysPointToRows, OncePerKey, AnsweredByOwnTransaction
  <2> QED
    BY <2>2, <2>3, <2>4, <2>5 DEF WalletInv
<1> QED
  BY <1>2, <1>3

\* What a commit of _apply writes.
LEMMA CommitWrites ==
  ASSUME WalletInv, NEW w \in Workers, Commit(w)
  PROVE  LET r == sess[w].request
             u == r.owner
             after == Numeric(NewBalance(r, sess[w].balance))
             n == Len(wallet_transactions[u]) + 1
             slot == IF r.operation \in Guarded THEN Slot(r) ELSE None
         IN  /\ r \in Requests /\ u \in Users /\ after \in Nat /\ n \in Nat \ {0}
             /\ wallets' = [wallets EXCEPT ![u] = after]
             /\ wallet_transactions' \in [Users -> Seq(LedgerRows)]
             /\ \A v \in Users \ {u} : wallet_transactions'[v] = wallet_transactions[v]
             /\ Len(wallet_transactions'[u]) = n
             /\ \A i \in 1..(n - 1) : wallet_transactions'[u][i] = wallet_transactions[u][i]
             /\ wallet_transactions'[u][n] =
                  [credit |-> Credits(r), amount |-> Numeric(r.amount),
                   balance_after |-> after, slot |-> slot]
<1> DEFINE r == sess[w].request
           u == r.owner
           after == Numeric(NewBalance(r, sess[w].balance))
           n == Len(wallet_transactions[u]) + 1
           slot == IF r.operation \in Guarded THEN Slot(r) ELSE None
           row == [credit |-> Credits(r), amount |-> Numeric(r.amount),
                   balance_after |-> after, slot |-> slot]
<1>1. sess[w].pc = "locked" /\ sess[w] \in Sessions
  BY DEF Commit, WalletInv, WalletTypeOK
<1>2. r \in Requests /\ u \in Users /\ r.amount \in Nat
  BY <1>1, RequestFields DEF WalletInv, SessionShape
<1>3. after \in Nat
  <2>1. Covered(r, sess[w].balance) /\ sess[w].balance \in Nat
    BY <1>1 DEF WalletInv, WalletsExclusive, Sessions
  <2>2. NewBalance(r, sess[w].balance) \in Nat
    BY <1>2, <2>1 DEF Covered, NewBalance
  <2> QED
    BY <2>2, NumericIsNat
<1>4. slot \in Slots \cup {None}
  BY <1>2, SlotIsSlot
<1>5. row \in LedgerRows
  BY <1>2, <1>3, <1>4, NumericIsNat DEF LedgerRows, Credits
<1>6. wallet_transactions' = [wallet_transactions EXCEPT ![u] = Append(@, row)]
      /\ wallets' = [wallets EXCEPT ![u] = after]
  BY DEF Commit
<1>7. wallet_transactions \in [Users -> Seq(LedgerRows)]
  BY DEF WalletInv, WalletTypeOK
<1> HIDE DEF r, row, after, slot
<1>8. wallet_transactions'[u] = Append(wallet_transactions[u], row)
      /\ wallet_transactions[u] \in Seq(LedgerRows)
      /\ \A v \in Users \ {u} : wallet_transactions'[v] = wallet_transactions[v]
  BY <1>2, <1>6, <1>7
<1>9. /\ Append(wallet_transactions[u], row) \in Seq(LedgerRows)
      /\ n \in Nat \ {0}
      /\ Len(wallet_transactions'[u]) = n
      /\ \A i \in 1..(n - 1) : wallet_transactions'[u][i] = wallet_transactions[u][i]
      /\ wallet_transactions'[u][n] = row
  BY <1>5, <1>8
<1>10. wallet_transactions' \in [Users -> Seq(LedgerRows)]
  BY <1>2, <1>6, <1>7, <1>9
<1> QED
  BY <1>2, <1>3, <1>6, <1>8, <1>9, <1>10 DEF r, row, after, slot

LEMMA CommitKeepsInv ==
  ASSUME WalletInv, NEW w \in Workers, Commit(w)
  PROVE  WalletInv'
<1> DEFINE r == sess[w].request
           u == r.owner
           after == Numeric(NewBalance(r, sess[w].balance))
           n == Len(wallet_transactions[u]) + 1
           slot == IF r.operation \in Guarded THEN Slot(r) ELSE None
           row == [credit |-> Credits(r), amount |-> Numeric(r.amount),
                   balance_after |-> after, slot |-> slot]
<1>1. /\ sess' = [sess EXCEPT ![w] = Idle] /\ sess \in [Workers -> Sessions]
      /\ faults' = faults
      /\ sess[w].pc = "locked"
  BY DEF Commit, WalletInv, WalletTypeOK
<1>2. /\ r \in Requests /\ u \in Users /\ after \in Nat /\ n \in Nat \ {0}
      /\ wallets' = [wallets EXCEPT ![u] = after]
      /\ wallet_transactions' \in [Users -> Seq(LedgerRows)]
      /\ \A v \in Users \ {u} : wallet_transactions'[v] = wallet_transactions[v]
      /\ Len(wallet_transactions'[u]) = n
      /\ \A i \in 1..(n - 1) : wallet_transactions'[u][i] = wallet_transactions[u][i]
  BY CommitWrites
<1>r. wallet_transactions'[u][n].slot = slot
  <2>1. wallet_transactions'[u][n] = row
    BY CommitWrites
  <2> QED
    BY <2>1
<1>3. IF r.operation \in Guarded
      THEN /\ idempotency_keys' = [idempotency_keys EXCEPT ![slot] =
                                     [hash |-> r.amount, response |-> <<u, n>>]]
           /\ replies' = [replies EXCEPT ![r] = @ \cup {<<u, n>>}]
      ELSE UNCHANGED <<idempotency_keys, replies>>
  BY DEF Commit, RequestHash, NewTransaction
<1>4. /\ r.operation \in Guarded => slot = Slot(r) /\ slot \in Slots
      /\ r.operation \notin Guarded => slot = None
  BY <1>2, SlotIsSlot
<1>5. r.operation \in Guarded =>
        HoldsKey(w, slot) /\ idempotency_keys[slot] = NoKey
  BY <1>1, <1>4 DEF HoldsKey, WalletInv, KeysExclusive
<1>6. SessionShape' /\ WalletsExclusive'
  BY <1>1, <1>2, WalletsStayExclusive DEF Owner
<1>t. /\ idempotency_keys \in [Slots -> KeyRows \cup {NoKey}]
      /\ replies \in [Requests -> SUBSET Transactions]
      /\ wallet_transactions \in [Users -> Seq(LedgerRows)]
      /\ wallets \in [Users -> Nat \cup {None}]
      /\ faults \in 0..MaxFaults
      /\ r.amount \in Nat
  BY <1>2, RequestFields DEF WalletInv, WalletTypeOK
<1>s. wallet_transactions[u] \in Seq(LedgerRows) /\ Len(wallet_transactions[u]) = n - 1
  BY <1>2, <1>t
<1> HIDE DEF r, after, slot, n
<1>7. /\ idempotency_keys' \in [Slots -> KeyRows \cup {NoKey}]
      /\ \A x \in Slots : x # slot => idempotency_keys'[x] = idempotency_keys[x]
      /\ r.operation \in Guarded =>
           idempotency_keys'[slot] = [hash |-> r.amount, response |-> <<u, n>>]
      /\ r.operation \notin Guarded => idempotency_keys' = idempotency_keys
  <2>1. CASE r.operation \notin Guarded
    BY <1>3, <1>t, <2>1
  <2>2. CASE r.operation \in Guarded
    <3> DEFINE key == [hash |-> r.amount, response |-> <<u, n>>]
    <3>1. key \in KeyRows \cup {NoKey}
      BY <1>2, <1>t DEF KeyRows, Transactions
    <3>2. idempotency_keys' = [idempotency_keys EXCEPT ![slot] = key] /\ slot \in Slots
      BY <1>3, <1>4, <2>2
    <3> HIDE DEF key
    <3>3. /\ idempotency_keys' \in [Slots -> KeyRows \cup {NoKey}]
          /\ \A x \in Slots : x # slot => idempotency_keys'[x] = idempotency_keys[x]
          /\ idempotency_keys'[slot] = key
      BY <1>t, <3>1, <3>2
    <3> QED
      BY <2>2, <3>3 DEF key
  <2> QED
    BY <2>1, <2>2
<1>8. /\ replies' \in [Requests -> SUBSET Transactions]
      /\ \A q \in Requests : \A x \in replies'[q] :
           x \in replies[q] \/ (q = r /\ x = <<u, n>> /\ r.operation \in Guarded)
  <2>1. CASE r.operation \notin Guarded
    <3>1. replies' = replies
      BY <1>3, <2>1
    <3> QED
      BY <1>t, <3>1
  <2>2. CASE r.operation \in Guarded
    <3>1. <<u, n>> \in Transactions
      BY <1>2 DEF Transactions
    <3>2. replies' = [replies EXCEPT ![r] = @ \cup {<<u, n>>}]
      BY <1>3, <2>2
    <3> DEFINE t == <<u, n>>
    <3> HIDE DEF t
    <3>3. /\ replies' \in [Requests -> SUBSET Transactions]
          /\ \A q \in Requests : \A x \in replies'[q] : x \in replies[q] \/ (q = r /\ x = t)
      <4>1. t \in Transactions /\ replies' = [replies EXCEPT ![r] = @ \cup {t}]
        BY <3>1, <3>2 DEF t
      <4> QED
        BY <1>2, <1>t, <4>1, AddingToOne
    <3> QED
      BY <2>2, <3>3 DEF t
  <2> QED
    BY <2>1, <2>2
<1>9. WalletTypeOK'
  BY <1>1, <1>2, <1>7, <1>8, <1>t, IdleIsSession DEF WalletTypeOK
<1>10. KeysExclusive'
  <2>1. \A v \in Workers : \A x \in Slots : HoldsKey(v, x)' => v # w /\ HoldsKey(v, x)
    BY <1>1 DEF HoldsKey, Idle
  <2>2. \A v \in Workers : \A x \in Slots : HoldsKey(v, x)' /\ r.operation \in Guarded => x # slot
    BY <1>4, <1>5, <2>1 DEF WalletInv, KeysExclusive
  <2> QED
    BY <1>7, <2>1, <2>2 DEF WalletInv, KeysExclusive
<1>11. \A v \in Users : \A i \in 1..Len(wallet_transactions[v]) :
         /\ i \in 1..Len(wallet_transactions'[v])
         /\ wallet_transactions'[v][i] = wallet_transactions[v][i]
  <2> SUFFICES ASSUME NEW v \in Users, NEW i \in 1..Len(wallet_transactions[v])
               PROVE  /\ i \in 1..Len(wallet_transactions'[v])
                      /\ wallet_transactions'[v][i] = wallet_transactions[v][i]
    OBVIOUS
  <2>1. CASE v = u
    <3>1. i \in 1..(n - 1) /\ Len(wallet_transactions'[v]) = n /\ n \in Nat
      BY <1>2, <1>s, <2>1
    <3> QED
      BY <1>2, <2>1, <3>1
  <2>2. CASE v # u
    BY <1>2, <2>2
  <2> QED
    BY <2>1, <2>2
<1>12. \A v \in Users : \A i \in 1..Len(wallet_transactions'[v]) :
         \/ i \in 1..Len(wallet_transactions[v])
         \/ v = u /\ i = n /\ wallet_transactions'[v][i].slot = slot
  BY <1>2, <1>r, <1>s, <1>t
<1>13. KeysPointToRows'
  <2>1. ASSUME NEW x \in Slots, idempotency_keys'[x] # NoKey
        PROVE  LET t == idempotency_keys'[x].response IN
               /\ t[2] <= Len(wallet_transactions'[t[1]])
               /\ wallet_transactions'[t[1]][t[2]].slot = x
    <3>1. CASE x = slot /\ r.operation \in Guarded
      BY <1>2, <1>r, <1>7, <3>1
    <3>2. CASE ~(x = slot /\ r.operation \in Guarded)
      <4> DEFINE t == idempotency_keys[x].response
      <4>1. idempotency_keys'[x] = idempotency_keys[x]
        BY <1>7, <3>2
      <4>2. t \in Transactions /\ t[1] \in Users /\ t[2] \in Nat \ {0}
        BY <1>t, <2>1, <4>1 DEF KeyRows, Transactions
      <4>3. /\ t[2] <= Len(wallet_transactions[t[1]])
            /\ wallet_transactions[t[1]][t[2]].slot = x
        BY <2>1, <4>1 DEF WalletInv, KeysPointToRows
      <4>4. t[2] \in 1..Len(wallet_transactions[t[1]])
        BY <1>t, <4>2, <4>3
      <4> HIDE DEF t
      <4>5. /\ t[2] \in 1..Len(wallet_transactions'[t[1]])
            /\ wallet_transactions'[t[1]][t[2]].slot = x
        BY <1>11, <4>2, <4>3, <4>4
      <4> QED
        BY <4>1, <4>2, <4>5 DEF t
    <3> QED
      BY <3>1, <3>2
  <2>2. ASSUME NEW v \in Users, NEW i \in 1..Len(wallet_transactions'[v]),
               wallet_transactions'[v][i].slot # None
        PROVE  idempotency_keys'[wallet_transactions'[v][i].slot] # NoKey
    <3>k. \A x : [hash |-> r.amount, response |-> x] # NoKey
      BY <1>t, WalletNone DEF NoKey
    <3>1. CASE i \in 1..Len(wallet_transactions[v])
      <4> DEFINE x == wallet_transactions[v][i].slot
      <4>1. wallet_transactions'[v][i] = wallet_transactions[v][i]
        BY <1>11, <3>1
      <4>t. wallet_transactions[v][i] \in LedgerRows
        BY <1>t, <3>1
      <4>3. wallet_transactions'[v][i].slot = x /\ x \in Slots
        BY <2>2, <4>1, <4>t DEF LedgerRows
      <4>2. idempotency_keys[x] # NoKey
        BY <2>2, <3>1, <4>3 DEF WalletInv, KeysPointToRows
      <4> QED
        BY <1>5, <1>7, <4>3, <4>2
    <3>2. CASE v = u /\ i = n /\ wallet_transactions'[v][i].slot = slot
      BY <1>4, <1>7, <2>2, <3>2, <3>k
    <3> QED
      BY <1>12, <3>1, <3>2
  <2> QED
    BY <2>1, <2>2 DEF KeysPointToRows
<1>14. \A v \in Users : \A i \in 1..Len(wallet_transactions[v]) :
         slot # None => wallet_transactions[v][i].slot # slot
  BY <1>4, <1>5 DEF WalletInv, KeysPointToRows
<1>15. OncePerKey'
  <2> SUFFICES ASSUME NEW v1 \in Users, NEW v2 \in Users,
                      NEW i \in 1..Len(wallet_transactions'[v1]),
                      NEW j \in 1..Len(wallet_transactions'[v2]),
                      wallet_transactions'[v1][i].slot # None,
                      wallet_transactions'[v1][i].slot = wallet_transactions'[v2][j].slot
               PROVE  v1 = v2 /\ i = j
    BY DEF OncePerKey
  <2>1. CASE /\ i \in 1..Len(wallet_transactions[v1])
             /\ j \in 1..Len(wallet_transactions[v2])
    <3>1. /\ wallet_transactions'[v1][i] = wallet_transactions[v1][i]
          /\ wallet_transactions'[v2][j] = wallet_transactions[v2][j]
      BY <1>11, <2>1
    <3>2. /\ wallet_transactions[v1][i].slot # None
          /\ wallet_transactions[v1][i].slot = wallet_transactions[v2][j].slot
      BY <3>1
    <3> QED
      BY <2>1, <3>2 DEF WalletInv, OncePerKey
  <2>2. CASE i \in 1..Len(wallet_transactions[v1]) /\ v2 = u /\ j = n
             /\ wallet_transactions'[v2][j].slot = slot
    BY <1>11, <1>14, <2>2
  <2>3. CASE j \in 1..Len(wallet_transactions[v2]) /\ v1 = u /\ i = n
             /\ wallet_transactions'[v1][i].slot = slot
    BY <1>11, <1>14, <2>3
  <2> QED
    BY <1>12, <2>1, <2>2, <2>3
<1>16. AnsweredByOwnTransaction'
  <2> SUFFICES ASSUME NEW q \in Requests, NEW x \in replies'[q]
               PROVE  /\ x[2] <= Len(wallet_transactions'[x[1]])
                      /\ wallet_transactions'[x[1]][x[2]].slot = Slot(q)
    BY DEF AnsweredByOwnTransaction
  <2>1. CASE x \in replies[q]
    <3>1. /\ x[1] \in Users /\ x[2] \in Nat \ {0}
          /\ x[2] <= Len(wallet_transactions[x[1]])
          /\ wallet_transactions[x[1]][x[2]].slot = Slot(q)
      BY <1>t, <2>1 DEF WalletInv, AnsweredByOwnTransaction, Transactions
    <3>2. x[2] \in 1..Len(wallet_transactions[x[1]])
      BY <1>t, <3>1
    <3> QED
      BY <1>11, <3>1, <3>2
  <2>2. CASE q = r /\ x = <<u, n>> /\ r.operation \in Guarded
    BY <1>2, <1>r, <1>4, <2>2
  <2> QED
    BY <1>8, <2>1, <2>2
<1> QED
  BY <1>6, <1>9, <1>10, <1>13, <1>15, <1>16 DEF WalletInv

-----------------------------------------------------------------------------
(* The invariant, and what follows from it.                                *)

LEMMA InitEstablishesInv == Init => WalletInv
<1> SUFFICES ASSUME Init PROVE WalletInv
  OBVIOUS
<1>1. \A w \in Workers : sess[w] = Idle
  BY DEF Init
<1>2. Idle.pc = "idle" /\ Idle.made = FALSE
  BY DEF Idle
<1>3. WalletTypeOK
  BY IdleIsSession, WalletBounds DEF Init, WalletTypeOK
<1>4. SessionShape /\ KeysExclusive /\ WalletsExclusive
  BY <1>1, <1>2 DEF SessionShape, KeysExclusive, HoldsKey, WalletsExclusive
<1>5. KeysPointToRows /\ OncePerKey /\ AnsweredByOwnTransaction
  BY DEF Init, KeysPointToRows, OncePerKey, AnsweredByOwnTransaction
<1> QED
  BY <1>3, <1>4, <1>5 DEF WalletInv

LEMMA StutterKeepsInv == WalletInv /\ UNCHANGED vars => WalletInv'
<1> SUFFICES ASSUME WalletInv, UNCHANGED vars PROVE WalletInv'
  OBVIOUS
<1> USE DEF vars, WalletInv
<1>1. WalletTypeOK' /\ SessionShape'
  BY DEF WalletTypeOK, SessionShape
<1>2. KeysExclusive' /\ WalletsExclusive'
  BY DEF KeysExclusive, HoldsKey, WalletsExclusive, Owner, LockedBalance, Covered, NewBalance,
     Credits
<1>3. KeysPointToRows' /\ OncePerKey' /\ AnsweredByOwnTransaction'
  BY DEF KeysPointToRows, OncePerKey, AnsweredByOwnTransaction
<1> QED
  BY <1>1, <1>2, <1>3

LEMMA NextKeepsInv == WalletInv /\ [Next]_vars => WalletInv'
<1> SUFFICES ASSUME WalletInv, [Next]_vars PROVE WalletInv'
  OBVIOUS
<1>1. ASSUME NEW w \in Workers, Step(w) PROVE WalletInv'
  <2>1. ASSUME Overdrawn(w) PROVE WalletInv'
    BY <2>1, RollbackKeepsInv DEF Overdrawn, WalletInv, WalletTypeOK
  <2> QED
    BY <1>1, <2>1, GetOrCreateKeepsInv, LockKeepsInv, CommitKeepsInv, CommitReadKeepsInv
       DEF Step
<1>2. ASSUME NEW w \in Workers, Fail(w) PROVE WalletInv'
  <2>1. faults' \in 0..MaxFaults
    BY <1>2, WalletBounds DEF Fail, WalletInv, WalletTypeOK
  <2> QED
    BY <1>2, <2>1, RollbackKeepsInv DEF Fail
<1>3. ASSUME NEW r \in Requests, NEW w \in Workers, Guard(w, r) \/ Unkeyed(w, r)
      PROVE  WalletInv'
  <2>1. Begin(w, r) /\ (r.operation \in Guarded => KeyFree(Slot(r)))
    BY <1>3 DEF Guard, Unkeyed, Guarded, Unguarded
  <2> QED
    BY <2>1, BeginKeepsInv
<1>4. CASE Next
  BY <1>1, <1>2, <1>3, <1>4, ReplayKeepsInv DEF Next, Send
<1> QED
  BY <1>4, StutterKeepsInv

\* The invariant holds in every reachable state, with any number of workers,
\* users and requests.
THEOREM WalletInvariantHolds == Spec => []WalletInv
  BY InitEstablishesInv, NextKeepsInv, PTL DEF Spec

\* Every balance and every ledger amount stays a natural number: a debit that
\* passed the check of _apply under the row lock never overdraws the wallet.
THEOREM WalletTypesHold == Spec => []WalletTypeOK
<1>1. WalletInv => WalletTypeOK
  BY DEF WalletInv
<1> QED
  BY <1>1, WalletInvariantHolds, PTL

\* A key moves money once, for any number of concurrent copies of its request,
\* crashes included (idempotency_guard and the unique constraint).
THEOREM KeysMoveMoneyOnce == Spec => []OncePerKey
<1>1. WalletInv => OncePerKey
  BY DEF WalletInv
<1> QED
  BY <1>1, WalletInvariantHolds, PTL

\* Every answer, first or replayed, is the transaction written under its key.
THEOREM AnswersHold == Spec => []AnsweredByOwnTransaction
<1>1. WalletInv => AnsweredByOwnTransaction
  BY DEF WalletInv
<1> QED
  BY <1>1, WalletInvariantHolds, PTL

-----------------------------------------------------------------------------
(* The balance follows the ledger, although the columns round the amount   *)
(* and the balance apart from each other.                                  *)

Gaps == {0, 1}

LEMMA TotalPerWallet ==
  BalanceFollowsLedger <=> \A u \in Users : Total(wallets[u], wallet_transactions[u], Gaps)
  BY DEF BalanceFollowsLedger, Gaps

\* A wallet without a row has no ledger.
LEMMA NoWalletNoLedger ==
  ASSUME NEW ledger \in Seq(LedgerRows), NEW balance, Total(balance, ledger, Gaps), balance = None
  PROVE  ledger = <<>>
<1> SUFFICES ASSUME ledger # <<>> PROVE FALSE
  OBVIOUS
<1>1. Len(ledger) \in 1..Len(ledger)
  OBVIOUS
<1>2. ledger[Len(ledger)] \in LedgerRows
  BY <1>1
<1>3. ledger[Len(ledger)].balance_after \in Nat
  BY <1>2 DEF LedgerRows
<1> QED
  BY <1>3, WalletNone DEF Total

\* A row whose balance_after is the balance under the lock and its amount, up
\* to a gap, keeps the total.
LEMMA AppendKeepsTotal ==
  ASSUME NEW ledger \in Seq(LedgerRows), NEW balance, Total(balance, ledger, Gaps),
         NEW read \in Nat, read = IF balance = None THEN 0 ELSE balance,
         NEW row \in LedgerRows,
         row.credit => row.balance_after = read + row.amount,
         ~row.credit => row.balance_after - (read - row.amount) \in Gaps
  PROVE  Total(row.balance_after, Append(ledger, row), Gaps)
<1> DEFINE n == Len(ledger) + 1
           new == Append(ledger, row)
<1>1. /\ new \in Seq(LedgerRows) /\ Len(new) = n /\ n \in Nat \ {0} /\ new[n] = row
      /\ \A i \in 1..(n - 1) : new[i] = ledger[i]
      /\ new # <<>>
  OBVIOUS
<1> HIDE DEF new
<1>2. ASSUME NEW i \in 1..(n - 1) PROVE Adds(new, i, Gaps)
  <2>1. Adds(ledger, i, Gaps)
    BY <1>2 DEF Total
  <2>2. new[i] = ledger[i] /\ Before(new, i) = Before(ledger, i)
    BY <1>1 DEF Before
  <2> QED
    BY <2>1, <2>2 DEF Adds
<1>3. Before(new, n) = read
  <2>1. CASE ledger = <<>>
    <3>1. n = 1 /\ balance \in {0, None}
      BY <2>1 DEF Total
    <3> QED
      BY <3>1 DEF Before
  <2>2. CASE ledger # <<>>
    <3>1. n # 1 /\ n - 1 \in 1..(n - 1) /\ n - 1 = Len(ledger)
      BY <2>2
    <3>2. balance = ledger[n - 1].balance_after
      BY <2>2, <3>1 DEF Total
    <3>3. balance # None
      BY <2>2, NoWalletNoLedger
    <3> QED
      BY <1>1, <3>1, <3>2, <3>3 DEF Before
  <2> QED
    BY <2>1, <2>2
<1>4. Adds(new, n, Gaps)
  BY <1>1, <1>3 DEF Adds
<1>5. \A i \in 1..Len(new) : Adds(new, i, Gaps)
  <2> TAKE i \in 1..Len(new)
  <2>1. i = n \/ i \in 1..(n - 1)
    BY <1>1
  <2> QED
    BY <1>2, <1>4, <2>1
<1> QED
  BY <1>1, <1>5 DEF Total, new

-----------------------------------------------------------------------------
(* The steps.                                                              *)

LEMMA CommitKeepsTotal ==
  ASSUME WalletInv, BalanceFollowsLedger, NEW w \in Workers, Commit(w)
  PROVE  BalanceFollowsLedger'
<1> DEFINE r == sess[w].request
           u == r.owner
           read == sess[w].balance
           after == Numeric(NewBalance(r, read))
           slot == IF r.operation \in Guarded THEN Slot(r) ELSE None
           row == [credit |-> Credits(r), amount |-> Numeric(r.amount),
                   balance_after |-> after, slot |-> slot]
<1>1. sess[w].pc = "locked" /\ sess[w] \in Sessions
  BY DEF Commit, WalletInv, WalletTypeOK
<1>2. r \in Requests /\ u \in Users /\ read \in Nat /\ Owner(w) = u
  BY <1>1, RequestFields DEF WalletInv, SessionShape, Sessions, Owner
<1>3. read = IF wallets[u] = None THEN 0 ELSE wallets[u]
  BY <1>1, <1>2 DEF WalletInv, WalletsExclusive, LockedBalance
<1>4. r.amount \in Nat
  BY <1>2, RequestFields
<1>5. Covered(r, read)
  BY <1>1 DEF WalletInv, WalletsExclusive
<1>6. /\ Numeric(r.amount) \in Nat
      /\ after \in Nat
      /\ Credits(r) => after = read + Numeric(r.amount)
      /\ ~Credits(r) => after - (read - Numeric(r.amount)) \in Gaps
  BY <1>2, <1>4, <1>5 DEF Numeric, NewBalance, Covered, Gaps
<1>7. row \in LedgerRows
  <2>1. slot \in Slots \cup {None}
    BY <1>2, SlotIsSlot
  <2>2. Credits(r) \in BOOLEAN
    BY DEF Credits
  <2> QED
    BY <1>6, <2>1, <2>2 DEF LedgerRows
<1>8. row.balance_after = after /\ row.credit = Credits(r)
      /\ row.amount = Numeric(r.amount)
  OBVIOUS
<1>9. /\ wallets' = [wallets EXCEPT ![u] = after]
      /\ wallet_transactions' = [wallet_transactions EXCEPT ![u] = Append(@, row)]
  BY DEF Commit
<1>10. /\ wallet_transactions \in [Users -> Seq(LedgerRows)]
       /\ wallets \in [Users -> Nat \cup {None}]
  BY DEF WalletInv, WalletTypeOK
<1> HIDE DEF r, read, after, slot, row
<1>11. /\ wallets'[u] = after /\ wallet_transactions'[u] = Append(wallet_transactions[u], row)
       /\ \A v \in Users : v # u => /\ wallets'[v] = wallets[v]
                                    /\ wallet_transactions'[v] = wallet_transactions[v]
  BY <1>2, <1>9, <1>10
<1>12. \A v \in Users : Total(wallets[v], wallet_transactions[v], Gaps)
  BY TotalPerWallet
<1>13. Total(wallets'[u], wallet_transactions'[u], Gaps)
  <2> DEFINE ledger == wallet_transactions[u]
             balance == wallets[u]
  <2>1. ledger \in Seq(LedgerRows) /\ Total(balance, ledger, Gaps)
    BY <1>2, <1>10, <1>12
  <2>2. read = IF balance = None THEN 0 ELSE balance
    BY <1>3
  <2>3. /\ row.credit => row.balance_after = read + row.amount
        /\ ~row.credit => row.balance_after - (read - row.amount) \in Gaps
    BY <1>6, <1>8
  <2> HIDE DEF ledger, balance
  <2>4. Total(row.balance_after, Append(ledger, row), Gaps)
    BY <1>2, <1>7, <2>1, <2>2, <2>3, AppendKeepsTotal
  <2> QED
    BY <1>8, <1>11, <2>4 DEF ledger
<1>14. \A v \in Users : Total(wallets'[v], wallet_transactions'[v], Gaps)
  BY <1>11, <1>12, <1>13
<1> QED
  BY <1>14 DEF BalanceFollowsLedger, Gaps

LEMMA CommitReadKeepsTotal ==
  ASSUME WalletInv, BalanceFollowsLedger, NEW w \in Workers, CommitRead(w)
  PROVE  BalanceFollowsLedger'
<1>1. wallet_transactions' = wallet_transactions
  BY DEF CommitRead
<1>2. CASE ~sess[w].made
  <2>1. wallets' = wallets
    BY <1>2 DEF CommitRead
  <2> QED
    BY <1>1, <2>1 DEF BalanceFollowsLedger
<1>3. CASE sess[w].made
  <2> DEFINE u == Owner(w)
  <2>1. /\ wallets' = [wallets EXCEPT ![u] = 0]
        /\ wallets[u] = None
        /\ sess[w].pc = "created"
    BY <1>3 DEF CommitRead, WalletInv, WalletsExclusive
  <2>2. u \in Users
    BY <2>1, RequestFields DEF WalletInv, SessionShape, Owner
  <2>3. /\ wallet_transactions[u] \in Seq(LedgerRows)
        /\ wallets \in [Users -> Nat \cup {None}]
    BY <2>2 DEF WalletInv, WalletTypeOK
  <2> HIDE DEF u
  <2>4. \A v \in Users : Total(wallets[v], wallet_transactions[v], Gaps)
    BY TotalPerWallet
  <2>5. wallet_transactions[u] = <<>>
    BY <2>1, <2>2, <2>3, <2>4, NoWalletNoLedger
  <2>6. Total(0, wallet_transactions[u], Gaps)
    BY <2>2, <2>4, <2>5 DEF Total
  <2>7. wallets'[u] = 0 /\ \A v \in Users : v # u => wallets'[v] = wallets[v]
    BY <2>1, <2>2, <2>3
  <2>8. \A v \in Users : Total(wallets'[v], wallet_transactions[v], Gaps)
    BY <2>4, <2>6, <2>7
  <2> QED
    BY <1>1, <2>8 DEF BalanceFollowsLedger, Gaps
<1> QED
  BY <1>2, <1>3

\* Whatever fractions the amounts have, every row of a ledger continues from the
\* row before it, up to one Toman in a debit, and the wallet's balance is the
\* last row's, although each operation computes it in Python from a balance it
\* has read (WalletService._apply, NUMERIC(14, 0)).
THEOREM BalanceHolds == Spec => []BalanceFollowsLedger
<1>1. Init => BalanceFollowsLedger
  BY DEF Init, BalanceFollowsLedger, Total
<1>2. WalletInv /\ BalanceFollowsLedger /\ [Next]_vars => BalanceFollowsLedger'
  <2> SUFFICES ASSUME WalletInv, BalanceFollowsLedger, [Next]_vars
               PROVE  BalanceFollowsLedger'
    OBVIOUS
  <2>1. ASSUME UNCHANGED <<wallets, wallet_transactions>> PROVE BalanceFollowsLedger'
    BY <2>1 DEF BalanceFollowsLedger
  <2>2. \/ UNCHANGED <<wallets, wallet_transactions>>
        \/ \E w \in Workers : Commit(w) \/ CommitRead(w)
    BY DEF Next, Step, Send, GetOrCreate, Lock, Overdrawn, Fail, Rollback, Guard, Replay,
       Unkeyed, Begin, vars
  <2> QED
    BY <2>1, <2>2, CommitKeepsTotal, CommitReadKeepsTotal
<1> QED
  BY <1>1, <1>2, WalletInvariantHolds, PTL DEF Spec

-----------------------------------------------------------------------------
(* Wallets and guard together implement the contract.                      *)

\* Rounding to whole Tomans commutes with adding whole Tomans.
LEMMA NumericShifts ==
  ASSUME NEW r \in Requests, NEW balance \in Nat
  PROVE  /\ Numeric(NewBalance(r, 0)) \in Int
         /\ Numeric(NewBalance(r, balance)) = balance + Numeric(NewBalance(r, 0))
<1>1. r.amount \in Nat
  BY RequestFields
<1> QED
  BY <1>1 DEF Numeric, NewBalance

LEMMA AnswersGrow ==
  ASSUME WalletInv, NEW r \in Requests, NEW t, replies' = [replies EXCEPT ![r] = @ \cup {t}]
  PROVE  Answers' = Answers \cup {<<Slot(r), t>>}
<1>1. replies \in [Requests -> SUBSET Transactions]
  BY DEF WalletInv, WalletTypeOK
<1>2. replies'[r] = replies[r] \cup {t} /\ \A q \in Requests \ {r} : replies'[q] = replies[q]
  BY <1>1
<1>3. \A q \in Requests : \A x : x \in replies'[q] <=> x \in replies[q] \/ (q = r /\ x = t)
  BY <1>2
<1>4. \A e : e \in Answers' <=> \E q \in Requests : \E x \in replies'[q] : e = <<Slot(q), x>>
  BY DEF Answers, Slot
<1>5. \A e : e \in Answers <=> \E q \in Requests : \E x \in replies[q] : e = <<Slot(q), x>>
  BY DEF Answers, Slot
<1> QED
  BY <1>3, <1>4, <1>5

\* A key's row is in Posted exactly when it is committed.
LEMMA PostedIfCommitted ==
  ASSUME WalletInv, NEW t \in Slots
  PROVE  /\ Posted[t] = idempotency_keys[t].response
         /\ Posted[t] = None <=> idempotency_keys[t] = NoKey
<1>1. NoKey.response = None
  BY DEF NoKey
<1>2. idempotency_keys[t] \in KeyRows \cup {NoKey}
  BY DEF WalletInv, WalletTypeOK
<1>3. idempotency_keys[t] \in KeyRows => idempotency_keys[t].response \in Transactions
  BY DEF KeyRows
<1> QED
  BY <1>1, <1>2, <1>3, NoneIsNoPair DEF Posted

\* A step that leaves the committed rows and the replies alone.
LEMMA SessionStepStutters ==
  ASSUME UNCHANGED <<wallets, wallet_transactions, idempotency_keys, replies>>
  PROVE  UNCHANGED Contract!contract_vars
  BY DEF Contract!contract_vars, Posted, Answers, Slot

LEMMA ReplayAnswers ==
  ASSUME WalletInv, NEW w \in Workers, NEW r \in Requests, Replay(w, r)
  PROVE  Contract!Next
<1> DEFINE t == idempotency_keys[Slot(r)].response
<1>1. /\ replies' = [replies EXCEPT ![r] = @ \cup {t}]
      /\ UNCHANGED <<wallets, wallet_transactions, idempotency_keys>>
      /\ r.operation \in Guarded /\ idempotency_keys[Slot(r)] # NoKey
  BY DEF Replay
<1>2. Slot(r) \in Slots
  BY <1>1, SlotIsSlot
<1>3. Posted[Slot(r)] = t /\ Posted[Slot(r)] # None
  BY <1>1, <1>2, PostedIfCommitted
<1>4. Answers' = Answers \cup {<<Slot(r), t>>}
  BY <1>1, AnswersGrow
<1>5. UNCHANGED Posted
  BY <1>1 DEF Posted
<1>6. Contract!Answer(Slot(r))
  BY <1>1, <1>3, <1>4, <1>5 DEF Contract!Answer
<1> QED
  BY <1>2, <1>6 DEF Contract!Next

LEMMA CommitReadOpens ==
  ASSUME WalletInv, NEW w \in Workers, CommitRead(w)
  PROVE  [Contract!Next]_(Contract!contract_vars)
<1>1. /\ UNCHANGED <<wallet_transactions, idempotency_keys, replies>>
      /\ wallets' = IF sess[w].made THEN [wallets EXCEPT ![Owner(w)] = 0] ELSE wallets
      /\ sess[w].pc # "idle"
  BY DEF CommitRead
<1>2. CASE ~sess[w].made
  BY <1>1, <1>2, SessionStepStutters
<1>3. CASE sess[w].made
  <2>1. UNCHANGED <<Posted, Answers>>
    BY <1>1 DEF Posted, Answers, Slot
  <2>2. Owner(w) \in Users /\ wallets[Owner(w)] = None
    BY <1>1, <1>3, RequestFields DEF WalletInv, SessionShape, WalletsExclusive, Owner
  <2>3. Contract!Open(Owner(w))
    BY <1>1, <1>3, <2>1, <2>2 DEF Contract!Open
  <2> QED
    BY <2>2, <2>3 DEF Contract!Next
<1> QED
  BY <1>2, <1>3

LEMMA CommitPosts ==
  ASSUME WalletInv, NEW w \in Workers, Commit(w)
  PROVE  Contract!Next
<1> DEFINE r == sess[w].request
           u == r.owner
           p == Posting(r)
           place == <<u, Len(wallet_transactions[u]) + 1>>
           after == Numeric(NewBalance(r, sess[w].balance))
<1>1. sess[w].pc = "locked" /\ sess[w] \in Sessions
  BY DEF Commit, WalletInv, WalletTypeOK
<1>2. r \in Requests /\ u \in Users /\ r.operation # "read" /\ sess[w].balance \in Nat
  BY <1>1, RequestFields DEF WalletInv, SessionShape, WalletsExclusive, Sessions
<1>3. sess[w].balance = Contract!Balance(u)
  BY <1>1 DEF WalletInv, WalletsExclusive, LockedBalance, Owner, Contract!Balance
<1>4. after = Contract!Balance(u) + p.change
  BY <1>2, <1>3, NumericShifts DEF Posting
<1>5. after >= 0
  <2>1. after \in Nat
    BY CommitWrites
  <2> HIDE DEF after
  <2> QED
    BY <2>1
<1>6. /\ wallets' = [wallets EXCEPT ![u] = after]
      /\ wallet_transactions' = [wallet_transactions EXCEPT ![u] =
           Append(@, [credit |-> p.credit, amount |-> p.amount, balance_after |-> after,
                      slot |-> p.slot])]
  BY DEF Commit, Posting
<1>7. ASSUME r.operation \notin Guarded
      PROVE  p.slot = None /\ UNCHANGED <<Posted, Answers>>
  BY <1>7 DEF Commit, Posting, Posted, Answers, Slot
<1>8. ASSUME r.operation \in Guarded
      PROVE  /\ p.slot = Slot(r) /\ p.slot # None
             /\ Posted[p.slot] = None
             /\ Posted' = [Posted EXCEPT ![p.slot] = place]
             /\ Answers' = Answers \cup {<<p.slot, place>>}
  <2>1. /\ idempotency_keys' = [idempotency_keys EXCEPT ![Slot(r)] =
                                  [hash |-> RequestHash(r), response |-> place]]
        /\ replies' = [replies EXCEPT ![r] = @ \cup {place}]
        /\ p.slot = Slot(r)
    BY <1>8 DEF Commit, NewTransaction, Posting
  <2>2. Slot(r) \in Slots /\ HoldsKey(w, Slot(r))
    BY <1>1, <1>2, <1>8, SlotIsSlot DEF HoldsKey
  <2>3. Posted[Slot(r)] = None
    BY <2>2, PostedIfCommitted DEF WalletInv, KeysExclusive
  <2>4. Posted' = [Posted EXCEPT ![Slot(r)] = place]
    <3> DEFINE key == [hash |-> RequestHash(r), response |-> place]
    <3>1. key.response = place /\ idempotency_keys' = [idempotency_keys EXCEPT ![Slot(r)] = key]
      BY <2>1
    <3> HIDE DEF key, place
    <3>2. \A t \in Slots : idempotency_keys'[t].response =
            IF t = Slot(r) THEN place ELSE idempotency_keys[t].response
      BY <2>2, <3>1 DEF WalletInv, WalletTypeOK
    <3> QED
      BY <3>2 DEF Posted
  <2>5. Answers' = Answers \cup {<<Slot(r), place>>}
    BY <1>2, <2>1, AnswersGrow
  <2> QED
    BY <2>1, <2>2, <2>3, <2>4, <2>5, NoneIsNoPair
<1>9. Contract!Post(p)
  BY <1>4, <1>5, <1>6, <1>7, <1>8 DEF Contract!Post, Posting
<1>10. p \in {Posting(q) : q \in {x \in Requests : x.operation # "read"}}
  BY <1>2
<1> QED
  BY <1>9, <1>10 DEF Contract!Next

LEMMA StepFollowsContract ==
  ASSUME WalletInv, [Next]_vars
  PROVE  [Contract!Next]_(Contract!contract_vars)
<1>1. CASE UNCHANGED <<wallets, wallet_transactions, idempotency_keys, replies>>
  BY <1>1, SessionStepStutters
<1>2. ASSUME NEW w \in Workers, Step(w)
      PROVE  [Contract!Next]_(Contract!contract_vars)
  BY <1>1, <1>2, CommitPosts, CommitReadOpens DEF Step, GetOrCreate, Lock, Overdrawn, Rollback
<1>3. ASSUME NEW r \in Requests, Send(r)
      PROVE  [Contract!Next]_(Contract!contract_vars)
  BY <1>1, <1>3, ReplayAnswers DEF Send, Guard, Unkeyed, Begin
<1>4. CASE (\E w \in Workers : Fail(w)) \/ UNCHANGED vars
  BY <1>1, <1>4 DEF Fail, Rollback, vars
<1> QED
  BY <1>2, <1>3, <1>4 DEF Next

\* Copies of requests, locks, crashes and replays, in any number, implement
\* one-shot postings: no posting is computed from a balance another one has
\* changed, none is made twice under a key, and every answer is its key's row.
THEOREM WalletContractRefined == Spec => WalletFollowsContract
<1>1. Init => Contract!Init
  BY DEF Init, NoKey, Posted, Answers, Contract!Init
<1>2. WalletInv /\ [Next]_vars => [Contract!Next]_(Contract!contract_vars)
  BY StepFollowsContract
<1> QED
  BY <1>1, <1>2, WalletInvariantHolds, PTL DEF Spec, WalletFollowsContract, Contract!Spec
=============================================================================
