------------------------------ MODULE MCWallet ------------------------------
(***************************************************************************)
(* Instances of Wallet for TLC.                                            *)
(***************************************************************************)
EXTENDS Wallet

CONSTANTS alice, admin, k1

Deposit(k, amount) ==
  [user |-> alice, operation |-> "wallet.deposit", key |-> k, owner |-> alice,
   amount |-> amount]
Debit(k, amount) ==
  [user |-> admin, operation |-> "wallet.admin_debit", key |-> k, owner |-> alice,
   amount |-> amount]
Credit(k, amount) ==
  [user |-> admin, operation |-> "wallet.admin_credit", key |-> k, owner |-> alice,
   amount |-> amount]
Refund(amount) ==
  [user |-> admin, operation |-> "refund", key |-> None, owner |-> alice,
   amount |-> amount]
Read == [user |-> alice, operation |-> "read", key |-> None, owner |-> alice,
         amount |-> 10]

\* A deposit, also sent with another amount under its key, a debit of 1.5
\* Tomans, a credit, a refund and a GET of one wallet.
Everything ==
  {Deposit(k1, 10), Deposit(k1, 20), Debit(k1, 15), Credit(k1, 10), Refund(10), Read}

\* Two Tomans come, and one and a half go.
Fractions == {Deposit(k1, 20), Debit(k1, 15)}
=============================================================================
