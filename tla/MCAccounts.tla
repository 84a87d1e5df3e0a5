----------------------------- MODULE MCAccounts -----------------------------
(***************************************************************************)
(* An instance of Accounts for TLC.                                        *)
(***************************************************************************)
EXTENDS Accounts, TLC

CONSTANTS ada, bob, cyd, adaMail, bobMail, cydMail, adaGoogle, cydGoogle

Row(email, role) ==
  [email |-> email, hashed_password |-> 1, role |-> role, is_active |-> TRUE,
   is_verified |-> TRUE]

\* Two administrators; a third account can be made.
TwoAdmins ==
  (ada :> Row(adaMail, "admin")) @@ (bob :> Row(bobMail, "super_admin")) @@ (cyd :> None)

\* To a customer, and to an administrator who is not active.
TwoChanges ==
  {[role |-> "customer", is_active |-> TRUE], [role |-> "admin", is_active |-> FALSE]}

TwoIdentities ==
  {[subject |-> adaGoogle, email |-> adaMail, email_verified |-> TRUE],
   [subject |-> cydGoogle, email |-> cydMail, email_verified |-> FALSE]}

\* Workers, tokens and states are interchangeable.
Symmetry ==
  Permutations(Workers) \cup Permutations(TokenIds) \cup Permutations(StateIds)
=============================================================================
