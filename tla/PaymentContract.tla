-------------------------- MODULE PaymentContract --------------------------
(***************************************************************************)
(* What payments/ promises to the rest of the shop, with no sessions, row  *)
(* locks or callbacks in sight: a payment is opened once and decided once, *)
(* and deciding it in the customer's favour is one indivisible step with   *)
(* the purchase of the order's stock.                                      *)
(***************************************************************************)
EXTENDS Naturals

CONSTANTS Orders, Attempts

VARIABLES payments,   \* [Orders -> [Attempts -> status]]
          purchases   \* how often each order's stock was purchased

contract_vars == <<payments, purchases>>

Init ==
  /\ payments = [o \in Orders |-> [k \in Attempts |-> "none"]]
  /\ purchases = [o \in Orders |-> 0]

Open(o, k) ==
  /\ payments[o][k] = "none"
  /\ payments' = [payments EXCEPT ![o][k] = "initiated"]
  /\ UNCHANGED purchases

Verify(o, k) ==
  /\ payments[o][k] = "initiated"
  /\ payments' = [payments EXCEPT ![o][k] = "verified"]
  /\ purchases' = [purchases EXCEPT ![o] = @ + 1]

Decline(o, k) ==
  /\ payments[o][k] = "initiated"
  /\ payments' = [payments EXCEPT ![o][k] = "failed"]
  /\ UNCHANGED purchases

Next == \E o \in Orders, k \in Attempts :
          Open(o, k) \/ Verify(o, k) \/ Decline(o, k)

Spec == Init /\ [][Next]_contract_vars
=============================================================================
