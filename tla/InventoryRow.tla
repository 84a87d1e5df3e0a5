---------------------------- MODULE InventoryRow ----------------------------
(***************************************************************************)
(* One row of product_inventory and the arithmetic InventoryService does   *)
(* on the row object it holds (catalog/inventory_service.py).  The row's   *)
(* type is the table's three CHECK constraints.                            *)
(***************************************************************************)
EXTENDS Integers

\* ck_inventory_total_non_negative, ck_inventory_reserved_non_negative and
\* ck_inventory_reserved_le_total.
Rows == {r \in [total : Nat, reserved : Nat] : r.reserved <= r.total}

Unclamped(n) == n   \* FAULT
\* max(0, n), with which release and commit_purchase hide a shortfall.
AtLeastZero(n) == IF n > 0 THEN n ELSE 0

Available(row) == row.total - row.reserved

\* reserve, after its check that the quantity is available.
Reserve(row, quantity) == [row EXCEPT !.reserved = @ + quantity]

Release(row, quantity) == [row EXCEPT !.reserved = AtLeastZero(@ - quantity)]

CommitPurchase(row, quantity) ==
  [total    |-> AtLeastZero(row.total - quantity),
   reserved |-> AtLeastZero(row.reserved - quantity)]
=============================================================================
