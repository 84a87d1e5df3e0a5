------------------------------- MODULE MCShop -------------------------------
(***************************************************************************)
(* Instances of Shop for TLC.                                              *)
(***************************************************************************)
EXTENDS ShopStock, ShopInvariant, TLC

\* Every product has two units; every customer wants one of each.
Two == [p \in Products |-> 2]
One == [p \in Products |-> 1]
OneOfEach == [u \in Customers |-> [p \in Products |-> 1]]

Corrections == {-1, 1}

Symmetry == Permutations(Workers) \cup Permutations(Orders) \cup Permutations(Attempts)
              \cup Permutations(Customers) \cup Permutations(Products)
=============================================================================
