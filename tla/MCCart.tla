------------------------------- MODULE MCCart -------------------------------
(***************************************************************************)
(* An instance of Cart for TLC.                                            *)
(***************************************************************************)
EXTENDS Cart, TLC

Stock(total, reserved) == [total |-> total, reserved |-> reserved]

\* Three pieces, none or two of them reserved; one piece.
SomeStock == {Stock(3, 0), Stock(3, 2), Stock(1, 0)}

\* Workers, and products, are interchangeable.
Symmetry == Permutations(Workers) \cup Permutations(Products)
=============================================================================
