----------------------------- MODULE MCCatalog -----------------------------
(***************************************************************************)
(* Instances of Catalog for TLC.                                           *)
(***************************************************************************)
EXTENDS Catalog, TLC

CONSTANTS audio, video, cables, leads, speaker, radio

\* Two roots, one of them with a child; a fourth category can be created.
TwoRoots ==
  (audio :> None) @@ (video :> audio) @@ (cables :> None) @@ (leads :> "absent")

\* One product on sale in audio; a second one can be created.
OneProduct ==
  (speaker :> [category_id |-> audio, price |-> 30, discount_price |-> 10, is_active |-> TRUE])
    @@ (radio :> None)

\* Products in video at a discount that rounding makes the price (1.3 of 1.4),
\* and at one that is above the price.
SomeBodies ==
  {[category_id |-> video, price |-> 14, discount_price |-> d, is_active |-> TRUE] :
     d \in {13, 20}}

\* A lower price, which is rounded, and a higher discount: each is right for the
\* product as it is, and one after the other is not.  No discount in another
\* category.
SomePatches ==
  {("price" :> 14), ("discount_price" :> 20),
   ("category_id" :> video) @@ ("discount_price" :> None)}
=============================================================================
