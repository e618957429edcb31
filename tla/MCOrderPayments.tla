--------------------------- MODULE MCOrderPayments ---------------------------
(***************************************************************************)
(* TLC instances of OrderPayments.  Point and variant names are model      *)
(* values; the cart takes the whole shelf, so that goods returned late, twice or   *)
(* only partly show.                                                       *)
(***************************************************************************)
EXTENDS OrderPayments

OneEach == {[v \in Variants |-> 1]}
TwoEach == {[v \in Variants |-> 2]}
TwoOfEach == [p \in Points |-> [v \in Variants |-> 2]]
Levels == {3}
NoLevels == {}
=============================================================================
