---------------------------- MODULE MCMarketplace ----------------------------
(* Small instances of Marketplace for TLC. *)
EXTENDS Marketplace, TLC

CONSTANTS d1, d2, o1, f1, f2

OneOrder == [f \in Offers |-> o1]

\* A whole-riyal price and one with halalas.
MixedPrices == (f1 :> 100 @@ f2 :> 250)

WholePrices == (f1 :> 100 @@ f2 :> 300)

Symmetry == Permutations(Devices)
=============================================================================
