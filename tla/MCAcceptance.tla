---------------------------- MODULE MCAcceptance ----------------------------
(* Small instances of Acceptance for TLC. *)
EXTENDS Acceptance, TLC

CONSTANTS d1, o1, f1, f2, p1, p2

OneOrder == [f \in Offers |-> o1]

Bidders == f1 :> p1 @@ f2 :> p2
=============================================================================
