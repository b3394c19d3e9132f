------------------------ MODULE MCCancellationRefund ------------------------
(* Small instances of CancellationRefund for TLC. *)
EXTENDS CancellationRefund, TLC

CONSTANTS o1, o2, f1, f2

Prices == [f \in Offers |-> IF f = f1 THEN 100 ELSE 250]
=============================================================================
