----------------------------- MODULE MCOrderFlow -----------------------------
(* Small instances of OrderFlow for TLC. *)
EXTENDS OrderFlow, TLC

CONSTANTS d1, d2, o1, f1, f2

\* Every offer is for the first order.
OneOrder == [f \in {f1, f2} |-> o1]

Symmetry == Permutations(Devices)
=============================================================================
