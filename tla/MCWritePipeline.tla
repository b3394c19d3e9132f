--------------------------- MODULE MCWritePipeline ---------------------------
(* Small instances of WritePipeline for TLC. *)
EXTENDS WritePipeline, TLC

CONSTANTS u1, u2
=============================================================================
