---------------------------- MODULE MCAddressForm ----------------------------
(* Small instances of AddressForm for TLC. *)
EXTENDS AddressForm, TLC

CONSTANT p1
=============================================================================
