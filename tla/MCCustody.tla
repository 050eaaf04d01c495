----------------------------- MODULE MCCustody -----------------------------
(* The instance of Custody for TLC. *)
EXTENDS Custody
=============================================================================
