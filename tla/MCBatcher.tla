----------------------------- MODULE MCBatcher ------------------------------
(* The instance of Batcher that TLC checks.  One leaf value is enough: the *)
(* batcher never looks into a leaf, and identifiers tell submissions apart. *)
EXTENDS Batcher

MCLeaf == {"leaf"}
=============================================================================
