---------------------------- MODULE MCCheckpoint ----------------------------
(* Checkpoint for TLC: keys, roots and digests are model values. *)
EXTENDS Checkpoint
=============================================================================
