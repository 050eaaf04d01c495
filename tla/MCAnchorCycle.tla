--------------------------- MODULE MCAnchorCycle ---------------------------
(* Instances of AnchorCycle for TLC. *)
EXTENDS AnchorCycle, TLC

\* Roots are compared for equality only.
RootSymmetry == Permutations(Root)
=============================================================================
