---------------------------- MODULE MCDisclosure ----------------------------
EXTENDS Disclosure

MCFiling == <<3, 1>>

\* A second record at the last sequence, a sequence and a category no chain
\* takes, and a record of another asset under another key.
MCAside ==
  {LeafPreimage("c", 3, "other", "qp", 1), LeafPreimage("c", 0, "payload", "qp", 1),
   LeafPreimage("c", 1, "payload", "qp", 9), LeafPreimage("d", 1, "payload", "other", 1)}
=============================================================================
