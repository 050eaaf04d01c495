----------------------------- MODULE PublicLog -----------------------------
(***************************************************************************)
(* What the checkpoint program promises every reader of the chain: a log   *)
(* that opens once, grows one epoch at a time, gives each epoch one root   *)
(* for ever and at most one receipt.  Module Checkpoint implements it.     *)
(***************************************************************************)
EXTENDS Integers

CONSTANTS
  Root,    \* roots an epoch may carry
  Digest,  \* receipt digests
  Day      \* day indices a log may open at

VARIABLES
  next,      \* the epoch published next, or -1 while the log is not open
  published, \* [epoch, root] pairs
  receipts   \* [epoch, digest] pairs

vars == <<next, published, receipts>>

Init ==
  /\ next = -1
  /\ published = {}
  /\ receipts = {}

Open(day) ==
  /\ next = -1
  /\ next' = day
  /\ UNCHANGED <<published, receipts>>

Append(root) ==
  /\ next # -1
  /\ published' = published \cup {[epoch |-> next, root |-> root]}
  /\ next' = next + 1
  /\ UNCHANGED receipts

Attest(epoch, digest) ==
  /\ \E x \in published : x.epoch = epoch
  /\ \A y \in receipts : y.epoch # epoch
  /\ receipts' = receipts \cup {[epoch |-> epoch, digest |-> digest]}
  /\ UNCHANGED <<next, published>>

Next ==
  \/ \E day \in Day : Open(day)
  \/ \E root \in Root : Append(root)
  \/ \E x \in published, digest \in Digest : Attest(x.epoch, digest)

Spec == Init /\ [][Next]_vars
=============================================================================
