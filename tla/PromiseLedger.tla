--------------------------- MODULE PromiseLedger ---------------------------
(***************************************************************************)
(* What a batcher promises its submitters, with no queue, no snapshot and  *)
(* no crash in sight: a ledger of promises, each naming the one epoch its  *)
(* leaf will be sealed in, and epochs sealed one after another, each with  *)
(* exactly the leaves promised for it.  Module Batcher implements it.      *)
(***************************************************************************)
EXTENDS Integers

CONSTANTS
  Leaf,           \* leaf digests
  U64,            \* identifiers and epochs
  MaxMergeDelay,  \* how many epochs after acceptance a promise may name
  StartEpoch      \* the first epoch the batcher fills

VARIABLES
  filling,        \* the epoch being filled: every earlier one is sealed
  promises,       \* the promises handed out
  sealed          \* what the sealed epochs hold: [epoch, id, leaf]

vars == <<filling, promises, sealed>>

Init ==
  /\ filling = StartEpoch
  /\ promises = {}
  /\ sealed = {}

\* A fresh identifier, an epoch inside the merge delay, and first come first
\* served: no earlier submission waits longer than this one.
Accept(leaf, id, e) ==
  /\ \A q \in promises : q.id < id /\ q.promised_epoch <= e
  /\ promises' = promises \cup
       {[leaf |-> leaf, id |-> id, accepted_epoch |-> filling, promised_epoch |-> e]}
  /\ UNCHANGED <<filling, sealed>>

\* The epoch is sealed with exactly the leaves promised for it.
Seal ==
  /\ sealed' = sealed \cup
       {[epoch |-> filling, id |-> p.id, leaf |-> p.leaf] :
          p \in {q \in promises : q.promised_epoch = filling}}
  /\ filling' = filling + 1
  /\ UNCHANGED promises

Next ==
  \/ Seal
  \/ \E leaf \in Leaf, id \in U64, e \in filling .. filling + MaxMergeDelay :
        Accept(leaf, id, e)

Spec == Init /\ [][Next]_vars
=============================================================================
