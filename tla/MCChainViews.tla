---------------------------- MODULE MCChainViews ----------------------------
(* Instances of ChainViews for TLC. *)
EXTENDS ChainViews

Publish(sig, epoch, root) == [sig |-> sig, kind |-> "publish", epoch |-> epoch, root |-> root]

\* Epoch 1 sent twice and once by somebody else with another root, epoch 2,
\* and a transfer to epoch 1's address.
TxChoice ==
  {[sig |-> "f", kind |-> "fund", epoch |-> 1, root |-> "r1"],
    Publish("p", 1, "r1"), Publish("p again", 1, "r1"), Publish("q", 1, "r2"),
    Publish("p2", 2, "r1"),
    [sig |-> "a", kind |-> "attach", epoch |-> 1, root |-> "r1"]}

\* One submission and its retry, which nobody interferes with.
TxRetry == {Publish("p", 1, "r1"), Publish("p again", 1, "r1")}
=============================================================================
