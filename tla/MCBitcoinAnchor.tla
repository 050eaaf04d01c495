-------------------------- MODULE MCBitcoinAnchor --------------------------
EXTENDS BitcoinAnchor

Enc(e, m) == [exponent |-> e, mantissa |-> m]

MCBlockHash == <<1, 2, 0>>

\* Genesis; a checkpoint on a boundary and one off it, with and without its
\* time; and settings that describe no checkpoint.
MCEnvironment ==
       {[height |-> Nothing, hash |-> Nothing, bits |-> Nothing, time |-> Nothing]}
  \cup [height : {2, 3}, hash : {<<0, 2, 1>>}, bits : {Enc(2, 6)}, time : {0, Nothing}]
  \cup {[height |-> 2, hash |-> <<0, 2, 1>>, bits |-> Nothing, time |-> 0],
        [height |-> 2, hash |-> <<0, 2, 1>>, bits |-> Enc(3, 4), time |-> 0]}

\* The easiest encoding there is, a second encoding of a target in force, a
\* set sign bit, no mantissa, an exponent past the end, and a target of zero.
MCBits == {Enc(3, 7), Enc(3, 1), Enc(2, 9), Enc(2, 0), Enc(4, 1), Enc(0, 3)}

\* What the blocks commit: promises in the window and out of it, and one of
\* another signer.
MCStamp ==
  <<SignedPromise("b", "l1", 1, 0, 2, 2), SignedPromise("b", "l2", 2, 1, 1, 2),
    SignedPromise("b", "l3", 3, 0, 3, 2), SignedPromise("b", "l4", 4, 1, 3, 2),
    SignedPromise("c", "l5", 5, 0, 0, 2)>>
=============================================================================
