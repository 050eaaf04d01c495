------------------------------ MODULE Promise ------------------------------
(***************************************************************************)
(* Signed inclusion promises: crates/certimining-log/src/promise.rs and    *)
(* ts/src/promise.ts, the checks a counterparty makes without the batcher. *)
(***************************************************************************)
EXTENDS Preimage

CONSTANTS
  MaxMergeDelay  \* MAX_MERGE_DELAY, two epochs

ASSUME PromiseAssumption == MaxMergeDelay \in Nat

\* What section 1.6 signs: promise_digest, over SpiPreimage.
PromiseDigest(p) ==
  Keccak256(SpiPreimage(p.leaf, p.id, p.accepted_epoch, p.promised_epoch, p.max_merge_delay))

\* SignedPromise::encode: the octets that travel, every field of the promise.
Encode(p) ==
  <<p.leaf, p.id, p.accepted_epoch, p.promised_epoch, p.max_merge_delay, p.batcher_key, p.signature>>

\* A promise the holder of a key signs, whatever it says.
SignedPromise(key, leaf, id, accepted, promised, delay) ==
  LET body == [leaf |-> leaf, id |-> id, accepted_epoch |-> accepted,
               promised_epoch |-> promised, max_merge_delay |-> delay]
  IN  [leaf |-> leaf, id |-> id, accepted_epoch |-> accepted,
       promised_epoch |-> promised, max_merge_delay |-> delay,
       batcher_key |-> key, signature |-> Sign(key, PromiseDigest(body))]

\* Mutant: nobody asks how far ahead of its own acceptance a promise points.
VerifyPromiseDeferred(p, expected, observed) ==
  IF p.batcher_key # expected THEN "AttestationKeyMismatch"
  ELSE IF p.max_merge_delay # MaxMergeDelay THEN "PromisePolicyInvalid"
  ELSE IF p.promised_epoch < p.accepted_epoch THEN "PromisePolicyInvalid"
  ELSE IF observed - p.accepted_epoch \notin 0 .. 1 THEN "PromisePolicyInvalid"
  ELSE IF ~VerifyStrict(expected, PromiseDigest(p), p.signature) THEN "AttestationInvalid"
  ELSE "Ok"

\* verify_promise: the expected key decides first, the policy next, and the
\* signature last.  Both differences are checked subtractions.
VerifyPromise(p, expected, observed) ==
  IF p.batcher_key # expected THEN "AttestationKeyMismatch"
  ELSE IF p.max_merge_delay # MaxMergeDelay THEN "PromisePolicyInvalid"
  ELSE IF p.promised_epoch - p.accepted_epoch \notin 0 .. MaxMergeDelay
    THEN "PromisePolicyInvalid"
  ELSE IF observed - p.accepted_epoch \notin 0 .. 1 THEN "PromisePolicyInvalid"
  ELSE IF ~VerifyStrict(expected, PromiseDigest(p), p.signature) THEN "AttestationInvalid"
  ELSE "Ok"

\* verifyPromise of promise.ts: the observation before the promised epoch, sums
\* in place of differences, and the key the promise itself carries at the end.
VerifyPromiseTs(p, expected, observed) ==
  IF p.batcher_key # expected THEN "AttestationKeyMismatch"
  ELSE IF p.max_merge_delay # MaxMergeDelay THEN "PromisePolicyInvalid"
  ELSE IF p.accepted_epoch > observed \/ p.accepted_epoch + 1 < observed
    THEN "PromisePolicyInvalid"
  ELSE IF \/ p.promised_epoch < p.accepted_epoch
          \/ p.promised_epoch > p.accepted_epoch + p.max_merge_delay
    THEN "PromisePolicyInvalid"
  ELSE IF ~Ed25519Verify(p.batcher_key, PromiseDigest(p), p.signature) THEN "AttestationInvalid"
  ELSE "Ok"
=============================================================================
