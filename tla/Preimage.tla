------------------------------ MODULE Preimage ------------------------------
(***************************************************************************)
(* The tagged preimages of crates/certimining-core/src/preimage.rs and     *)
(* prf.rs, which ts/src/preimage.ts and ts/src/tree.ts write a second time.*)
(*                                                                         *)
(* A preimage is the tuple of its tag and its fields; the fields have fixed*)
(* widths and PRF inputs carry their length, so two preimages are the same *)
(* bytes only if they are the same tuple.  Keccak-256 is taken to be       *)
(* injective and its range to hold nothing but digests.                    *)
(***************************************************************************)
EXTENDS Integers, Sequences

Keccak256(preimage) == <<"keccak256", preimage>>

\* 32 bytes that nobody knows a preimage of.
UnknownDigest == <<"unknown digest">>

\* An Ed25519 signature is had from the holder of the key and over one message.
Sign(key, message) == <<key, message>>

\* "Ed25519 (RFC 8032)" does not settle every signature (ts/SPEC-DEFECTS.md,
\* SD-07): one that it leaves open is taken by the libraries it is for.
Library == {"dalek", "noble"}
OpenSignature(key, message, libraries) == <<key, message, libraries>>

VerifiedBy(library, key, message, signature) ==
  \/ signature = Sign(key, message)
  \/ \E libraries \in SUBSET Library :
       library \in libraries /\ signature = OpenSignature(key, message, libraries)

\* DalekVerifier::verify of verify.rs, and ed25519Verify of hash.ts.
VerifyStrict(key, message, signature) == VerifiedBy("dalek", key, message, signature)
Ed25519Verify(key, message, signature) == VerifiedBy("noble", key, message, signature)

\* LeafPreimage: the 161 bytes a qualified person signs.  The digests of the
\* payload and of the memo and the two dates are one value.
LeafPreimage(c, seq, payload, qp_key, category) ==
  <<"CMv1LEAF", c, seq, payload, qp_key, category>>

\* GenesisHeadPreimage and StepHeadPreimage share a tag and differ in length.
GenesisHead(c, schema) == Keccak256(<<"CMv1HEAD", <<c, schema>>>>)

AdvanceHead(prev, leaf) == Keccak256(<<"CMv1HEAD", prev, leaf>>)

Node(left, right) == Keccak256(<<"CMv1MTN1", left, right>>)

\* Mutant: a leaf enters the tree as it is.
UntaggedLeaf(leaf) == leaf

\* RealLeafPreimage: the verifier applies this itself, to the chain's leaf.
RealLeaf(leaf) == Keccak256(<<"CMv1MTL0", leaf>>)

\* PrfPreimage: the use code and the one field of that use.
Prf(k, use, x) == Keccak256(<<"CMv1PRF0", k, use, x>>)

EpochKey(master, epoch) == Prf(master, "epoch key", epoch)

SlotSeed(k_e, id) == Prf(k_e, "slot", id)

\* padding_prf under PaddingPreimage.
PaddingLeaf(k_e, slot) == Keccak256(<<"CMv1PADD", Prf(k_e, "padding", slot)>>)

\* SpiPreimage: what section 1.6 signs is its digest.
SpiPreimage(leaf, id, accepted, promised, delay) ==
  <<"CMv1SPI0", leaf, id, accepted, promised, delay>>
=============================================================================
