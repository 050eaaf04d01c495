----------------------------- MODULE EpochTree -----------------------------
(***************************************************************************)
(* The fixed-capacity epoch tree and its inclusion proofs:                 *)
(* crates/certimining-log/src/tree.rs and proof.rs, and ts/src/tree.ts,    *)
(* the second implementation, whose operators here end in Ts.              *)
(*                                                                         *)
(* Slots count from 0 and sequences from 1.  The operators that read bytes *)
(* of a slot seed take a function low giving its first two bytes.          *)
(***************************************************************************)
EXTENDS Promise, FiniteSets, SequencesExt

CONSTANTS
  MinHeight,  \* MIN_HEIGHT, 4
  MaxHeight,  \* MAX_HEIGHT, 16
  Nothing     \* Option::None

ASSUME EpochTreeAssumption == MinHeight \in Nat \ {0} /\ MaxHeight \in MinHeight .. 16

\* 1 << n
TwoTo[n \in 0 .. MaxHeight] == IF n = 0 THEN 1 ELSE 2 * TwoTo[n - 1]

Capacity(height) == TwoTo[height]

\* slot_from_seed: the low bits of the seed's first two bytes.
SlotFromSeed(bytes, height) == bytes % Capacity(height)

----------------------------------------------------------------------------
(* Building an epoch. *)

\* Mutant: submissions take their slots in the order they arrived in.
AsSupplied(real) == real

\* Ascending by identifier, so that one set of submissions is one tree.
Ordered(real) ==
  [n \in 1 .. Len(real) |->
     CHOOSE entry \in ToSet(real) :
       Cardinality({e \in ToSet(real) : e.id < entry.id}) = n - 1]

Duplicated(real) == \E i, j \in DOMAIN real : i # j /\ real[i].id = real[j].id

\* probe: the first free slot at or after start, wrapping at the capacity.
Probe(taken, start, capacity) ==
  LET At(step) == (start + step) % capacity
      first == CHOOSE step \in 0 .. capacity - 1 :
                 At(step) \notin taken /\ \A s \in 0 .. step - 1 : At(s) \in taken
  IN  At(first)

\* The loop of assignSlots: step while the slot is taken.
ProbeTs(taken, start, capacity) ==
  LET at[steps \in 0 .. capacity] ==
        IF steps = 0 THEN start
        ELSE LET slot == at[steps - 1]
             IN  IF slot \in taken THEN (slot + 1) % capacity ELSE slot
  IN  at[capacity]

Taken(placed) == {placed[i].slot : i \in DOMAIN placed}

Seeded(entry, k_e, height, low) == SlotFromSeed(low[SlotSeed(k_e, entry.id)], height)

Placed(entry, slot) == [id |-> entry.id, leaf |-> entry.leaf, slot |-> slot]

\* Each submission in turn takes a slot; the result is in that order.
Assign(real, k_e, height, low) ==
  LET ordered == Ordered(real)
      placed[n \in 0 .. Len(real)] ==
        IF n = 0 THEN <<>>
        ELSE Append(placed[n - 1],
                    Placed(ordered[n], Probe(Taken(placed[n - 1]),
                                             Seeded(ordered[n], k_e, height, low),
                                             Capacity(height))))
  IN  placed[Len(real)]

\* assignSlots, with a loop of its own.
AssignTs(real, k_e, height, low) ==
  LET ordered == Ordered(real)
      placed[n \in 0 .. Len(real)] ==
        IF n = 0 THEN <<>>
        ELSE Append(placed[n - 1],
                    Placed(ordered[n], ProbeTs(Taken(placed[n - 1]),
                                               Seeded(ordered[n], k_e, height, low),
                                               Capacity(height))))
  IN  placed[Len(real)]

\* Every slot the assignment left empty is padded under its own index.
Leaves(placed, k_e, height) ==
  [n \in 1 .. Capacity(height) |->
     IF \E i \in DOMAIN placed : placed[i].slot = n - 1
     THEN RealLeaf((CHOOSE p \in ToSet(placed) : p.slot = n - 1).leaf)
     ELSE PaddingLeaf(k_e, n - 1)]

Parents(level) == [n \in 1 .. Len(level) \div 2 |-> Node(level[2 * n - 1], level[2 * n])]

\* The levels, from the leaves at 0 to the root.
Levels(leaves, height) ==
  LET level[k \in 0 .. height] == IF k = 0 THEN leaves ELSE Parents(level[k - 1])
  IN  level

\* levels_above: the levels above the leaves, one after the other.
LevelsAbove(leaves, height) ==
  FlattenSeq([k \in 1 .. height |-> Levels(leaves, height)[k]])

BuildRefused(real, height) ==
  IF height \notin MinHeight .. MaxHeight THEN "MalformedPayload"
  ELSE IF Len(real) > Capacity(height) THEN "EpochCapacityExceeded"
  ELSE IF Duplicated(real) THEN "MalformedPayload"
  ELSE "Ok"

\* EpochTree::build, of a set that is not refused.
Build(epoch, height, master, real, low) ==
  LET k_e    == EpochKey(master, epoch)
      placed == Assign(real, k_e, height, low)
      leaves == Leaves(placed, k_e, height)
      nodes  == LevelsAbove(leaves, height)
  IN  [epoch |-> epoch, height |-> height, root |-> Last(nodes), leaves |-> leaves,
       assignment |-> [i \in DOMAIN placed |-> [id |-> placed[i].id, slot |-> placed[i].slot]],
       nodes |-> nodes]

\* buildEpoch, which keeps no nodes: rootOf pairs levels until one is left.
BuildTs(epoch, height, master, real, low) ==
  LET k_e    == EpochKey(master, epoch)
      placed == AssignTs(real, k_e, height, low)
      leaves == Leaves(placed, k_e, height)
  IN  [epoch |-> epoch, height |-> height, root |-> Levels(leaves, height)[height][1],
       leaves |-> leaves,
       assignment |-> [i \in DOMAIN placed |-> [id |-> placed[i].id, slot |-> placed[i].slot]]]

----------------------------------------------------------------------------
(* Proofs. *)

Holds(built, id) == \E i \in DOMAIN built.assignment : built.assignment[i].id = id

SlotOf(built, id) == (CHOOSE a \in ToSet(built.assignment) : a.id = id).slot

\* level_offset: where level L, counted from 1, begins among the nodes.
LevelOffset(level, capacity) == capacity - capacity \div TwoTo[level - 1]

\* index ^ 1
Sibling(index) == IF index % 2 = 0 THEN index + 1 ELSE index - 1

\* EpochTree::proof, of an identifier the epoch holds: of another the code says
\* SubmissionNotInEpoch.  A node past the end is InclusionProofInvalid there.
Proof(built, id) ==
  LET slot == SlotOf(built, id)
      At(level) == Sibling(slot \div TwoTo[level])
  IN  [height |-> built.height, slot_index |-> slot, epoch |-> built.epoch,
       siblings |-> [n \in 1 .. built.height |->
         IF n = 1 THEN built.leaves[At(0) + 1]
         ELSE LET at == LevelOffset(n - 1, Capacity(built.height)) + At(n - 1) + 1
              IN  IF at \in DOMAIN built.nodes THEN built.nodes[at] ELSE UnknownDigest]]

\* proofFor, which pairs the levels again.
ProofTs(built, id) ==
  LET slot == SlotOf(built, id)
      levels == Levels(built.leaves, built.height)
  IN  [height |-> built.height, slot_index |-> slot, epoch |-> built.epoch,
       siblings |-> [n \in 1 .. built.height |-> levels[n - 1][Sibling(slot \div TwoTo[n - 1]) + 1]]]

WellFormed(proof) ==
  /\ proof.height \in MinHeight .. MaxHeight
  /\ Len(proof.siblings) = proof.height
  /\ proof.slot_index < Capacity(proof.height)

\* The loop of ProofVerifier::verify: the slot's bits give the sides, the lowest
\* first, and the slot is halved on the way.
Climb(leaf, proof) ==
  LET climbed[n \in 0 .. Len(proof.siblings)] ==
        IF n = 0 THEN [node |-> RealLeaf(leaf), index |-> proof.slot_index]
        ELSE LET at == climbed[n - 1]
             IN  [node  |-> IF at.index % 2 = 0 THEN Node(at.node, proof.siblings[n])
                            ELSE Node(proof.siblings[n], at.node),
                  index |-> at.index \div 2]
  IN  climbed

\* ProofVerifier::verify.
Verify(leaf, proof, root) ==
  IF WellFormed(proof) /\ Climb(leaf, proof)[Len(proof.siblings)].node = root
  THEN "Ok" ELSE "InclusionProofInvalid"

\* Mutant: the bits of the slot are read from the top.
BitFromTheTop(slot, level, height) == (slot \div TwoTo[height - level]) % 2

\* (slotIndex >> level) & 1, levels counted from 1 here.
BitTs(slot, level, height) == (slot \div TwoTo[level - 1]) % 2

\* The loop of verifyInclusion.
ClimbTs(leaf, proof) ==
  LET node[level \in 0 .. proof.height] ==
        IF level = 0 THEN RealLeaf(leaf)
        ELSE LET below == node[level - 1]
                 sibling == proof.siblings[level]
             IN  IF BitTs(proof.slot_index, level, proof.height) = 0
                 THEN Node(below, sibling) ELSE Node(sibling, below)
  IN  node

\* verifyInclusion.
VerifyTs(leaf, proof, root) ==
  IF WellFormed(proof) /\ ClimbTs(leaf, proof)[proof.height] = root
  THEN "Ok" ELSE "InclusionProofInvalid"

\* verify_for_height: the log's configured height decides before any hashing.
VerifyForHeight(leaf, proof, root, configured) ==
  IF proof.height # configured THEN "InclusionProofInvalid" ELSE Verify(leaf, proof, root)

----------------------------------------------------------------------------
(* Whether a promise was kept. *)

\* Mutant: the window has a beginning and no end.
PromiseKeptLate(p, proof, published) ==
  IF proof.epoch # published.epoch THEN "InclusionProofInvalid"
  ELSE IF published.epoch < p.promised_epoch THEN "MergeDelayExceeded"
  ELSE Verify(p.leaf, proof, published.root)

\* promise_kept: the published root must be inside the window.
PromiseKept(p, proof, published) ==
  IF proof.epoch # published.epoch THEN "InclusionProofInvalid"
  ELSE IF published.epoch - p.promised_epoch \notin 0 .. p.max_merge_delay
    THEN "MergeDelayExceeded"
  ELSE Verify(p.leaf, proof, published.root)

\* promiseKept, which adds the delay to the promised epoch.
PromiseKeptTs(p, proof, published) ==
  IF proof.epoch # published.epoch THEN "InclusionProofInvalid"
  ELSE IF \/ published.epoch < p.promised_epoch
          \/ published.epoch > p.promised_epoch + p.max_merge_delay
    THEN "MergeDelayExceeded"
  ELSE VerifyTs(p.leaf, proof, published.root)
=============================================================================
