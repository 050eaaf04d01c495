----------------------------- MODULE Disclosure -----------------------------
(***************************************************************************)
(* What a counterparty can be shown: disclosure packages and inclusion     *)
(* promises, judged offline by ts/src/disclosure.ts, ts/src/tree.ts and    *)
(* crates/certimining-log/src/proof.rs and promise.rs.                     *)
(*                                                                         *)
(* Leaves reach the log in any order and under any identifiers, a batcher  *)
(* that may leave some out seals epochs, and somebody releases a package   *)
(* and replaces parts of it by anything that can be had.  The verifiers    *)
(* are functions of what they are given; the properties ask what they      *)
(* answer in every such state.                                             *)
(***************************************************************************)
EXTENDS EpochTree

CONSTANTS
  Asset,         \* the commitment c of the issuer's asset
  OtherAsset,    \* and of another
  Filing,        \* the categories of the records the issuer files, in order
  Aside,         \* leaf preimages somebody signs that are not of the chain
  Id,            \* submission identifiers
  Heights,       \* the heights a log may be configured with
  Low,           \* what the first two bytes of a slot seed may be
  ReleasedLow,   \* the one value of them under which packages are released
  MaxEpochs,     \* epochs sealed
  MaxReplaced    \* parts of a package replaced

ASSUME DisclosureAssumption ==
  /\ Filing \in Seq(0 .. 4) /\ Id \subseteq Nat
  /\ Heights \subseteq MinHeight .. MaxHeight
  /\ (\A bytes \in Low : bytes \in Nat /\ bytes < 2 ^ 16) /\ ReleasedLow \in Low
  /\ MaxEpochs \in Nat /\ MaxReplaced \in Nat

VARIABLES
  height,     \* the log's configured height, fixed at initialize
  aside,      \* the signed preimage of this behaviour that is not the chain's
  queue,      \* submissions not sealed, in order of arrival
  sealed,     \* the epochs, each with the submissions it was built from
  low,        \* the first two bytes of every slot seed computed
  package,    \* the package released, or Nothing
  replaced    \* the parts of it that were replaced

vars == <<height, aside, queue, sealed, low, package, replaced>>

SchemaVersion == 1
Qp == "qp"
Batcher == "batcher"
Master == "k_master"

----------------------------------------------------------------------------
(* The chain and what is signed. *)

Record(n) == LeafPreimage(Asset, n, "payload", Qp, Filing[n])

\* Fields of a leaf preimage, as readLeafPreimage takes them from the bytes.
Commitment(bytes) == bytes[2]
SeqIn(bytes) == bytes[3]
KeyIn(bytes) == bytes[5]
CategoryIn(bytes) == bytes[6]
Display(bytes) == <<SeqIn(bytes), bytes[4], KeyIn(bytes), CategoryIn(bytes)>>

Chain == [n \in DOMAIN Filing |-> Record(n)]

Signed == ToSet(Chain) \cup {aside}

SignatureOf(bytes) == Sign(KeyIn(bytes), bytes)

\* A sequence number is a u64, and no signature is the absence of one.
ASSUME SignedAssumption ==
  /\ \A bytes \in Aside : SeqIn(bytes) \in Nat
  /\ \A n \in DOMAIN Chain : SignatureOf(Chain[n]) # Nothing

\* The head after leaves, from a head.
HeadAfter(head, leaves) ==
  LET after[n \in 0 .. Len(leaves)] ==
        IF n = 0 THEN head ELSE AdvanceHead(after[n - 1], leaves[n])
  IN  after[Len(leaves)]

Genesis(c) == GenesisHead(c, SchemaVersion)

\* The leaves of the chain after m of them, up to n.
ChainLeaves(m, n) == [i \in 1 .. n - m |-> Keccak256(Chain[m + i])]

ChainHead(n) == HeadAfter(Genesis(Asset), ChainLeaves(0, n))

----------------------------------------------------------------------------
(* The checks of verifyDisclosurePackage, each with its refusal or "Ok". *)

\* Step 0: the schema and the closed list of fields.
ShapeVerdict(p) ==
  IF p.schema # "certimining/v1/disclosure" THEN "MalformedPackage"
  ELSE IF p.unlisted THEN "UnlistedField"
  ELSE "Ok"

\* Step 1: readLeafPreimage.
BytesVerdict(bytes) ==
  IF Len(bytes) # 6 THEN "MalformedPayload"
  ELSE IF bytes[1] # "CMv1LEAF" THEN "DomainTagMismatch"
  ELSE IF SeqIn(bytes) = 0 THEN "SequenceOutOfOrder"
  ELSE IF CategoryIn(bytes) \notin 0 .. 4 THEN "MalformedPayload"
  ELSE "Ok"

\* Mutant: the category shown is not compared.
DisplayVerdictButCategory(p) ==
  IF SubSeq(p.record, 1, 3) = SubSeq(Display(p.preimage_borsh), 1, 3)
  THEN "Ok" ELSE "JsonBorshMismatch"

\* Step 2: compareJsonToBytes.  The flags and the URI are not compared.
DisplayVerdict(p) ==
  IF p.record = Display(p.preimage_borsh) THEN "Ok" ELSE "JsonBorshMismatch"

\* Step 4: the signature over the bytes, by the key the bytes name.
SignatureVerdict(p) ==
  IF p.qp_signature = Nothing THEN "AttestationMissing"
  ELSE IF p.qp_signature # SignatureOf(p.preimage_borsh) THEN "AttestationInvalid"
  ELSE "Ok"

\* Mutant: the package's word is taken for the genesis head.
GenesisTrusted(p) == "Ok"

\* Step 5: the genesis head follows from the signed commitment.
GenesisVerdict(p) ==
  IF p.genesis = Genesis(Commitment(p.preimage_borsh))
  THEN "Ok" ELSE "HeadMismatch"

ExpectedVerdict(p, context) ==
  IF context.expectedPrevHead # Nothing /\ p.prev_head # context.expectedPrevHead
  THEN "HeadMismatch" ELSE "Ok"

\* What a check that also settles the position answers.
Settled(verdict, established) == [verdict |-> verdict, established |-> established]

\* Mutant: a segment that covers the whole chain is one too long.
TooLongByOne(n, seq) == n >= seq

TooLong(n, seq) == n > seq

\* walkSegment, of a segment that is there.
WalkSegment(p, context) ==
  LET steps == p.segment
      n     == Len(steps)
      seq   == SeqIn(p.preimage_borsh)
      Follows(head) == steps[1].head = AdvanceHead(head, steps[1].leaf)
      Mismatch == Settled("HeadMismatch", FALSE)
  IN  IF n = 0 THEN Settled("MalformedPackage", FALSE)
      ELSE IF TooLong(n, seq) THEN Mismatch
      ELSE IF \E i \in 2 .. n : steps[i].head # AdvanceHead(steps[i - 1].head, steps[i].leaf)
        THEN Mismatch
      ELSE IF \/ steps[n].leaf # Keccak256(p.preimage_borsh)
              \/ steps[n].head # p.head
              \/ n > 1 /\ steps[n - 1].head # p.prev_head
        THEN Mismatch
      ELSE IF n = seq
        THEN IF ~Follows(p.genesis) \/ (n = 1 /\ p.prev_head # p.genesis)
             THEN Mismatch ELSE Settled("Ok", TRUE)
      ELSE IF context.trustedHead # Nothing
        THEN IF Follows(context.trustedHead) THEN Settled("Ok", TRUE) ELSE Mismatch
      ELSE Settled("Ok", FALSE)

\* Is prev_head the chain's head at seq - 1?
Position(p, context) ==
  IF p.segment # Nothing THEN WalkSegment(p, context)
  ELSE IF SeqIn(p.preimage_borsh) = 1
    THEN IF p.prev_head = p.genesis THEN Settled("Ok", TRUE) ELSE Settled("HeadMismatch", FALSE)
  ELSE Settled("Ok", context.expectedPrevHead # Nothing)

StepVerdict(p) ==
  IF p.head = AdvanceHead(p.prev_head, Keccak256(p.preimage_borsh)) THEN "Ok" ELSE "HeadMismatch"

\* Step 6: inclusion, against a root had independently.
InclusionVerdict(p, options) ==
  LET leaf == Keccak256(p.preimage_borsh)
  IN  IF p.inclusion.epoch # options.root.epoch THEN "RootEpochMismatch"
      ELSE IF options.configuredHeight # Nothing /\ p.inclusion.height # options.configuredHeight
        THEN "InclusionProofInvalid"
      ELSE VerifyTs(leaf, p.inclusion, options.root.root)

\* computeFlags.
Flags(context, category) ==
       (IF category >= 3 /\ ~context.sawResource THEN {"ReserveWithoutPriorResource"} ELSE {})
  \cup (IF context.previousCategory # Nothing /\ category < context.previousCategory
        THEN {"CategoryDowngrade"} ELSE {})

\* Step 7: the flags are reported and refuse nothing.
FlagReport(p, options) ==
  IF options.chainContext = Nothing THEN "not recomputable"
  ELSE IF p.flags = Flags(options.chainContext, CategoryIn(p.preimage_borsh)) THEN "match"
  ELSE "discrepancy"

NoContext ==
  [expectedPrevHead |-> Nothing, trustedHead |-> Nothing,
   sawResource |-> FALSE, previousCategory |-> Nothing]

Report(verdict, established, flags) ==
  [verdict |-> verdict, established |-> established, flags |-> flags]

Refused(verdict) == Report(verdict, FALSE, "none")

\* verifyDisclosurePackage: the first check that fails decides.
VerifyPackage(p, options) ==
  LET context  == IF options.chainContext = Nothing THEN NoContext ELSE options.chainContext
      position == Position(p, context)
  IN  IF ShapeVerdict(p) # "Ok" THEN Refused(ShapeVerdict(p))
      ELSE IF BytesVerdict(p.preimage_borsh) # "Ok" THEN Refused(BytesVerdict(p.preimage_borsh))
      ELSE IF DisplayVerdict(p) # "Ok" THEN Refused(DisplayVerdict(p))
      ELSE IF SignatureVerdict(p) # "Ok" THEN Refused(SignatureVerdict(p))
      ELSE IF GenesisVerdict(p) # "Ok" THEN Refused(GenesisVerdict(p))
      ELSE IF ExpectedVerdict(p, context) # "Ok" THEN Refused(ExpectedVerdict(p, context))
      ELSE IF position.verdict # "Ok" THEN Refused(position.verdict)
      ELSE IF StepVerdict(p) # "Ok"
        THEN Report(StepVerdict(p), position.established, "none")
      ELSE IF InclusionVerdict(p, options) # "Ok"
        THEN Report(InclusionVerdict(p, options), position.established, "none")
      ELSE Report("Ok", position.established, FlagReport(p, options))

\* verifyDisclosureJson: text that is no JSON is refused before that.
VerifyText(p, options) ==
  IF p = Nothing THEN Refused("MalformedPackage") ELSE VerifyPackage(p, options)
----------------------------------------------------------------------------
(* The log: submissions, and a batcher that seals what it likes of them. *)

Used == {queue[i].id : i \in DOMAIN queue}
          \cup UNION {{s.real[i].id : i \in DOMAIN s.real} : s \in ToSet(sealed)}

\* next_identifier counts.  Its bytes, little-endian, need not sort in the order
\* of arrival; TreeIsItsSet looks at every order.
Submit(bytes, id) ==
  /\ package = Nothing
  /\ id \notin Used /\ \A earlier \in Id : earlier < id => earlier \in Used
  /\ queue' = Append(queue, [id |-> id, leaf |-> Keccak256(bytes)])
  /\ UNCHANGED <<height, aside, sealed, low, package, replaced>>

\* The submissions of the queue under some identifiers, in their order.
Among(ids) ==
  LET among[n \in 0 .. Len(queue)] ==
        IF n = 0 THEN <<>>
        ELSE IF queue[n].id \in ids THEN Append(among[n - 1], queue[n])
        ELSE among[n - 1]
  IN  among[Len(queue)]

Without(left) == Among({queue[n].id : n \in DOMAIN queue} \ left)

SeedsOf(real) == {SlotSeed(EpochKey(Master, Len(sealed)), real[i].id) : i \in DOMAIN real}

\* An epoch is sealed without the identifiers left, and bytes is what the PRF
\* gives for the others.  An empty epoch is sealed as well.
Seal(left, bytes) ==
  LET epoch == Len(sealed)
      real  == Without(left)
  IN  /\ package = Nothing
      /\ epoch < MaxEpochs
      /\ BuildRefused(real, height) = "Ok"
      /\ sealed' = Append(sealed,
           [real |-> real, built |-> Build(epoch, height, Master, real, bytes)])
      /\ low' = [seed \in DOMAIN bytes \cup DOMAIN low |->
                 IF seed \in DOMAIN bytes THEN bytes[seed] ELSE low[seed]]
      /\ queue' = Among(left)
      /\ UNCHANGED <<height, aside, package, replaced>>

----------------------------------------------------------------------------
(* Packages.  What no signature covers is whatever the releaser makes it. *)

Published(s) == [epoch |-> s.built.epoch, root |-> s.built.root]

GenuineProofs ==
  UNION {{Proof(s.built, s.real[i].id) : i \in DOMAIN s.real} : s \in ToSet(sealed)}

\* The heads and leaves of a walk from a head, one step for each leaf.
Steps(head, leaves) ==
  [n \in DOMAIN leaves |->
     [leaf |-> leaves[n], head |-> HeadAfter(head, SubSeq(leaves, 1, n))]]

\* walkSegment takes any 32 bytes for a leaf: the digest of something signed, or
\* bytes that are the digest of nothing.
AnyLeaf == {Keccak256(b) : b \in Signed} \cup {UnknownDigest}

\* Some leaves of the chain that follow one another, or none, and the same with
\* one of them invented.
ChainRuns == UNION {{ChainLeaves(m, n) : n \in m .. Len(Chain)} : m \in 0 .. Len(Chain)}

Runs ==
  ChainRuns \cup UNION {{[run EXCEPT ![i] = UnknownDigest] : i \in DOMAIN run} : run \in ChainRuns}

\* A segment whose first head is not that of its first leaf.
Severed(segment) == [segment EXCEPT ![1] = [leaf |-> @.leaf, head |-> UnknownDigest]]

Bases == {Genesis(Asset), Genesis(OtherAsset), ChainHead(1), UnknownDigest}

SawResource(n) == \E i \in 1 .. n - 1 : Filing[i] \in {1, 2}

Previous(n) == IF n <= 1 THEN Nothing ELSE Filing[n - 1]

GenuineFlags(n) ==
  Flags([sawResource |-> SawResource(n), previousCategory |-> Previous(n)], Filing[n])

\* Packages are released from the first epoch alone, of submissions that came
\* in the order of their identifiers and of their leaves.
Rank(leaf) ==
  IF leaf = Keccak256(aside) THEN Len(Filing) + 1
  ELSE CHOOSE n \in DOMAIN Chain : leaf = Keccak256(Chain[n])

InOrder ==
  /\ package = Nothing /\ Len(sealed) = 1 /\ queue = <<>>
  /\ LET real == sealed[1].real
     IN  \A i \in DOMAIN real :
           real[i].id = i /\ (i > 1 => Rank(real[i].leaf) > Rank(real[i - 1].leaf))

ReleasePoint == InOrder /\ height = MaxHeight /\ \A seed \in DOMAIN low : low[seed] = ReleasedLow

\* Signed bytes shown as they are, behind a walk from some head.
PackageOf(bytes, base, run, withSegment, proof) ==
  LET leaf == Keccak256(bytes)
      prev == HeadAfter(base, run)
  IN  [schema |-> "certimining/v1/disclosure", unlisted |-> FALSE,
       record |-> Display(bytes), preimage_borsh |-> bytes,
       qp_signature |-> SignatureOf(bytes),
       prev_head |-> prev, head |-> AdvanceHead(prev, leaf),
       genesis |-> IF base = Genesis(OtherAsset) THEN base ELSE Genesis(Commitment(bytes)),
       segment |-> IF withSegment THEN Steps(base, Append(run, leaf)) ELSE Nothing,
       inclusion |-> proof,
       flags |-> IF bytes \in ToSet(Chain) THEN GenuineFlags(SeqIn(bytes)) ELSE {}]

\* The package may carry any genuine proof.
Release(bytes, base, run, withSegment, proof) ==
  /\ ReleasePoint
  /\ package' = PackageOf(bytes, base, run, withSegment, proof)
  /\ UNCHANGED <<height, aside, queue, sealed, low, replaced>>

\* What can stand in for each part of a package.
Replacement(part) ==
  CASE part = "schema"         -> {"another schema"}
    [] part = "unlisted"       -> {TRUE}
    [] part = "record"         -> {Display(b) : b \in Signed} \cup
                                  {[package.record EXCEPT ![4] = c] : c \in {2, 4}}
    [] part = "preimage_borsh" -> Signed \cup {<<"short">>}
                                  \cup {[b EXCEPT ![4] = "forged"] : b \in Signed}
                                  \cup {[b EXCEPT ![1] = "CMv1HEAD"] : b \in Signed}
    [] part = "qp_signature"   -> {SignatureOf(b) : b \in Signed} \cup {Nothing}
    [] part = "prev_head"      -> Bases \cup {ChainHead(n) : n \in DOMAIN Chain}
    [] part = "head"           -> Bases \cup {ChainHead(n) : n \in DOMAIN Chain}
    [] part = "genesis"        -> Bases
    [] part = "segment"        -> {Nothing, <<>>} \cup {Steps(Genesis(Asset), r) : r \in Runs}
                                  \cup {Severed(s) : s \in {package.segment} \ {Nothing}}
    [] part = "inclusion"      -> GenuineProofs
                                  \cup {[p EXCEPT !.epoch = 1] : p \in GenuineProofs}
                                  \cup {[p EXCEPT !.height = 1] : p \in GenuineProofs}
                                  \cup {[p EXCEPT !.slot_index = 3] : p \in GenuineProofs}
    [] part = "flags"          -> {{}, {"CategoryDowngrade"}}

Part == {"schema", "unlisted", "record", "preimage_borsh", "qp_signature", "prev_head",
         "head", "genesis", "segment", "inclusion", "flags"}

Replace(part, value) ==
  /\ Cardinality(replaced) < MaxReplaced
  /\ value # package[part]
  /\ package' = [package EXCEPT ![part] = value]
  /\ replaced' = replaced \cup {part}
  /\ UNCHANGED <<height, aside, queue, sealed, low>>

----------------------------------------------------------------------------
Init ==
  /\ height \in Heights /\ aside \in Aside
  /\ queue = <<>> /\ sealed = <<>> /\ low = <<>>
  /\ package = Nothing /\ replaced = {}

Next ==
  \/ \E bytes \in Signed, id \in Id : Submit(bytes, id)
  \/ \E left \in SUBSET {queue[i].id : i \in DOMAIN queue} :
       \E bytes \in [SeedsOf(Without(left)) -> Low] : Seal(left, bytes)
  \/ /\ ReleasePoint
     /\ \E bytes \in Signed, base \in Bases, run \in Runs, withSegment \in BOOLEAN,
           proof \in GenuineProofs : Release(bytes, base, run, withSegment, proof)
  \/ /\ package # Nothing
     /\ \E part \in Part \ replaced : \E value \in Replacement(part) : Replace(part, value)

Spec == Init /\ [][Next]_vars

----------------------------------------------------------------------------
(* The properties.  A sealed epoch never changes, so the newest is enough. *)

Newest == IF package = Nothing /\ sealed # <<>> THEN {Last(sealed)} ELSE {}

LeavesOf(s) == {s.real[i].leaf : i \in DOMAIN s.real}

\* EpochTree::proof answers every submission of an epoch with a proof that
\* verifies against the root, at the configured height and without one,
\* wherever the probe put the leaf.
EverySubmissionProves ==
  \A s \in Newest : \A i \in DOMAIN s.real :
    LET leaf  == s.real[i].leaf
        proof == Proof(s.built, s.real[i].id)
    IN  /\ Verify(leaf, proof, s.built.root) = "Ok"
        /\ VerifyForHeight(leaf, proof, s.built.root, height) = "Ok"
        /\ VerifyForHeight(leaf, proof, s.built.root, height - 1) # "Ok"

\* One set of submissions is one tree: build gives the same root, leaves and
\* assignment in whatever order the caller supplies them.
TreeIsItsSet ==
  \A s \in Newest : queue = <<>> =>
    \A order \in Bijection(DOMAIN s.real, DOMAIN s.real) :
      Build(s.built.epoch, height, Master, [i \in DOMAIN s.real |-> s.real[order[i]]], low)
        = s.built

\* The two implementations agree: buildEpoch gives the tree of build, proofFor
\* the proof of proof, verifyInclusion the answer of verify on every leaf and
\* slot, and verifyPromise the answer of verify_promise at every edge, on
\* promises signed the way their key's holder signs.
ImplementationsAgree ==
  /\ sealed = <<>> =>
       \A key \in {Batcher, Qp}, accepted, promised, observed \in 0 .. MaxMergeDelay + 3,
          delay \in {0, MaxMergeDelay} :
         LET p == SignedPromise(key, UnknownDigest, 1, accepted, promised, delay)
         IN  VerifyPromise(p, Batcher, observed) = VerifyPromiseTs(p, Batcher, observed)
  /\ \A s \in Newest : queue = <<>> =>
       LET ts == BuildTs(s.built.epoch, height, Master, s.real, low)
       IN  /\ \A field \in DOMAIN ts : ts[field] = s.built[field]
           /\ \A i \in DOMAIN s.real :
                LET proof == Proof(s.built, s.real[i].id)
                IN  /\ ProofTs(ts, s.real[i].id) = proof
                    /\ \A leaf \in LeavesOf(s), slot \in 0 .. Capacity(height) :
                         LET moved == [proof EXCEPT !.slot_index = slot]
                         IN  Verify(leaf, moved, ts.root) = VerifyTs(leaf, moved, ts.root)

\* Nothing but a real leaf proves: whatever proof is put together from digests
\* of the tree, at whatever height, verify accepts it only for a leaf that was
\* submitted and sits in that slot; a node or a padding leaf is none.
OnlyRealLeavesProve ==
  InOrder =>
    LET built   == sealed[1].built
        Known   == ToSet(built.leaves) \cup ToSet(built.nodes) \cup {UnknownDigest}
        Claimed == Known \cup {Keccak256(b) : b \in Signed}
    IN  \A h \in MinHeight .. MaxHeight :
          \A siblings \in [1 .. h -> Known], slot \in 0 .. Capacity(h) - 1, leaf \in Claimed :
            Verify(leaf, [height |-> h, siblings |-> siblings, slot_index |-> slot,
                          epoch |-> 0], built.root) = "Ok"
              => \E i \in DOMAIN sealed[1].real :
                   /\ sealed[1].real[i].leaf = leaf
                   /\ SlotOf(built, sealed[1].real[i].id) = slot

\* verify answers for exactly what a tree holds: every submission has a proof,
\* and nothing else has one.
ProvesExactlyWhatIsThere == EverySubmissionProves /\ OnlyRealLeavesProve

\* promise_kept and promiseKept find a promise kept by a published root if and
\* only if the leaf is in that epoch's tree and the epoch is in the promised
\* window, whether the proof says its own epoch or that one.
KeptMeansIncluded ==
  \A s \in Newest : queue = <<>> =>
    \A leaf \in {Keccak256(b) : b \in Signed}, promised \in 0 .. MaxEpochs - 1 :
      LET p       == SignedPromise(Batcher, leaf, 1, promised, promised, MaxMergeDelay)
          offered == GenuineProofs
                       \cup {[proof EXCEPT !.epoch = s.built.epoch] : proof \in GenuineProofs}
          kept    == [proof \in offered |-> PromiseKept(p, proof, Published(s))]
      IN  /\ \A proof \in offered : kept[proof] = PromiseKeptTs(p, proof, Published(s))
          /\ (\E proof \in offered : kept[proof] = "Ok")
               <=> /\ leaf \in LeavesOf(s)
                   /\ s.built.epoch \in promised .. promised + MaxMergeDelay

\* What a caller may know: nothing, the head before the record, or an earlier
\* head of the chain.
Contexts ==
  LET n == IF Len(package.preimage_borsh) = 6 THEN SeqIn(package.preimage_borsh) ELSE 1
      With(expected, trusted) ==
        [expectedPrevHead |-> expected, trustedHead |-> trusted,
         sawResource |-> SawResource(n), previousCategory |-> Previous(n)]
      heads == {ChainHead(m) : m \in 0 .. Len(Chain)}
  IN  {Nothing} \cup {With(h, Nothing) : h \in heads} \cup {With(Nothing, h) : h \in heads}

Options ==
  IF package = Nothing THEN {}
  ELSE [root : {Published(s) : s \in ToSet(sealed)}, configuredHeight : {Nothing, height},
        chainContext : Contexts]

\* An accepted package shows what was filed: its bytes were signed by the key
\* they name and could be of a record, its display copy says what they say,
\* and their leaf is in the slot named of the published tree.
AcceptedIsFiled ==
  \A o \in Options : VerifyText(package, o).verdict = "Ok" =>
    LET bytes == package.preimage_borsh
        s     == sealed[package.inclusion.epoch + 1]
    IN  /\ bytes \in Signed /\ SeqIn(bytes) > 0 /\ CategoryIn(bytes) \in 0 .. 4
        /\ package.record = <<SeqIn(bytes), bytes[4], KeyIn(bytes), CategoryIn(bytes)>>
        /\ \E i \in DOMAIN s.real :
             /\ s.real[i].leaf = Keccak256(bytes)
             /\ SlotOf(s.built, s.real[i].id) = package.inclusion.slot_index

\* The leaves a segment shows before the record's own.
Shown ==
  IF package.segment = Nothing THEN <<>>
  ELSE [i \in 1 .. Len(package.segment) - 1 |-> package.segment[i].leaf]

\* A position reported as established recomputes: prev_head is where the leaves
\* shown, seq - 1 of them, come to from the genesis head of the asset the bytes
\* name, or where fewer of them come to from the head the caller trusts, or it
\* is the head the caller expects.  It is the issuer's arithmetic and no more:
\* nobody signed the order, and a leaf shown may be of no record.
PositionIsAnchored ==
  \A o \in Options :
    LET report == VerifyText(package, o)
        bytes  == package.preimage_borsh
        before == SeqIn(bytes) - 1
    IN  report.verdict = "Ok" /\ report.established =>
          \/ /\ Len(Shown) = before
             /\ HeadAfter(Genesis(Commitment(bytes)), Shown) = package.prev_head
          \/ /\ o.chainContext # Nothing
             /\ \/ package.prev_head = o.chainContext.expectedPrevHead
                \/ /\ o.chainContext.trustedHead # Nothing /\ Len(Shown) < before
                   /\ HeadAfter(o.chainContext.trustedHead, Shown) = package.prev_head

\* A genuine package is accepted, with its position when it carries the whole
\* chain or is the first of it, and with flags that agree when the caller
\* knows the chain.
GenuineAccepted ==
  LET bytes == package.preimage_borsh
      n     == SeqIn(bytes)
      s     == sealed[1]
  IN  \A o \in Options :
        ( /\ replaced = {} /\ bytes \in ToSet(Chain)
          /\ package.prev_head = ChainHead(n - 1) /\ package.genesis = Genesis(Asset)
          /\ \E i \in DOMAIN s.real :
               /\ s.real[i].leaf = Keccak256(bytes)
               /\ package.inclusion = Proof(s.built, s.real[i].id)
          /\ o.chainContext # Nothing =>
               /\ o.chainContext.expectedPrevHead \in {Nothing, ChainHead(n - 1)}
               /\ o.chainContext.trustedHead = Nothing )
        => LET report == VerifyText(package, o)
               known  == o.chainContext # Nothing
           IN  /\ report.verdict = "Ok"
               /\ report.flags = IF known THEN "match" ELSE "not recomputable"
               /\ \/ package.segment = Nothing /\ n = 1
                  \/ package.segment = Nothing /\ known /\ o.chainContext.expectedPrevHead # Nothing
                  \/ package.segment # Nothing /\ Len(package.segment) = n
                  => report.established

----------------------------------------------------------------------------
(* What disclosure.ts says and does not do. *)

\* "prev_head is the chain's head at seq - 1" (disclosure.ts:587), the check
\* that passes when the walk of a segment establishes the position: against a
\* head of the chain that the caller trusts, prev_head is a head after seq - 1
\* leaves, whatever they are.
PositionIsTheSequence ==
  \A o \in Options :
    LET report == VerifyText(package, o)
        bytes  == package.preimage_borsh
    IN  report.verdict = "Ok" /\ report.established /\ package.segment # Nothing
          => \E leaves \in [1 .. SeqIn(bytes) - 1 -> AnyLeaf] :
               HeadAfter(Genesis(Commitment(bytes)), leaves) = package.prev_head
=============================================================================
