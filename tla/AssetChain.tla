----------------------------- MODULE AssetChain -----------------------------
(***************************************************************************)
(* The supersession state machine of crates/certimining-core/src/state.rs  *)
(* for one asset, beside the independent one of ts/src/chain.ts.           *)
(*                                                                         *)
(* An issuer's process holds the chain, stores a snapshot of it when it    *)
(* likes and resumes from the last one stored after a crash; a reader      *)
(* replays records through the TypeScript engine, from genesis.  A record  *)
(* that is refused changes nothing: each engine has a Verdict giving the   *)
(* code of the first check that fails, in the order the code makes them.   *)
(*                                                                         *)
(* Keccak-256 over tagged preimages is taken to be injective, so a head is *)
(* the sequence of leaves it commits to and the genesis head is empty.     *)
(* The engines verify signatures with different libraries, and "Ed25519    *)
(* (RFC 8032)" does not settle every signature (ts/SPEC-DEFECTS.md,        *)
(* SD-07): a signature that it leaves open is taken by any of the two.     *)
(***************************************************************************)
EXTENDS Integers, Sequences

CONSTANTS
  Key,       \* the public keys of qualified persons
  NoKey,     \* no key is expected
  Expected,  \* what a caller may expect for a key, NoKey among it
  Payload,   \* payload and memo digests and the memo's date, as one value
  Category,  \* the category bytes a record may arrive with
  Date,      \* the effective dates a record may arrive with
  MinI64,    \* i64::MIN, the date before any record
  MaxSeq     \* u64::MAX

ASSUME AssetChainAssumption ==
  /\ Key # {} /\ NoKey \notin Key /\ NoKey \in Expected
  /\ Payload # {}
  /\ Category \subseteq Nat /\ \E category \in Category : category <= 4
  /\ MinI64 \in Int
  /\ Date \subseteq Int /\ Date # {}
  /\ \A d \in Date : MinI64 <= d
  /\ MaxSeq \in Nat \ {0}

VARIABLES
  chain,    \* the AssetChain in the issuer's process
  answer,   \* what its last apply returned, as a sequence of at most one
  stored,   \* the last ChainSnapshot that was stored
  reader,   \* the ChainState of a TypeScript reader
  verdict   \* what its last applyRecord returned

vars == <<chain, answer, stored, reader, verdict>>

----------------------------------------------------------------------------
(* Records and chains. *)

MaxCategory == 4       \* MAX_CATEGORY, CATEGORY_MAX
Resource == {1, 2}
Reserve == {3, 4}

None == -1             \* previous_category of an empty chain
Null == MinI64 - 1     \* lastEffectiveAt of an empty chain in TypeScript

Leaf ==
  [seq : 0 .. MaxSeq, payload : Payload, qp_key : Key,
   category : Category, effective_at : Date]

\* ed25519-dalek and noble.
Library == {"dalek", "noble"}

\* A signature for a key, with the libraries that take it over this record's leaf
\* preimage: both if it was made over these bytes, neither if over others, and
\* any of them if RFC 8032 leaves it open.
NoSignature == [key |-> NoKey, passes |-> {}]
Signature == {NoSignature} \cup [key : Key, passes : SUBSET Library]

\* The fields of RecordLeafInput outside the leaf: payload_uri by whether it is
\* well formed, ext_commitment by whether it is there.
RecordLeafInput ==
  [prev_head : Seq(Leaf), seq : 0 .. MaxSeq, payload : Payload, qp_key : Key,
   expected_qp_key : Expected, signature : Signature,
   category : Category, effective_at : Date,
   payload_uri : BOOLEAN, ext_commitment : BOOLEAN]

Flag == {"ReserveWithoutPriorResource", "CategoryDowngrade"}

Genesis == << >>

Start ==
  [head |-> Genesis, seq |-> 0, last_effective_at |-> MinI64,
   saw_resource |-> FALSE, previous_category |-> None]

\* The leaf a record gives, whose bytes the qualified person signs: neither the
\* head it is filed against nor its URI is among them.
LeafOf(r) ==
  [seq |-> r.seq, payload |-> r.payload, qp_key |-> r.qp_key,
   category |-> r.category, effective_at |-> r.effective_at]

\* DalekVerifier::verify of verify.rs, and ed25519Verify of hash.ts.
VerifyStrict(key, signature) == signature.key = key /\ "dalek" \in signature.passes
Ed25519Verify(key, signature) == signature.key = key /\ "noble" \in signature.passes

----------------------------------------------------------------------------
(* apply of state.rs: the schema gate, (a) to (d), (f), the flags of (e). *)

AttestationVerdict(r) ==
  IF r.expected_qp_key # NoKey /\ r.expected_qp_key # r.qp_key THEN "AttestationKeyMismatch"
  ELSE IF r.signature = NoSignature THEN "AttestationMissing"
  ELSE IF ~VerifyStrict(r.qp_key, r.signature) THEN "AttestationInvalid"
  ELSE "Ok"

FieldsVerdict(r) ==
  IF r.category > MaxCategory THEN "MalformedPayload"
  ELSE IF ~r.payload_uri THEN "MalformedPayload"
  ELSE "Ok"

ApplyVerdict(c, r) ==
  IF r.ext_commitment THEN "UnsupportedSchemaVersion"
  ELSE IF r.prev_head # c.head THEN "HeadMismatch"
  ELSE IF c.seq = MaxSeq THEN "ArithmeticOverflow"
  ELSE IF r.seq # c.seq + 1 THEN "SequenceOutOfOrder"
  ELSE IF AttestationVerdict(r) # "Ok" THEN AttestationVerdict(r)
  ELSE IF r.effective_at < c.last_effective_at THEN "NonMonotonicEffectiveAt"
  ELSE FieldsVerdict(r)

FlagsFor(c, r) ==
  {f \in Flag :
     \/ f = "ReserveWithoutPriorResource" /\ r.category \in Reserve /\ ~c.saw_resource
     \/ f = "CategoryDowngrade" /\ c.previous_category # None
                                /\ r.category < c.previous_category}

Applied(c, r) ==
  [leaf |-> LeafOf(r), head |-> Append(c.head, LeafOf(r)), flags |-> FlagsFor(c, r)]

\* Mutant: only the last record is remembered.
AfterApplyForgets(c, r) ==
  [head |-> Append(c.head, LeafOf(r)), seq |-> c.seq + 1,
   last_effective_at |-> r.effective_at,
   saw_resource |-> r.category \in Resource,
   previous_category |-> r.category]

AfterApply(c, r) ==
  [head |-> Append(c.head, LeafOf(r)), seq |-> c.seq + 1,
   last_effective_at |-> r.effective_at,
   saw_resource |-> c.saw_resource \/ r.category \in Resource,
   previous_category |-> r.category]

\* snapshot and resume: every field of the chain, and a check of one of them.
Snapshot(c) ==
  [head |-> c.head, seq |-> c.seq, last_effective_at |-> c.last_effective_at,
   saw_resource |-> c.saw_resource, previous_category |-> c.previous_category]

ResumeVerdict(s) ==
  IF s.previous_category # None /\ s.previous_category > MaxCategory
  THEN "MalformedPayload" ELSE "Ok"

Resume(s) ==
  [head |-> s.head, seq |-> s.seq, last_effective_at |-> s.last_effective_at,
   saw_resource |-> s.saw_resource, previous_category |-> s.previous_category]

----------------------------------------------------------------------------
(* applyRecord and commit of chain.ts.  The flags are computed before (f). *)

TsStart ==
  [head |-> Genesis, seq |-> 0, last_effective_at |-> Null,
   saw_resource |-> FALSE, previous_category |-> None]

\* Mutant: (d) is judged before (c).
TsApplyVerdictDateFirst(c, r) ==
  IF r.ext_commitment THEN "UnsupportedSchemaVersion"
  ELSE IF r.prev_head # c.head THEN "HeadMismatch"
  ELSE IF c.seq >= MaxSeq THEN "ArithmeticOverflow"
  ELSE IF r.seq # c.seq + 1 THEN "SequenceOutOfOrder"
  ELSE IF c.last_effective_at # Null /\ r.effective_at < c.last_effective_at
       THEN "NonMonotonicEffectiveAt"
  ELSE IF r.expected_qp_key # NoKey /\ r.expected_qp_key # r.qp_key
       THEN "AttestationKeyMismatch"
  ELSE IF r.signature = NoSignature THEN "AttestationMissing"
  ELSE IF ~Ed25519Verify(r.qp_key, r.signature) THEN "AttestationInvalid"
  ELSE FieldsVerdict(r)

TsApplyVerdict(c, r) ==
  IF r.ext_commitment THEN "UnsupportedSchemaVersion"
  ELSE IF r.prev_head # c.head THEN "HeadMismatch"
  ELSE IF c.seq >= MaxSeq THEN "ArithmeticOverflow"
  ELSE IF r.seq # c.seq + 1 THEN "SequenceOutOfOrder"
  ELSE IF r.expected_qp_key # NoKey /\ r.expected_qp_key # r.qp_key
       THEN "AttestationKeyMismatch"
  ELSE IF r.signature = NoSignature THEN "AttestationMissing"
  ELSE IF ~Ed25519Verify(r.qp_key, r.signature) THEN "AttestationInvalid"
  ELSE IF c.last_effective_at # Null /\ r.effective_at < c.last_effective_at
       THEN "NonMonotonicEffectiveAt"
  ELSE IF r.category > MaxCategory \/ ~r.payload_uri THEN "MalformedPayload"
  ELSE "Ok"

ComputeFlags(c, r) ==
  {f \in Flag :
     \/ f = "ReserveWithoutPriorResource" /\ r.category >= 3 /\ ~c.saw_resource
     \/ f = "CategoryDowngrade" /\ c.previous_category # None
                                /\ r.category < c.previous_category}

TsApplied(c, r) ==
  [leaf |-> LeafOf(r), head |-> Append(c.head, LeafOf(r)), flags |-> ComputeFlags(c, r)]

TsCommit(c, r, applied) ==
  [head |-> applied.head, seq |-> r.seq, last_effective_at |-> r.effective_at,
   saw_resource |-> c.saw_resource \/ r.category \in Resource,
   previous_category |-> r.category]

----------------------------------------------------------------------------
(* The specification. *)

Init ==
  /\ chain = Start
  /\ answer = << >>
  /\ stored = Snapshot(Start)
  /\ reader = TsStart
  /\ verdict = << >>

Apply(r) ==
  /\ ApplyVerdict(chain, r) = "Ok"
  /\ chain' = AfterApply(chain, r)
  /\ answer' = <<Applied(chain, r)>>
  /\ UNCHANGED <<stored, reader, verdict>>

\* The issuer keeps the chain for the next process.
Store ==
  /\ stored' = Snapshot(chain)
  /\ UNCHANGED <<chain, answer, reader, verdict>>

\* Whatever was applied since the last Store is gone, its answer too: the next
\* process may apply another record in its place.
CrashResume ==
  /\ ResumeVerdict(stored) = "Ok"
  /\ chain' = Resume(stored)
  /\ answer' = << >>
  /\ UNCHANGED <<stored, reader, verdict>>

Read(r) ==
  /\ TsApplyVerdict(reader, r) = "Ok"
  /\ verdict' = <<TsApplied(reader, r)>>
  /\ reader' = TsCommit(reader, r, TsApplied(reader, r))
  /\ UNCHANGED <<chain, answer, stored>>

ReadAgain ==
  /\ reader' = TsStart
  /\ verdict' = << >>
  /\ UNCHANGED <<chain, answer, stored>>

\* The records that may arrive at a chain: filed against its head or against
\* the genesis head, numbered next, wrapping past u64::MAX, or like the last.
Arriving(c) ==
  [prev_head : {c.head, Genesis}, seq : {c.seq, IF c.seq = MaxSeq THEN 0 ELSE c.seq + 1},
   payload : Payload, qp_key : Key, expected_qp_key : Expected,
   signature : Signature, category : Category, effective_at : Date,
   payload_uri : BOOLEAN, ext_commitment : BOOLEAN]

Next ==
  \/ \E r \in Arriving(chain) : Apply(r)
  \/ Store
  \/ CrashResume
  \/ \E r \in Arriving(reader) : Read(r)
  \/ ReadAgain

Spec == Init /\ [][Next]_vars

----------------------------------------------------------------------------
(* Properties. *)

ChainType(least) ==
  [head : Seq(Leaf), seq : 0 .. MaxSeq, last_effective_at : Date \cup {least},
   saw_resource : BOOLEAN, previous_category : {None} \cup 0 .. MaxCategory]

AppliedType == [leaf : Leaf, head : Seq(Leaf), flags : SUBSET Flag]

\* The chain, the snapshot and the reader's state hold only categories and
\* sequence numbers their types and condition (f) allow.
TypeOK ==
  /\ chain \in ChainType(MinI64)
  /\ stored \in ChainType(MinI64)
  /\ reader \in ChainType(Null)
  /\ answer \in Seq(AppliedType) /\ Len(answer) <= 1
  /\ verdict \in Seq(AppliedType) /\ Len(verdict) <= 1

\* c holds what the records under its head say, least standing for no record.
Summarises(c, least) ==
  LET n == Len(c.head) IN
  /\ c.seq = n
  /\ c.last_effective_at = (IF n = 0 THEN least ELSE c.head[n].effective_at)
  /\ c.saw_resource <=> \E i \in 1 .. n : c.head[i].category \in Resource
  /\ c.previous_category = (IF n = 0 THEN None ELSE c.head[n].category)

\* The four fields a chain keeps beside its head (seq, last_effective_at,
\* saw_resource, previous_category) are what the whole history under that head
\* says, in the issuer's process, in the snapshot it may resume from and in
\* the reader, through any number of crashes: so a head alone decides how
\* the chain goes on.
StateFollowsHead ==
  /\ Summarises(chain, MinI64)
  /\ Summarises(stored, MinI64)
  /\ Summarises(reader, Null)

LawfulHistory(h) ==
  /\ \A i \in 1 .. Len(h) : h[i].seq = i /\ h[i].category <= MaxCategory
  /\ \A i, j \in 1 .. Len(h) : i < j => h[i].effective_at <= h[j].effective_at

\* Every head commits to records numbered from 1 without a gap, in order of
\* effective date over the whole history (INV-STATE-04), each of a category
\* schema 1 knows: a resumed process cannot date a record before one that the
\* process before it took.
HeadsAreLawful ==
  LawfulHistory(chain.head) /\ LawfulHistory(stored.head) /\ LawfulHistory(reader.head)

\* The flags the newest record of a history deserves (docs/state-machine.md).
FlagsOf(h) ==
  {f \in Flag :
     \/ /\ f = "ReserveWithoutPriorResource"
        /\ h[Len(h)].category \in Reserve
        /\ \A i \in 1 .. Len(h) - 1 : h[i].category \notin Resource
     \/ /\ f = "CategoryDowngrade"
        /\ Len(h) > 1
        /\ h[Len(h)].category < h[Len(h) - 1].category}

Answers == {answer[i] : i \in DOMAIN answer} \cup {verdict[i] : i \in DOMAIN verdict}

\* The flags apply and applyRecord return are those of the whole history under
\* the head returned with them, whatever was forgotten in a crash in between:
\* two engines that answer with the same head answer with the same flags.
FlagsFollowHistory == \A a \in Answers : a.flags = FlagsOf(a.head)

\* The two engines at the same head answer a record alike: the same code, or
\* the same leaf, head and flags, though they make their checks in another
\* order and start from another last date.  Where they part, it is over a
\* signature that one library takes and the other does not (SD-07), and the
\* engine whose library does not says so: no other check can tell them apart.
EnginesAgree ==
  chain.head = reader.head =>
    \A r \in Arriving(chain) :
      LET rust   == ApplyVerdict(chain, r)
          ts     == TsApplyVerdict(reader, r)
          strict == VerifyStrict(r.qp_key, r.signature)
          rfc    == Ed25519Verify(r.qp_key, r.signature)
      IN  /\ \/ rust = ts
             \/ rust = "AttestationInvalid" /\ ~strict /\ rfc
             \/ ts = "AttestationInvalid" /\ strict /\ ~rfc
          /\ rust = "Ok" /\ ts = "Ok" => TsApplied(reader, r) = Applied(chain, r)

\* A chain below u64::MAX can always take another record, the newest date and
\* the highest category reached or not, and what was stored always resumes.
AlwaysContinues ==
  /\ ResumeVerdict(stored) = "Ok"
  /\ chain.seq < MaxSeq => \E r \in Arriving(chain) : ApplyVerdict(chain, r) = "Ok"
=============================================================================
