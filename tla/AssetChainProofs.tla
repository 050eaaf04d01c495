-------------------------- MODULE AssetChainProofs --------------------------
(***************************************************************************)
(* The asset chain for every set of keys, payloads, categories and dates.  *)
(* Inv says of the issuer's chain, of the snapshot and of the reader's     *)
(* state that it is sound: typed, the summary of its history, and its      *)
(* history lawful.  Extension shows, once for both engines, that a record  *)
(* numbered next and not dated back keeps a chain sound and deserves the   *)
(* flags the engines compute; the engines' verdicts give its hypotheses.   *)
(***************************************************************************)
EXTENDS AssetChain, TLAPS

Sound(c, least) ==
  c \in ChainType(least) /\ Summarises(c, least) /\ LawfulHistory(c.head)

AnswersSound(a) ==
  /\ a \in Seq(AppliedType) /\ Len(a) <= 1
  /\ \A i \in DOMAIN a : a[i].flags = FlagsOf(a[i].head)

Inv ==
  /\ Sound(chain, MinI64)
  /\ Sound(stored, MinI64)
  /\ Sound(reader, Null)
  /\ AnswersSound(answer)
  /\ AnswersSound(verdict)

\* Dates are integers from MinI64 on, categories are natural numbers.
LEMMA ConstantsAreNumbers ==
  /\ \A d \in Date : d \in Int /\ MinI64 <= d
  /\ \A k \in Category : k \in Nat
  /\ MinI64 \in Int /\ Null \in Int /\ Null < MinI64
  BY AssetChainAssumption DEF Null

----------------------------------------------------------------------------
(* The state after a record, the same in both engines. *)

Extended(c, r) ==
  [head |-> Append(c.head, LeafOf(r)), seq |-> r.seq,
   last_effective_at |-> r.effective_at,
   saw_resource |-> c.saw_resource \/ r.category \in Resource,
   previous_category |-> r.category]

\* What either engine has made sure of when it takes a record.
Follows(c, r) ==
  /\ r.seq = c.seq + 1
  /\ c.seq < MaxSeq
  /\ c.seq > 0 => c.last_effective_at <= r.effective_at
  /\ r.category <= MaxCategory
  /\ r.payload \in Payload /\ r.qp_key \in Key
  /\ r.category \in Category /\ r.effective_at \in Date

\* A record's leaf has the type of a leaf.
LEMMA LeafIsTyped ==
  ASSUME NEW least, NEW c \in ChainType(least), NEW r, Follows(c, r)
  PROVE  LeafOf(r) \in Leaf
  BY AssetChainAssumption DEF Follows, LeafOf, Leaf, ChainType

\* A record that follows keeps a chain sound.
LEMMA Extension ==
  ASSUME NEW least, NEW c, Sound(c, least), NEW r, Follows(c, r)
  PROVE  Sound(Extended(c, r), least)
<1> DEFINE h == c.head
           x == LeafOf(r)
           g == Append(h, x)
           d == Extended(c, r)
<1>1. c \in ChainType(least) /\ Summarises(c, least) /\ LawfulHistory(h)
  BY DEF Sound
<1>2. /\ h \in Seq(Leaf) /\ x \in Leaf
      /\ c.seq \in Nat /\ c.seq = Len(h) /\ Len(h) \in Nat
      /\ c.saw_resource \in BOOLEAN
  BY <1>1, LeafIsTyped, AssetChainAssumption DEF ChainType, Summarises
<1>3. /\ x.seq = r.seq /\ x.category = r.category /\ x.effective_at = r.effective_at
      /\ r.effective_at \in Int /\ r.category \in Nat
  BY AssetChainAssumption DEF LeafOf, Follows
<1> HIDE DEF x
<1>4. /\ g \in Seq(Leaf) /\ Len(g) = Len(h) + 1 /\ g[Len(h) + 1] = x
      /\ \A i \in 1 .. Len(h) : g[i] = h[i]
  BY <1>2
<1>5. /\ d.head = g /\ d.seq = r.seq /\ d.last_effective_at = r.effective_at
      /\ d.saw_resource = (c.saw_resource \/ r.category \in Resource)
      /\ d.previous_category = r.category
  BY DEF Extended, x
<1> HIDE DEF g
<1>6. d \in ChainType(least)
  <2>1. /\ r.seq \in 0 .. MaxSeq /\ r.effective_at \in Date
        /\ r.category \in 0 .. MaxCategory
    BY <1>2, <1>3, AssetChainAssumption DEF Follows, MaxCategory
  <2>2. (c.saw_resource \/ r.category \in Resource) \in BOOLEAN
    OBVIOUS
  <2> QED BY <2>1, <2>2, <1>4 DEF ChainType, Extended, g, x
<1>7. Summarises(d, least)
  <2>1. d.seq = Len(g) /\ Len(g) # 0
    BY <1>2, <1>4, <1>5 DEF Follows
  <2>2. d.last_effective_at = g[Len(g)].effective_at /\ d.previous_category = g[Len(g)].category
    BY <1>3, <1>4, <1>5
  <2>3. d.saw_resource <=> \E i \in 1 .. Len(g) : g[i].category \in Resource
    <3>1. c.saw_resource <=> \E i \in 1 .. Len(h) : h[i].category \in Resource
      BY <1>1 DEF Summarises
    <3>2. (\E i \in 1 .. Len(g) : g[i].category \in Resource)
            <=> \/ \E i \in 1 .. Len(h) : h[i].category \in Resource
                \/ x.category \in Resource
      BY <1>2, <1>4, SMTT(20)
    <3> QED BY <3>1, <3>2, <1>3, <1>5
  <2> QED BY <2>1, <2>2, <2>3, <1>5 DEF Summarises
<1>8. LawfulHistory(d.head)
  <2>1. \A i \in 1 .. Len(h) : h[i].seq = i /\ h[i].category <= MaxCategory
    BY <1>1 DEF LawfulHistory
  <2>2. \A i, j \in 1 .. Len(h) : i < j => h[i].effective_at <= h[j].effective_at
    BY <1>1 DEF LawfulHistory
  <2>3. \A i \in 1 .. Len(g) : g[i].seq = i /\ g[i].category <= MaxCategory
    BY <2>1, <1>2, <1>3, <1>4 DEF Follows
  <2>4. \A i \in 1 .. Len(h) : h[i].effective_at \in Int
    <3>1. \A i \in 1 .. Len(h) : h[i] \in Leaf
      BY <1>2
    <3>2. \A y \in Leaf : y.effective_at \in Int
      BY AssetChainAssumption DEF Leaf
    <3> QED BY <3>1, <3>2
  <2>5. Len(h) > 0 => h[Len(h)].effective_at <= r.effective_at
    BY <1>1, <1>2 DEF Summarises, Follows
  <2>6. \A i \in 1 .. Len(h) : h[i].effective_at <= r.effective_at
    BY <2>2, <2>4, <2>5, <1>2, <1>3
  <2>7. \A i, j \in 1 .. Len(g) : i < j => g[i].effective_at <= g[j].effective_at
    BY <2>2, <2>6, <1>2, <1>3, <1>4, SMTT(20)
  <2> QED BY <2>3, <2>7, <1>5 DEF LawfulHistory
<1> QED BY <1>6, <1>7, <1>8 DEF Sound

\* The flags computed from a sound chain are those of the whole history.
LEMMA FlagsDeserved ==
  ASSUME NEW least, NEW c, Sound(c, least), NEW r, Follows(c, r)
  PROVE  /\ FlagsFor(c, r) = FlagsOf(Append(c.head, LeafOf(r)))
         /\ ComputeFlags(c, r) = FlagsFor(c, r)
<1> DEFINE h == c.head
           x == LeafOf(r)
           g == Append(h, x)
<1>1. c \in ChainType(least) /\ Summarises(c, least)
  BY DEF Sound
<1>2. /\ h \in Seq(Leaf) /\ x \in Leaf /\ Len(h) \in Nat
      /\ x.category = r.category /\ r.category \in Nat
  <2>1. h \in Seq(Leaf) /\ Len(h) \in Nat
    BY <1>1 DEF ChainType
  <2>2. x \in Leaf
    BY <1>1, LeafIsTyped
  <2>3. x.category = r.category /\ r.category \in Nat
    BY AssetChainAssumption DEF LeafOf, Follows
  <2> QED BY <2>1, <2>2, <2>3
<1> HIDE DEF x
<1>3. /\ Len(g) = Len(h) + 1 /\ g[Len(g)].category = r.category
      /\ \A i \in 1 .. Len(h) : g[i] = h[i]
  <2>1. Len(g) = Len(h) + 1 /\ g[Len(h) + 1] = x /\ \A i \in 1 .. Len(h) : g[i] = h[i]
    BY <1>2
  <2> QED BY <2>1, <1>2
<1> HIDE DEF g
<1>4. (\A i \in 1 .. Len(g) - 1 : g[i].category \notin Resource) <=> ~c.saw_resource
  <2>1. c.saw_resource <=> \E i \in 1 .. Len(h) : h[i].category \in Resource
    BY <1>1 DEF Summarises
  <2>2. Len(g) - 1 = Len(h)
    BY <1>2, <1>3
  <2> QED BY <2>1, <2>2, <1>3
<1>5. (Len(g) > 1 /\ g[Len(g)].category < g[Len(g) - 1].category)
        <=> (c.previous_category # None /\ r.category < c.previous_category)
  <2>1. CASE Len(h) = 0
    <3>1. c.previous_category = None /\ Len(g) = 1
      BY <2>1, <1>1, <1>3 DEF Summarises
    <3> QED BY <3>1
  <2>2. CASE Len(h) # 0
    <3>1. Len(g) > 1 /\ Len(g) - 1 = Len(h) /\ Len(h) \in 1 .. Len(h)
      BY <2>2, <1>2, <1>3
    <3>2. c.previous_category = h[Len(h)].category
      BY <2>2, <1>1 DEF Summarises
    <3>3. h[Len(h)].category \in Nat
      <4>1. h[Len(h)] \in Leaf
        BY <3>1, <1>2
      <4> QED BY <4>1, AssetChainAssumption DEF Leaf
    <3>4. g[Len(g) - 1].category = c.previous_category
      BY <3>1, <3>2, <1>3
    <3>5. c.previous_category # None
      BY <3>2, <3>3 DEF None
    <3> QED BY <3>1, <3>4, <3>5, <1>3
  <2> QED BY <2>1, <2>2
<1>6. FlagsFor(c, r) = FlagsOf(g)
  BY <1>3, <1>4, <1>5 DEF FlagsFor, FlagsOf
<1>7. r.category \in Reserve <=> r.category >= 3
  BY <1>2 DEF Follows, Reserve, MaxCategory
<1>8. ComputeFlags(c, r) = FlagsFor(c, r)
  BY <1>7 DEF ComputeFlags, FlagsFor
<1> QED BY <1>6, <1>8 DEF g, x

----------------------------------------------------------------------------
(* What the verdicts say. *)

\* Every record that may arrive is typed, but for its sequence number.
LEMMA ArrivingIsTyped ==
  ASSUME NEW c, NEW r \in Arriving(c)
  PROVE  /\ r.payload \in Payload /\ r.qp_key \in Key
         /\ r.category \in Category /\ r.effective_at \in Date
         /\ r.ext_commitment \in BOOLEAN /\ r.payload_uri \in BOOLEAN
         /\ r.signature \in Signature /\ r.expected_qp_key \in Expected
  BY DEF Arriving

\* A record that apply takes follows the chain, and apply leaves Extended.
LEMMA RustTakes ==
  ASSUME NEW c, Sound(c, MinI64), NEW r \in Arriving(c), ApplyVerdict(c, r) = "Ok"
  PROVE  Follows(c, r) /\ AfterApply(c, r) = Extended(c, r)
<1>1. c \in ChainType(MinI64)
  BY DEF Sound
<1>2. c.seq \in 0 .. MaxSeq /\ c.last_effective_at \in Int
  BY <1>1, AssetChainAssumption DEF ChainType
<1>3. /\ c.seq # MaxSeq /\ r.seq = c.seq + 1
      /\ ~(r.effective_at < c.last_effective_at)
      /\ ~(r.category > MaxCategory)
  BY DEF ApplyVerdict, FieldsVerdict
<1>4. r.effective_at \in Int /\ r.category \in Int
  <2>1. r.effective_at \in Date /\ r.category \in Category
    BY ArrivingIsTyped
  <2> QED BY <2>1, ConstantsAreNumbers
<1>5. Follows(c, r)
  BY <1>2, <1>3, <1>4, ArrivingIsTyped, AssetChainAssumption DEF Follows, MaxCategory
<1>6. AfterApply(c, r) = Extended(c, r)
  BY <1>3 DEF AfterApply, Extended
<1> QED BY <1>5, <1>6

\* A record that applyRecord takes follows the chain, and commit gives Extended:
\* null never hides a date once there is a record.
LEMMA TypeScriptTakes ==
  ASSUME NEW c, Sound(c, Null), NEW r \in Arriving(c), TsApplyVerdict(c, r) = "Ok"
  PROVE  Follows(c, r) /\ TsCommit(c, r, TsApplied(c, r)) = Extended(c, r)
<1>1. c \in ChainType(Null) /\ Summarises(c, Null)
  BY DEF Sound
<1>2. c.seq \in 0 .. MaxSeq /\ c.last_effective_at \in Int
  <2>1. c.seq \in 0 .. MaxSeq /\ c.last_effective_at \in Date \cup {Null}
    BY <1>1 DEF ChainType
  <2> QED BY <2>1, ConstantsAreNumbers
<1>3. /\ ~(c.seq >= MaxSeq) /\ r.seq = c.seq + 1
      /\ c.last_effective_at = Null \/ ~(r.effective_at < c.last_effective_at)
      /\ ~(r.category > MaxCategory)
  BY DEF TsApplyVerdict
<1>4. r.effective_at \in Int /\ r.category \in Int
  <2>1. r.effective_at \in Date /\ r.category \in Category
    BY ArrivingIsTyped
  <2> QED BY <2>1, ConstantsAreNumbers
<1>5. c.seq > 0 => c.last_effective_at # Null
  <2> SUFFICES ASSUME c.seq > 0 PROVE c.last_effective_at # Null
    OBVIOUS
  <2>1. Len(c.head) \in 1 .. Len(c.head) /\ c.head \in Seq(Leaf)
        /\ c.last_effective_at = c.head[Len(c.head)].effective_at
    BY <1>1, <1>2, AssetChainAssumption DEF Summarises, ChainType
  <2>2. c.head[Len(c.head)] \in Leaf
    BY <2>1
  <2>3. c.last_effective_at \in Date
    BY <2>1, <2>2 DEF Leaf
  <2> QED BY <2>3, AssetChainAssumption DEF Null
<1>6. Follows(c, r)
  BY <1>2, <1>3, <1>4, <1>5, ArrivingIsTyped, AssetChainAssumption DEF Follows, MaxCategory
<1>7. TsCommit(c, r, TsApplied(c, r)) = Extended(c, r)
  BY DEF TsCommit, TsApplied, Extended
<1> QED BY <1>6, <1>7

\* An answer whose flags the history deserves is a sound answer.
LEMMA OneAnswer ==
  ASSUME NEW least, NEW c, Sound(c, least), NEW r, Follows(c, r),
         NEW a, a.flags = FlagsFor(c, r), a.head = Append(c.head, LeafOf(r)), a.leaf = LeafOf(r),
         a = [leaf |-> a.leaf, head |-> a.head, flags |-> a.flags]
  PROVE  AnswersSound(<<a>>)
<1>1. LeafOf(r) \in Leaf
  BY LeafIsTyped DEF Sound
<1>2. Append(c.head, LeafOf(r)) \in Seq(Leaf)
  BY <1>1 DEF Sound, ChainType
<1>3. FlagsFor(c, r) \in SUBSET Flag
  BY DEF FlagsFor
<1>4. a \in AppliedType
  BY <1>1, <1>2, <1>3 DEF AppliedType
<1>5. a.flags = FlagsOf(a.head)
  BY FlagsDeserved
<1> DEFINE s == <<a>>
<1>6. s \in Seq(AppliedType) /\ Len(s) = 1 /\ s[1] = a
  BY <1>4
<1> HIDE DEF s
<1>7. AnswersSound(s)
  <2>1. DOMAIN s = 1 .. 1
    BY <1>6
  <2>2. \A i \in DOMAIN s : s[i].flags = FlagsOf(s[i].head)
    <3>1. \A i \in DOMAIN s : i = 1
      BY <2>1
    <3>2. s[1].flags = FlagsOf(s[1].head)
      BY <1>5, <1>6
    <3> QED BY <3>1, <3>2
  <2>3. Len(s) <= 1
    BY <1>6
  <2> QED BY <2>2, <2>3, <1>6 DEF AnswersSound
<1> QED BY <1>7 DEF s

----------------------------------------------------------------------------
(* Inv is inductive. *)

\* A chain of no record is sound, whatever date stands for none.
LEMMA EmptyIsSound ==
  ASSUME NEW least, NEW c,
         c = [head |-> Genesis, seq |-> 0, last_effective_at |-> least,
              saw_resource |-> FALSE, previous_category |-> None]
  PROVE  Sound(c, least)
<1>1. Genesis \in Seq(Leaf) /\ Len(Genesis) = 0
  BY DEF Genesis
<1>2. /\ c.head = Genesis /\ c.seq = 0 /\ c.last_effective_at = least
      /\ c.saw_resource = FALSE /\ c.previous_category = None
  OBVIOUS
<1>3. c \in ChainType(least)
  BY <1>1, AssetChainAssumption DEF ChainType
<1>4. Summarises(c, least)
  BY <1>1, <1>2 DEF Summarises
<1>5. LawfulHistory(c.head)
  BY <1>1, <1>2 DEF LawfulHistory
<1> QED BY <1>3, <1>4, <1>5 DEF Sound

\* A chain that returned nothing yet has no answer to be wrong.
LEMMA NoAnswer == AnswersSound(<< >>)
  BY DEF AnswersSound

\* snapshot and resume keep every field.
LEMMA KeepsEveryField ==
  ASSUME NEW least, NEW c, Sound(c, least)
  PROVE  Snapshot(c) = c /\ Resume(c) = c
<1>1. c \in ChainType(least)
  BY DEF Sound
<1> QED BY <1>1 DEF ChainType, Snapshot, Resume

\* The initial state satisfies the invariant.
LEMMA InitInv == Init => Inv
<1> SUFFICES ASSUME Init PROVE Inv
  OBVIOUS
<1>1. Sound(Start, MinI64)
  BY EmptyIsSound DEF Start
<1>2. Sound(TsStart, Null)
  BY EmptyIsSound DEF TsStart
<1>3. Snapshot(Start) = Start
  BY <1>1, KeepsEveryField
<1> QED BY <1>1, <1>2, <1>3, NoAnswer DEF Init, Inv

\* Every step preserves the invariant.
LEMMA NextInv == Inv /\ [Next]_vars => Inv'
<1> SUFFICES ASSUME Inv, [Next]_vars PROVE Inv'
  OBVIOUS
<1>0. /\ Sound(chain, MinI64) /\ Sound(stored, MinI64) /\ Sound(reader, Null)
      /\ AnswersSound(answer) /\ AnswersSound(verdict)
  BY DEF Inv
<1>1. CASE \E r \in Arriving(chain) : Apply(r)
  <2>1. PICK r \in Arriving(chain) : Apply(r)
    BY <1>1
  <2>2. /\ ApplyVerdict(chain, r) = "Ok" /\ chain' = AfterApply(chain, r)
        /\ answer' = <<Applied(chain, r)>>
        /\ stored' = stored /\ reader' = reader /\ verdict' = verdict
    BY <2>1 DEF Apply
  <2>3. Follows(chain, r) /\ chain' = Extended(chain, r)
    BY <2>2, <1>0, RustTakes
  <2>4. Sound(chain', MinI64)
    BY <2>3, <1>0, Extension
  <2>5. AnswersSound(answer')
    <3>1. AnswersSound(<<Applied(chain, r)>>)
      BY <2>3, <1>0, OneAnswer DEF Applied
    <3> QED BY <3>1, <2>2
  <2> QED BY <2>2, <2>4, <2>5, <1>0 DEF Inv
<1>2. CASE Store
  <2>1. stored' = chain
    BY <1>2, <1>0, KeepsEveryField DEF Store
  <2> QED BY <2>1, <1>2, <1>0 DEF Inv, Store
<1>3. CASE CrashResume
  <2>1. chain' = stored
    BY <1>3, <1>0, KeepsEveryField DEF CrashResume
  <2> QED BY <2>1, <1>3, <1>0, NoAnswer DEF Inv, CrashResume
<1>4. CASE \E r \in Arriving(reader) : Read(r)
  <2>1. PICK r \in Arriving(reader) : Read(r)
    BY <1>4
  <2>2. /\ TsApplyVerdict(reader, r) = "Ok"
        /\ reader' = TsCommit(reader, r, TsApplied(reader, r))
        /\ verdict' = <<TsApplied(reader, r)>>
        /\ stored' = stored /\ chain' = chain /\ answer' = answer
    BY <2>1 DEF Read
  <2>3. Follows(reader, r) /\ reader' = Extended(reader, r)
    BY <2>2, <1>0, TypeScriptTakes
  <2>4. Sound(reader', Null)
    BY <2>3, <1>0, Extension
  <2>5. AnswersSound(verdict')
    <3>1. ComputeFlags(reader, r) = FlagsFor(reader, r)
      BY <2>3, <1>0, FlagsDeserved
    <3>2. AnswersSound(<<TsApplied(reader, r)>>)
      BY <3>1, <2>3, <1>0, OneAnswer DEF TsApplied
    <3> QED BY <3>2, <2>2
  <2> QED BY <2>2, <2>4, <2>5, <1>0 DEF Inv
<1>5. CASE ReadAgain
  <2>1. Sound(TsStart, Null)
    BY EmptyIsSound DEF TsStart
  <2> QED BY <2>1, <1>5, <1>0, NoAnswer DEF Inv, ReadAgain
<1>6. CASE UNCHANGED vars
  BY <1>6, <1>0 DEF Inv, vars
<1> QED BY <1>1, <1>2, <1>3, <1>4, <1>5, <1>6 DEF Next

\* Inv holds in every reachable state.
LEMMA SpecInv == Spec => []Inv
  BY InitInv, NextInv, PTL DEF Spec

----------------------------------------------------------------------------
(* The theorems. *)

\* Type correctness of the chain, the snapshot, the reader and their answers
\* (AssetChain, ChainSnapshot, Applied of state.rs; ChainState of chain.ts).
THEOREM TypeCorrect == Spec => []TypeOK
<1>1. Inv => TypeOK
  BY DEF Inv, Sound, AnswersSound, TypeOK
<1> QED BY <1>1, SpecInv, PTL

\* What apply and resume keep beside the head is what the history under it
\* says, through any number of crashes.
THEOREM HeadDecidesState == Spec => []StateFollowsHead
<1>1. Inv => StateFollowsHead
  BY DEF Inv, Sound, StateFollowsHead
<1> QED BY <1>1, SpecInv, PTL

\* No head ever commits to a gap, to a date that goes back or to a category
\* schema 1 does not know.
THEOREM HistoryIsLawful == Spec => []HeadsAreLawful
<1>1. Inv => HeadsAreLawful
  BY DEF Inv, Sound, HeadsAreLawful
<1> QED BY <1>1, SpecInv, PTL

\* flags_for and computeFlags give the flags of the whole history.
THEOREM FlagsAreDeserved == Spec => []FlagsFollowHistory
<1>1. Inv => FlagsFollowHistory
  BY DEF Inv, AnswersSound, FlagsFollowHistory, Answers
<1> QED BY <1>1, SpecInv, PTL

\* Two sound chains of the two engines at one head differ at most in what
\* stands for the date before any record.
LEMMA SameHeadSameState ==
  ASSUME NEW c, Sound(c, MinI64), NEW d, Sound(d, Null), c.head = d.head
  PROVE  /\ c.seq = d.seq
         /\ c.saw_resource = d.saw_resource
         /\ c.previous_category = d.previous_category
         /\ d.last_effective_at # Null => c.last_effective_at = d.last_effective_at
         /\ d.last_effective_at = Null => c.last_effective_at = MinI64
<1>1. c \in ChainType(MinI64) /\ d \in ChainType(Null)
      /\ Summarises(c, MinI64) /\ Summarises(d, Null)
  BY DEF Sound
<1>2. c.seq = d.seq /\ c.previous_category = d.previous_category
  BY <1>1 DEF Summarises
<1>3. c.saw_resource = d.saw_resource
  <2>1. c.saw_resource \in BOOLEAN /\ d.saw_resource \in BOOLEAN
    BY <1>1 DEF ChainType
  <2>2. c.saw_resource <=> d.saw_resource
    BY <1>1 DEF Summarises
  <2> QED BY <2>1, <2>2
<1>4. CASE Len(c.head) = 0
  BY <1>4, <1>1, <1>2, <1>3 DEF Summarises
<1>5. CASE Len(c.head) # 0
  <2>1. c.head \in Seq(Leaf) /\ Len(c.head) \in 1 .. Len(c.head)
    BY <1>5, <1>1 DEF ChainType
  <2>2. c.head[Len(c.head)] \in Leaf
    BY <2>1
  <2>3. d.last_effective_at = c.last_effective_at
        /\ d.last_effective_at = c.head[Len(c.head)].effective_at
    BY <1>5, <1>1 DEF Summarises
  <2>4. d.last_effective_at \in Date
    BY <2>2, <2>3 DEF Leaf
  <2>5. d.last_effective_at # Null
    BY <2>4, ConstantsAreNumbers
  <2> QED BY <2>3, <2>5, <1>2, <1>3
<1> QED BY <1>4, <1>5

\* The verdicts of the two engines are one, or part over the signature.
Alike(r) ==
  \/ ApplyVerdict(chain, r) = TsApplyVerdict(reader, r)
  \/ /\ ApplyVerdict(chain, r) = "AttestationInvalid"
     /\ ~VerifyStrict(r.qp_key, r.signature) /\ Ed25519Verify(r.qp_key, r.signature)
  \/ /\ TsApplyVerdict(reader, r) = "AttestationInvalid"
     /\ VerifyStrict(r.qp_key, r.signature) /\ ~Ed25519Verify(r.qp_key, r.signature)

\* The Rust and the TypeScript engine at one head give every record the same
\* code, or the same leaf, head and flags, unless their libraries differ on its
\* signature; then the engine whose library refuses it answers
\* AttestationInvalid.
THEOREM EnginesAnswerAlike == Spec => []EnginesAgree
<1>1. Inv => EnginesAgree
  <2> SUFFICES ASSUME Inv, chain.head = reader.head, NEW r \in Arriving(chain)
               PROVE  /\ Alike(r)
                      /\ ApplyVerdict(chain, r) = "Ok" /\ TsApplyVerdict(reader, r) = "Ok" =>
                           TsApplied(reader, r) = Applied(chain, r)
    BY DEF EnginesAgree, Alike
  <2>1. Sound(chain, MinI64) /\ Sound(reader, Null)
    BY DEF Inv
  <2>2. /\ chain.seq = reader.seq
        /\ chain.saw_resource = reader.saw_resource
        /\ chain.previous_category = reader.previous_category
        /\ reader.last_effective_at # Null =>
             chain.last_effective_at = reader.last_effective_at
        /\ reader.last_effective_at = Null => chain.last_effective_at = MinI64
    BY <2>1, SameHeadSameState
  <2>3. chain.seq \in 0 .. MaxSeq /\ MaxSeq \in Nat
    BY <2>1, AssetChainAssumption DEF Sound, ChainType
  <2>4. r.effective_at \in Int /\ MinI64 <= r.effective_at
    BY ArrivingIsTyped, ConstantsAreNumbers
  <2>5. (chain.seq = MaxSeq) <=> (reader.seq >= MaxSeq)
    BY <2>2, <2>3
  <2>6. (r.effective_at < chain.last_effective_at)
          <=> (reader.last_effective_at # Null /\ r.effective_at < reader.last_effective_at)
    BY <2>2, <2>4, ConstantsAreNumbers
  <2>7. Alike(r)
    BY <2>2, <2>5, <2>6
    DEF Alike, TsApplyVerdict, ApplyVerdict, AttestationVerdict, FieldsVerdict
  <2>8. ASSUME ApplyVerdict(chain, r) = "Ok"
        PROVE  TsApplied(reader, r) = Applied(chain, r)
    <3>1. Follows(chain, r)
      BY <2>1, <2>8, RustTakes
    <3>2. ComputeFlags(chain, r) = FlagsFor(chain, r)
      BY <3>1, <2>1, FlagsDeserved
    <3>3. ComputeFlags(reader, r) = ComputeFlags(chain, r)
      BY <2>2 DEF ComputeFlags
    <3> QED BY <3>2, <3>3 DEF TsApplied, Applied
  <2> QED BY <2>7, <2>8
<1> QED BY <1>1, SpecInv, PTL

\* A chain below u64::MAX takes some record, and what was stored resumes.
THEOREM NeverStuck == Spec => []AlwaysContinues
<1>1. Inv => AlwaysContinues
  <2> SUFFICES ASSUME Inv PROVE AlwaysContinues
    OBVIOUS
  <2>1. chain \in ChainType(MinI64) /\ stored \in ChainType(MinI64)
    BY DEF Inv, Sound
  <2>2. ResumeVerdict(stored) = "Ok"
    <3>1. stored.previous_category \in {None} \cup 0 .. MaxCategory
      BY <2>1 DEF ChainType
    <3> QED BY <3>1 DEF ResumeVerdict, None, MaxCategory
  <2>3. ASSUME chain.seq < MaxSeq
        PROVE  \E r \in Arriving(chain) : ApplyVerdict(chain, r) = "Ok"
    <3>1. PICK k \in Key : TRUE
      BY AssetChainAssumption
    <3>2. PICK p \in Payload : TRUE
      BY AssetChainAssumption
    <3>3. PICK g \in Category : g <= MaxCategory
      BY AssetChainAssumption DEF MaxCategory
    <3>4. PICK d \in Date : ~(d < chain.last_effective_at)
      <4>1. chain.last_effective_at \in Date \cup {MinI64}
        BY <2>1 DEF ChainType
      <4>2. PICK any \in Date : TRUE
        BY AssetChainAssumption
      <4>3. CASE chain.last_effective_at = MinI64
        BY <4>2, <4>3, ConstantsAreNumbers
      <4>4. CASE chain.last_effective_at \in Date
        BY <4>4, ConstantsAreNumbers
      <4> QED BY <4>1, <4>3, <4>4
    <3>5. chain.seq \in 0 .. MaxSeq /\ chain.seq # MaxSeq /\ MaxSeq \in Nat
      BY <2>1, <2>3, AssetChainAssumption DEF ChainType
    <3> DEFINE r == [prev_head |-> chain.head, seq |-> chain.seq + 1, payload |-> p,
                     qp_key |-> k, expected_qp_key |-> NoKey,
                     signature |-> [key |-> k, passes |-> Library],
                     category |-> g, effective_at |-> d,
                     payload_uri |-> TRUE, ext_commitment |-> FALSE]
    <3>6. [key |-> k, passes |-> Library] \in Signature
      BY <3>1 DEF Signature
    <3>7. r \in Arriving(chain)
      BY <3>1, <3>2, <3>3, <3>4, <3>5, <3>6, AssetChainAssumption DEF Arriving
    <3>8. /\ r.prev_head = chain.head /\ r.seq = chain.seq + 1 /\ r.qp_key = k
          /\ r.expected_qp_key = NoKey /\ r.signature = [key |-> k, passes |-> Library]
          /\ r.category = g /\ r.effective_at = d
          /\ r.payload_uri = TRUE /\ r.ext_commitment = FALSE
      OBVIOUS
    <3> HIDE DEF r
    <3>9. r.signature # NoSignature
      <4>1. [key |-> k, passes |-> Library] # [key |-> NoKey, passes |-> {}]
        BY <3>1, AssetChainAssumption
      <4> QED BY <4>1, <3>8 DEF NoSignature
    <3>10. AttestationVerdict(r) = "Ok"
      BY <3>8, <3>9 DEF AttestationVerdict, VerifyStrict, Library
    <3>11. FieldsVerdict(r) = "Ok"
      <4>1. ~(g > MaxCategory)
        BY <3>3, ConstantsAreNumbers DEF MaxCategory
      <4> QED BY <4>1, <3>8 DEF FieldsVerdict
    <3>12. ApplyVerdict(chain, r) = "Ok"
      BY <3>4, <3>5, <3>8, <3>10, <3>11 DEF ApplyVerdict
    <3> QED BY <3>7, <3>12
  <2> QED BY <2>2, <2>3 DEF AlwaysContinues
<1> QED BY <1>1, SpecInv, PTL
=============================================================================
