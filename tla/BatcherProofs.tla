--------------------------- MODULE BatcherProofs ---------------------------
(***************************************************************************)
(* What holds of the batcher for every capacity, merge delay, counter      *)
(* width and set of leaves.                                                *)
(*                                                                         *)
(* The promise of submit is kept through three facts that no operation     *)
(* states by itself: the queue holds consecutive identifiers behind a full *)
(* epoch (WellFormed), every live promise has its submission at the place  *)
(* whose epoch it names (Placed), and memory is never more than one        *)
(* uncommitted operation away from disk (FollowsDisk).                     *)
(***************************************************************************)
EXTENDS Batcher, SequenceTheorems, TLAPS

----------------------------------------------------------------------------
(* Arithmetic of the queue: Capacity submissions to an epoch. *)

\* The number of whole epochs a queue fills is a natural number.
LEMMA DivIsNat ==
  ASSUME NEW n \in Nat, NEW c \in Nat \ {0}
  PROVE  n \div c \in Nat
  OBVIOUS

\* Nothing below one epoch's worth of submissions fills an epoch.
LEMMA DivBelow ==
  ASSUME NEW n \in Nat, NEW c \in Nat \ {0}, n < c
  PROVE  n \div c = 0
  OBVIOUS

\* One epoch's worth more is one epoch more.
LEMMA DivShift ==
  ASSUME NEW n \in Nat, NEW c \in Nat \ {0}
  PROVE  (n + c) \div c = n \div c + 1
  OBVIOUS

\* A longer queue does not reach an earlier epoch.
LEMMA DivMonotone ==
  ASSUME NEW n \in Nat, NEW m \in Nat, NEW c \in Nat \ {0}, n <= m
  PROVE  n \div c <= m \div c
  OBVIOUS

\* Fewer than k whole epochs is fewer than k epochs' worth.
LEMMA DivBound ==
  ASSUME NEW n \in Nat, NEW k \in Nat, NEW c \in Nat \ {0}
  PROVE  n \div c < k <=> n < c * k
  OBVIOUS

----------------------------------------------------------------------------
(* Snapshots. *)

\* What every snapshot a batcher takes of itself satisfies: the queue stands
\* behind a full epoch, and identifiers run without a hole to the counter.
WellFormed(s) ==
  /\ s \in BatcherSnapshot
  /\ Len(s.pending) <= Capacity
  /\ Len(s.overflow) <= Capacity * MaxMergeDelay
  /\ Len(s.overflow) # 0 => Len(s.pending) = Capacity
  /\ Live(s) <= s.next_submission
  /\ \A i \in 1 .. Len(s.pending) : s.pending[i].id = s.next_submission - Live(s) + i - 1
  /\ \A i \in 1 .. Len(s.overflow) :
       s.overflow[i].id = s.next_submission - Len(s.overflow) + i - 1

\* Lengths and elements of a snapshot's two sequences.
LEMMA SnapshotTypes ==
  ASSUME NEW s \in BatcherSnapshot
  PROVE  /\ s.epoch \in Nat /\ s.epoch <= MaxU64
         /\ s.next_submission \in Nat /\ s.next_submission <= MaxU64
         /\ s.pending \in Seq(Entry) /\ Len(s.pending) \in Nat
         /\ s.overflow \in Seq(Entry) /\ Len(s.overflow) \in Nat
         /\ Live(s) = Len(s.pending) + Len(s.overflow) /\ Live(s) \in Nat
         /\ \A i \in 1 .. Len(s.pending) : s.pending[i] \in Entry
         /\ \A i \in 1 .. Len(s.overflow) : s.overflow[i] \in Entry
<1>1. s.pending \in Seq(Entry) /\ s.overflow \in Seq(Entry)
  BY DEF BatcherSnapshot
<1> QED
  BY <1>1, BatcherAssumption, ElementOfSeq, LenProperties DEF BatcherSnapshot, U64, Live

\* start gives a well-formed snapshot.
LEMMA StartWellFormed == WellFormed(Start)
<1>1. <<>> \in Seq(Entry) /\ Len(<<>>) = 0
  BY EmptySeq
<1>2. Start \in BatcherSnapshot
  BY <1>1, BatcherAssumption DEF Start, BatcherSnapshot, U64
<1>3. 0 <= Capacity * MaxMergeDelay /\ 0 <= Capacity
  BY BatcherAssumption
<1> QED
  BY <1>1, <1>2, <1>3 DEF WellFormed, Start, Live

\* resume accepts every well-formed snapshot.
LEMMA WellFormedResumes == ASSUME NEW s, WellFormed(s) PROVE ResumeAccepts(s)
<1> DEFINE P == Len(s.pending)
           O == Len(s.overflow)
           N == s.next_submission
<1>1. P \in Nat /\ O \in Nat /\ N \in Nat /\ Live(s) = P + O
  BY SnapshotTypes DEF WellFormed
<1>2. /\ Live(s) <= N
      /\ \A i \in 1 .. P : s.pending[i].id = N - Live(s) + i - 1
      /\ \A i \in 1 .. O : s.overflow[i].id = N - O + i - 1
  BY DEF WellFormed
<1>3. \A j : At(s, j) = IF j <= P THEN s.pending[j] ELSE s.overflow[j - P]
  BY DEF At
<1> HIDE DEF P, O, N
<1>4. \A j \in 1 .. Live(s) : At(s, j).id = N - Live(s) + j - 1
  <2> SUFFICES ASSUME NEW j \in 1 .. Live(s) PROVE At(s, j).id = N - Live(s) + j - 1
    OBVIOUS
  <2>1. CASE j <= P
    BY <1>1, <1>2, <1>3, <2>1
  <2>2. CASE ~(j <= P)
    <3>1. j - P \in 1 .. O
      BY <1>1, <2>2
    <3> QED  BY <1>1, <1>2, <1>3, <2>2, <3>1
  <2> QED  BY <2>1, <2>2
<1>5. ASSUME Live(s) # 0
      PROVE  /\ N >= 1
             /\ At(s, Live(s)).id = N - 1
             /\ At(s, Live(s)).id - At(s, 1).id + 1 = Live(s)
             /\ \A j \in 1 .. Live(s) - 1 : At(s, j + 1).id - At(s, j).id = 1
  <2>1. N >= 1 /\ 1 \in 1 .. Live(s) /\ Live(s) \in 1 .. Live(s) /\ Live(s) \in Nat
    BY <1>1, <1>2, <1>5
  <2>2. At(s, Live(s)).id = N - 1 /\ At(s, 1).id = N - Live(s)
    BY <1>1, <1>4, <2>1
  <2>3. ASSUME NEW j \in 1 .. Live(s) - 1
        PROVE  At(s, j + 1).id - At(s, j).id = 1
    <3>1. j \in 1 .. Live(s) /\ j + 1 \in 1 .. Live(s)
      BY <2>1
    <3> QED  BY <1>1, <1>4, <3>1
  <2> QED  BY <1>1, <2>1, <2>2, <2>3
<1> QED
  BY <1>5 DEF ResumeAccepts, WellFormed, P, O, N

\* seal never refuses to build a well-formed epoch.
LEMMA WellFormedBuilds == ASSUME NEW s, WellFormed(s) PROVE BuildVerdict(s) = "Ok"
<1> DEFINE P == Len(s.pending)
           first == s.next_submission - Live(s)
<1>1. P \in Nat /\ first \in Int
  <2>1. s \in BatcherSnapshot
    BY DEF WellFormed
  <2>2. Live(s) \in Nat /\ s.next_submission \in Nat /\ P \in Nat
    BY <2>1, SnapshotTypes
  <2> QED  BY <2>2
<1>2. P <= Capacity /\ \A i \in 1 .. P : s.pending[i].id = first + i - 1
  BY DEF WellFormed
<1>3. BuildVerdict(s) = IF P > Capacity THEN "EpochCapacityExceeded"
                        ELSE IF \E i, j \in 1 .. P : i # j /\ s.pending[i].id = s.pending[j].id
                          THEN "MalformedPayload"
                        ELSE "Ok"
  BY DEF BuildVerdict
<1> HIDE DEF P, first
<1>4. \A i, j \in 1 .. P : i # j => s.pending[i].id # s.pending[j].id
  BY <1>1, <1>2
<1> QED
  BY <1>1, <1>2, <1>3, <1>4, BatcherAssumption

----------------------------------------------------------------------------
(* What submit and seal do to a well-formed snapshot. *)

\* An accepted submission names an epoch inside the merge delay, and the
\* counter has room for it.
LEMMA AcceptedSubmission ==
  ASSUME NEW s, WellFormed(s), SubmitVerdict(s) = "Ok"
  PROVE  /\ EpochsAhead(s) \in 0 .. MaxMergeDelay
         /\ PromisedEpoch(s) = s.epoch + EpochsAhead(s)
         /\ PromisedEpoch(s) \in U64
         /\ s.next_submission + 1 \in U64
<1>1. s.epoch \in Nat /\ s.next_submission \in Nat /\ Len(s.overflow) \in Nat
  BY SnapshotTypes DEF WellFormed
<1>2. EpochsAhead(s) \in Nat
  <2>1. Len(s.overflow) \div Capacity \in Nat
    BY <1>1, DivIsNat, BatcherAssumption
  <2> QED  BY <2>1 DEF EpochsAhead
<1>3. ~(EpochsAhead(s) > MaxMergeDelay) /\ ~(PromisedEpoch(s) > MaxU64)
      /\ ~(s.next_submission + 1 > MaxU64)
  BY DEF SubmitVerdict, PromisedEpochVerdict
<1> QED
  BY <1>1, <1>2, <1>3, BatcherAssumption DEF PromisedEpoch, U64

\* submit while the current epoch has room.
LEMMA SubmitWithRoom ==
  ASSUME NEW s, WellFormed(s), SubmitVerdict(s) = "Ok", NEW leaf \in Leaf,
         Len(s.pending) < Capacity, NEW t, t = AfterSubmit(s, leaf),
         NEW x, x = [id |-> s.next_submission, leaf |-> leaf]
  PROVE  /\ x \in Entry
         /\ t \in BatcherSnapshot
         /\ t.epoch = s.epoch /\ t.next_submission = s.next_submission + 1
         /\ t.overflow = s.overflow /\ Len(t.overflow) = 0
         /\ Len(t.pending) = Len(s.pending) + 1
         /\ \A i \in 1 .. Len(s.pending) : t.pending[i] = s.pending[i]
         /\ t.pending[Len(s.pending) + 1] = x
<1>1. s \in BatcherSnapshot /\ Len(s.pending) \in Nat /\ Len(s.overflow) \in Nat
      /\ s.pending \in Seq(Entry) /\ s.next_submission \in U64 /\ s.next_submission + 1 \in U64
  BY SnapshotTypes, AcceptedSubmission DEF WellFormed, BatcherSnapshot
<1>2. x \in Entry
  BY <1>1 DEF Entry
<1>3. t = [epoch |-> s.epoch, next_submission |-> s.next_submission + 1,
           pending |-> Append(s.pending, x), overflow |-> s.overflow]
  BY DEF AfterSubmit
<1>4. Len(s.overflow) = 0
  BY <1>1, BatcherAssumption DEF WellFormed
<1>5. /\ Append(s.pending, x) \in Seq(Entry)
      /\ Len(Append(s.pending, x)) = Len(s.pending) + 1
      /\ \A i \in 1 .. Len(s.pending) : Append(s.pending, x)[i] = s.pending[i]
      /\ Append(s.pending, x)[Len(s.pending) + 1] = x
  BY <1>1, <1>2, AppendProperties
<1>6. t \in BatcherSnapshot
  BY <1>1, <1>3, <1>5 DEF BatcherSnapshot
<1> QED
  BY <1>2, <1>3, <1>4, <1>5, <1>6

\* submit into the overflow queue.
LEMMA SubmitOverflowing ==
  ASSUME NEW s, WellFormed(s), SubmitVerdict(s) = "Ok", NEW leaf \in Leaf,
         ~(Len(s.pending) < Capacity), NEW t, t = AfterSubmit(s, leaf),
         NEW x, x = [id |-> s.next_submission, leaf |-> leaf]
  PROVE  /\ x \in Entry
         /\ t \in BatcherSnapshot
         /\ t.epoch = s.epoch /\ t.next_submission = s.next_submission + 1
         /\ t.pending = s.pending /\ Len(t.pending) = Capacity
         /\ Len(t.overflow) = Len(s.overflow) + 1
         /\ \A i \in 1 .. Len(s.overflow) : t.overflow[i] = s.overflow[i]
         /\ t.overflow[Len(s.overflow) + 1] = x
<1>1. s \in BatcherSnapshot /\ Len(s.pending) \in Nat /\ Len(s.overflow) \in Nat
      /\ s.overflow \in Seq(Entry) /\ s.next_submission \in U64 /\ s.next_submission + 1 \in U64
  BY SnapshotTypes, AcceptedSubmission DEF WellFormed, BatcherSnapshot
<1>2. x \in Entry
  BY <1>1 DEF Entry
<1>3. t = [epoch |-> s.epoch, next_submission |-> s.next_submission + 1,
           pending |-> s.pending, overflow |-> Append(s.overflow, x)]
  BY DEF AfterSubmit
<1>4. Len(s.pending) = Capacity
  BY <1>1, BatcherAssumption DEF WellFormed
<1>5. /\ Append(s.overflow, x) \in Seq(Entry)
      /\ Len(Append(s.overflow, x)) = Len(s.overflow) + 1
      /\ \A i \in 1 .. Len(s.overflow) : Append(s.overflow, x)[i] = s.overflow[i]
      /\ Append(s.overflow, x)[Len(s.overflow) + 1] = x
  BY <1>1, <1>2, AppendProperties
<1>6. t \in BatcherSnapshot
  BY <1>1, <1>3, <1>5 DEF BatcherSnapshot
<1> QED
  BY <1>2, <1>3, <1>4, <1>5, <1>6

\* seal moves the head of the queue into the new epoch.
LEMMA SealMoves ==
  ASSUME NEW s, WellFormed(s), SealVerdict(s, s.epoch) = "Ok", NEW t, t = AfterSeal(s)
  PROVE  /\ t \in BatcherSnapshot
         /\ t.epoch = s.epoch + 1 /\ t.next_submission = s.next_submission
         /\ Moving(s) \in Nat /\ Moving(s) <= Capacity /\ Moving(s) <= Len(s.overflow)
         /\ Moving(s) # Capacity => Moving(s) = Len(s.overflow)
         /\ Len(t.pending) = Moving(s)
         /\ Len(t.overflow) = Len(s.overflow) - Moving(s)
         /\ \A i \in 1 .. Moving(s) : t.pending[i] = s.overflow[i]
         /\ \A i \in 1 .. Len(s.overflow) - Moving(s) :
              t.overflow[i] = s.overflow[i + Moving(s)]
<1> DEFINE q == s.overflow
           m == Moving(s)
           n == Len(q)
<1>1. s \in BatcherSnapshot /\ n \in Nat /\ q \in Seq(Entry)
      /\ s.epoch \in Nat /\ s.next_submission \in U64
      /\ \A i \in 1 .. n : q[i] \in Entry
  BY SnapshotTypes DEF WellFormed, BatcherSnapshot
<1>2. m \in Nat /\ m <= Capacity /\ m <= n /\ (m # Capacity => m = n)
  BY <1>1, BatcherAssumption DEF Moving
<1>3. t = [epoch |-> s.epoch + 1, next_submission |-> s.next_submission,
           pending |-> SubSeq(q, 1, m), overflow |-> SubSeq(q, m + 1, n)]
  BY DEF AfterSeal
<1>4. s.epoch + 1 \in U64
  <2>1. ~(s.epoch + 1 > MaxU64)
    BY WellFormedBuilds DEF SealVerdict
  <2> QED  BY <1>1, <2>1, BatcherAssumption DEF U64
<1> HIDE DEF q, m, n
<1>5. /\ SubSeq(q, 1, m) \in Seq(Entry) /\ Len(SubSeq(q, 1, m)) = m
      /\ \A i \in 1 .. m : SubSeq(q, 1, m)[i] = q[i]
  <2>1. \A i \in 1 .. m : q[i] \in Entry
    BY <1>1, <1>2
  <2>2. /\ SubSeq(q, 1, m) \in Seq(Entry)
        /\ Len(SubSeq(q, 1, m)) = IF 1 <= m THEN m - 1 + 1 ELSE 0
        /\ \A i \in 1 .. m - 1 + 1 : SubSeq(q, 1, m)[i] = q[1 + i - 1]
    BY <1>2, <2>1, SubSeqProperties
  <2>3. \A i \in 1 .. m : 1 + i - 1 = i
    BY <1>2
  <2> QED  BY <1>2, <2>2, <2>3
<1>6. /\ SubSeq(q, m + 1, n) \in Seq(Entry) /\ Len(SubSeq(q, m + 1, n)) = n - m
      /\ \A i \in 1 .. n - m : SubSeq(q, m + 1, n)[i] = q[i + m]
  <2>1. \A i \in m + 1 .. n : q[i] \in Entry
    BY <1>1, <1>2
  <2>2. /\ SubSeq(q, m + 1, n) \in Seq(Entry)
        /\ Len(SubSeq(q, m + 1, n)) = IF m + 1 <= n THEN n - (m + 1) + 1 ELSE 0
        /\ \A i \in 1 .. n - (m + 1) + 1 : SubSeq(q, m + 1, n)[i] = q[(m + 1) + i - 1]
    BY <1>1, <1>2, <2>1, SubSeqProperties
  <2>3. \A i \in 1 .. n - m : (m + 1) + i - 1 = i + m
    BY <1>1, <1>2
  <2>4. n - (m + 1) + 1 = n - m
    BY <1>1, <1>2
  <2> QED  BY <1>1, <1>2, <2>2, <2>3, <2>4
<1>7. t \in BatcherSnapshot
  BY <1>1, <1>3, <1>4, <1>5, <1>6 DEF BatcherSnapshot
<1> QED
  BY <1>2, <1>3, <1>5, <1>6, <1>7 DEF q, m, n

\* An accepted submission leaves a well-formed snapshot: the identifier it
\* takes continues the run, and the queue stays within the merge delay.
LEMMA SubmitWellFormed ==
  ASSUME NEW s, WellFormed(s), SubmitVerdict(s) = "Ok", NEW leaf \in Leaf
  PROVE  WellFormed(AfterSubmit(s, leaf))
<1> DEFINE t == AfterSubmit(s, leaf)
           x == [id |-> s.next_submission, leaf |-> leaf]
           P == Len(s.pending)
           O == Len(s.overflow)
           N == s.next_submission
<1>1. P \in Nat /\ O \in Nat /\ N \in Nat /\ Live(s) = P + O /\ Live(s) \in Nat
  BY SnapshotTypes DEF WellFormed
<1>2. /\ P <= Capacity /\ O <= Capacity * MaxMergeDelay /\ Live(s) <= N
      /\ O # 0 => P = Capacity
      /\ \A i \in 1 .. P : s.pending[i].id = N - Live(s) + i - 1
      /\ \A i \in 1 .. O : s.overflow[i].id = N - O + i - 1
  BY DEF WellFormed
<1>3. x.id = N
  OBVIOUS
<1>4. CASE P < Capacity
  <2>1. /\ t \in BatcherSnapshot /\ t.next_submission = N + 1
        /\ t.overflow = s.overflow /\ Len(t.overflow) = 0 /\ Len(t.pending) = P + 1
        /\ \A i \in 1 .. P : t.pending[i] = s.pending[i]
        /\ t.pending[P + 1] = x
    BY <1>4, SubmitWithRoom
  <2> HIDE DEF t, x, P, O, N
  <2>2. Live(t) = P + 1
    <3>1. Live(t) = Len(t.pending) + Len(t.overflow)
      BY <2>1, SnapshotTypes
    <3> QED  BY <1>1, <2>1, <3>1
  <2>3. O = 0
    BY <1>1, <1>2, <1>4, BatcherAssumption
  <2>4. \A i \in 1 .. P + 1 : t.pending[i].id = N + 1 - (P + 1) + i - 1
    <3> SUFFICES ASSUME NEW i \in 1 .. P + 1
                 PROVE  t.pending[i].id = N + 1 - (P + 1) + i - 1
      OBVIOUS
    <3>1. CASE i \in 1 .. P
      <4>1. t.pending[i] = s.pending[i] /\ s.pending[i].id = N - Live(s) + i - 1
        BY <3>1, <1>2, <2>1
      <4>2. N - Live(s) + i - 1 = N + 1 - (P + 1) + i - 1
        BY <1>1, <2>3
      <4> QED  BY <4>1, <4>2
    <3>2. CASE i = P + 1
      BY <3>2, <1>1, <1>3, <2>1
    <3> QED  BY <3>1, <3>2, <1>1
  <2>5. 0 <= Capacity * MaxMergeDelay
    BY BatcherAssumption
  <2>6. P + 1 <= Capacity /\ P + 1 <= N + 1
    BY <1>1, <1>2, <1>4, <2>3, BatcherAssumption
  <2>7. \A i \in 1 .. 0 : t.overflow[i].id = N + 1 - 0 + i - 1
    OBVIOUS
  <2>8. WellFormed(t)
    <3>1. /\ t \in BatcherSnapshot /\ Len(t.pending) = P + 1 /\ Len(t.overflow) = 0
          /\ t.next_submission = N + 1
      BY <2>1
    <3>2. \A i \in 1 .. Len(t.pending) : t.pending[i].id = t.next_submission - Live(t) + i - 1
      <4> SUFFICES ASSUME NEW i \in 1 .. P + 1
                   PROVE  t.pending[i].id = t.next_submission - Live(t) + i - 1
        BY <3>1
      <4>1. t.pending[i].id = N + 1 - (P + 1) + i - 1
        BY <2>4
      <4>2. t.next_submission - Live(t) = N + 1 - (P + 1)
        BY <1>1, <3>1, <2>2
      <4> QED  BY <4>1, <4>2
    <3>3. \A i \in 1 .. Len(t.overflow) :
             t.overflow[i].id = t.next_submission - Len(t.overflow) + i - 1
      BY <3>1, <2>7
    <3>4. /\ Len(t.pending) <= Capacity /\ Len(t.overflow) <= Capacity * MaxMergeDelay
          /\ Len(t.overflow) # 0 => Len(t.pending) = Capacity
          /\ Live(t) <= t.next_submission
      BY <3>1, <2>2, <2>5, <2>6
    <3> QED  BY <3>1, <3>2, <3>3, <3>4 DEF WellFormed
  <2> QED  BY <2>8 DEF t
<1>5. CASE ~(P < Capacity)
  <2>1. /\ t \in BatcherSnapshot /\ t.next_submission = N + 1
        /\ t.pending = s.pending /\ P = Capacity /\ Len(t.overflow) = O + 1
        /\ \A i \in 1 .. O : t.overflow[i] = s.overflow[i]
        /\ t.overflow[O + 1] = x
    BY <1>5, SubmitOverflowing
  <2>3. O + 1 <= Capacity * MaxMergeDelay
    <3>1. EpochsAhead(s) = O \div Capacity + 1
      BY <1>5 DEF EpochsAhead
    <3>2. EpochsAhead(s) \in 0 .. MaxMergeDelay
      BY AcceptedSubmission
    <3>3. O \div Capacity \in Nat
      BY <1>1, DivIsNat, BatcherAssumption
    <3>4. O \div Capacity < MaxMergeDelay
      <4> HIDE DEF O
      <4> QED  BY <3>1, <3>2, <3>3, BatcherAssumption
    <3>5. O < Capacity * MaxMergeDelay
      BY <1>1, <3>4, DivBound, BatcherAssumption
    <3> QED  BY <1>1, <3>5, BatcherAssumption
  <2>4. Len(t.pending) = P
    BY <2>1
  <2> HIDE DEF t, x, P, O, N
  <2>2. Live(t) = P + O + 1
    <3>1. Live(t) = Len(t.pending) + Len(t.overflow)
      BY <2>1, SnapshotTypes
    <3> QED  BY <1>1, <2>1, <2>4, <3>1
  <2>5. \A i \in 1 .. O + 1 : t.overflow[i].id = N + 1 - (O + 1) + i - 1
    <3> SUFFICES ASSUME NEW i \in 1 .. O + 1
                 PROVE  t.overflow[i].id = N + 1 - (O + 1) + i - 1
      OBVIOUS
    <3>1. CASE i \in 1 .. O
      <4>1. t.overflow[i] = s.overflow[i] /\ s.overflow[i].id = N - O + i - 1
        BY <3>1, <1>2, <2>1
      <4>2. N - O + i - 1 = N + 1 - (O + 1) + i - 1
        BY <1>1
      <4> QED  BY <4>1, <4>2
    <3>2. CASE i = O + 1
      BY <3>2, <1>1, <1>3, <2>1
    <3> QED  BY <3>1, <3>2, <1>1
  <2>6. \A i \in 1 .. P : t.pending[i].id = N + 1 - (P + O + 1) + i - 1
    BY <1>1, <1>2, <2>1
  <2>7. P + O + 1 <= N + 1
    BY <1>1, <1>2
  <2>8. P <= Capacity
    BY <1>2
  <2>9. WellFormed(t)
    <3>1. /\ t \in BatcherSnapshot /\ Len(t.pending) = P /\ Len(t.overflow) = O + 1
          /\ t.next_submission = N + 1 /\ P = Capacity
      BY <2>1, <2>4
    <3>2. \A i \in 1 .. Len(t.pending) : t.pending[i].id = t.next_submission - Live(t) + i - 1
      <4> SUFFICES ASSUME NEW i \in 1 .. P
                   PROVE  t.pending[i].id = t.next_submission - Live(t) + i - 1
        BY <3>1
      <4>1. t.pending[i].id = N + 1 - (P + O + 1) + i - 1
        BY <2>6
      <4>2. t.next_submission - Live(t) = N + 1 - (P + O + 1)
        BY <1>1, <3>1, <2>2
      <4> QED  BY <4>1, <4>2
    <3>3. \A i \in 1 .. Len(t.overflow) :
             t.overflow[i].id = t.next_submission - Len(t.overflow) + i - 1
      <4> SUFFICES ASSUME NEW i \in 1 .. O + 1
                   PROVE  t.overflow[i].id = t.next_submission - Len(t.overflow) + i - 1
        BY <3>1
      <4>1. t.overflow[i].id = N + 1 - (O + 1) + i - 1
        BY <2>5
      <4>2. t.next_submission - Len(t.overflow) = N + 1 - (O + 1)
        BY <1>1, <3>1
      <4> QED  BY <4>1, <4>2
    <3>4. /\ Len(t.pending) <= Capacity /\ Len(t.overflow) <= Capacity * MaxMergeDelay
          /\ Len(t.overflow) # 0 => Len(t.pending) = Capacity
          /\ Live(t) <= t.next_submission
      BY <3>1, <2>2, <2>3, <2>7, <2>8
    <3> QED  BY <3>1, <3>2, <3>3, <3>4 DEF WellFormed
  <2> QED  BY <2>9 DEF t
<1> QED
  BY <1>4, <1>5

\* seal leaves a well-formed snapshot.
LEMMA SealWellFormed ==
  ASSUME NEW s, WellFormed(s), SealVerdict(s, s.epoch) = "Ok"
  PROVE  WellFormed(AfterSeal(s))
<1> DEFINE t == AfterSeal(s)
           m == Moving(s)
           O == Len(s.overflow)
           N == s.next_submission
<1>1. O \in Nat /\ N \in Nat /\ Live(s) \in Nat /\ Live(s) = Len(s.pending) + O
      /\ Len(s.pending) \in Nat
  BY SnapshotTypes DEF WellFormed
<1>2. /\ O <= Capacity * MaxMergeDelay /\ Live(s) <= N
      /\ \A i \in 1 .. O : s.overflow[i].id = N - O + i - 1
  BY DEF WellFormed
<1>3. /\ t \in BatcherSnapshot
      /\ t.next_submission = N
      /\ m \in Nat /\ m <= Capacity /\ m <= O /\ (m # Capacity => m = O)
      /\ Len(t.pending) = m /\ Len(t.overflow) = O - m
      /\ \A i \in 1 .. m : t.pending[i] = s.overflow[i]
      /\ \A i \in 1 .. O - m : t.overflow[i] = s.overflow[i + m]
  BY SealMoves
<1> HIDE DEF t, m, O, N
<1>4. Live(t) = O
  <2>1. Live(t) = Len(t.pending) + Len(t.overflow)
    BY <1>3, SnapshotTypes
  <2> QED  BY <1>1, <1>3, <2>1
<1>5. O <= N
  BY <1>1, <1>2
<1>6. \A i \in 1 .. m : t.pending[i].id = N - O + i - 1
  <2> SUFFICES ASSUME NEW i \in 1 .. m PROVE t.pending[i].id = N - O + i - 1
    OBVIOUS
  <2>1. i \in 1 .. O
    BY <1>1, <1>3
  <2>2. t.pending[i] = s.overflow[i] /\ s.overflow[i].id = N - O + i - 1
    BY <1>2, <1>3, <2>1
  <2> QED  BY <2>2
<1>7. \A i \in 1 .. O - m : t.overflow[i].id = N - (O - m) + i - 1
  <2> SUFFICES ASSUME NEW i \in 1 .. O - m PROVE t.overflow[i].id = N - (O - m) + i - 1
    OBVIOUS
  <2>1. i + m \in 1 .. O
    BY <1>1, <1>3
  <2>2. t.overflow[i] = s.overflow[i + m] /\ s.overflow[i + m].id = N - O + (i + m) - 1
    BY <1>2, <1>3, <2>1
  <2>3. N - O + (i + m) - 1 = N - (O - m) + i - 1
    BY <1>1, <1>3
  <2> QED  BY <2>2, <2>3
<1>8. O - m <= Capacity * MaxMergeDelay
  <2>1. Capacity * MaxMergeDelay \in Nat
    BY BatcherAssumption
  <2> QED  BY <1>1, <1>2, <1>3, <2>1
<1>9. O - m # 0 => m = Capacity
  BY <1>1, <1>3
<1>10. WellFormed(t)
  BY <1>3, <1>4, <1>5, <1>6, <1>7, <1>8, <1>9 DEF WellFormed
<1> QED
  BY <1>10 DEF t

----------------------------------------------------------------------------
(* The inductive invariant. *)

\* Promise p is about queued submission x and names epoch e.
Keeps(p, x, e) == p.id = x.id /\ p.leaf = x.leaf /\ p.promised_epoch = e

\* The epoch the submission at place i of the overflow queue will land in.
QueueEpoch(s, i) == s.epoch + 1 + (i - 1) \div Capacity

\* Whatever waits was promised the epoch its place leads to.
EntriesPromised ==
  /\ \A i \in 1 .. Len(disk.pending) :
        \E p \in promises : Keeps(p, disk.pending[i], disk.epoch)
  /\ \A i \in 1 .. Len(disk.overflow) :
        \E p \in promises : Keeps(p, disk.overflow[i], QueueEpoch(disk, i))

\* Whatever was promised an epoch not yet sealed waits at a place leading there.
PromisesPlaced ==
  \A p \in promises :
     p.promised_epoch >= disk.epoch =>
        \/ \E i \in 1 .. Len(disk.pending) : Keeps(p, disk.pending[i], disk.epoch)
        \/ \E i \in 1 .. Len(disk.overflow) : Keeps(p, disk.overflow[i], QueueEpoch(disk, i))

\* No identifier handed out will be handed out again.
IdsSpent == \A p \in promises : p.id < disk.next_submission

LedgerTypes ==
  /\ promises \subseteq SignedPromise
  /\ sealed \subseteq [epoch : U64, id : U64, leaf : Leaf]

\* The part of the invariant only Commit disturbs.
Saved ==
  /\ WellFormed(disk)
  /\ LedgerTypes
  /\ EntriesPromised
  /\ PromisesPlaced
  /\ IdsSpent
  /\ SealedAsPromised
  /\ PromisesKept

\* Memory is the saved snapshot, or one accepted operation ahead of it with
\* the answer not handed out.
FollowsDisk ==
  \/ /\ reply = NoReply
     /\ batcher = disk
  \/ /\ \E code \in Refusals : reply = [kind |-> "refused", code |-> code]
     /\ batcher = disk
  \/ /\ SubmitVerdict(disk) = "Ok"
     /\ \E leaf \in Leaf :
          /\ reply = [kind |-> "promise", promise |-> PromiseFor(disk, leaf)]
          /\ batcher = AfterSubmit(disk, leaf)
  \/ /\ SealVerdict(disk, disk.epoch) = "Ok"
     /\ reply = [kind |-> "built", epoch |-> disk.epoch]
     /\ batcher = AfterSeal(disk)

Inv ==
  /\ running = TRUE
  /\ Saved
  /\ FollowsDisk
  /\ RefusesOnlyWhenFull

\* Where the places of the queue lead, before and after a seal.
LEMMA QueueEpochs ==
  ASSUME NEW s, s.epoch \in Nat, NEW i \in Nat \ {0}
  PROVE  /\ QueueEpoch(s, i) \in Nat /\ QueueEpoch(s, i) >= s.epoch + 1
         /\ i <= Capacity => QueueEpoch(s, i) = s.epoch + 1
         /\ \A t : t.epoch = s.epoch + 1 => QueueEpoch(s, i + Capacity) = QueueEpoch(t, i)
<1>1. i - 1 \in Nat /\ (i - 1) \div Capacity \in Nat
  BY DivIsNat, BatcherAssumption
<1>2. i <= Capacity => (i - 1) \div Capacity = 0
  BY DivBelow, BatcherAssumption
<1>3. (i + Capacity - 1) \div Capacity = (i - 1) \div Capacity + 1
  <2>1. i + Capacity - 1 = (i - 1) + Capacity
    BY BatcherAssumption
  <2> QED  BY <1>1, <2>1, DivShift, BatcherAssumption
<1> DEFINE k == (i - 1) \div Capacity
           k2 == (i + Capacity - 1) \div Capacity
<1>4. /\ \A t : QueueEpoch(t, i) = t.epoch + 1 + k
      /\ QueueEpoch(s, i + Capacity) = s.epoch + 1 + k2
  <2>1. \A t : QueueEpoch(t, i) = t.epoch + 1 + k
    BY Zenon DEF QueueEpoch
  <2>2. QueueEpoch(s, i + Capacity) = s.epoch + 1 + k2
    BY BatcherAssumption DEF QueueEpoch
  <2> QED  BY <2>1, <2>2
<1> HIDE DEF k, k2
<1>5. k \in Nat /\ (i <= Capacity => k = 0) /\ k2 = k + 1
  BY <1>1, <1>2, <1>3 DEF k, k2
<1>6. ASSUME NEW t, t.epoch = s.epoch + 1
      PROVE  QueueEpoch(s, i + Capacity) = QueueEpoch(t, i)
  <2>1. QueueEpoch(t, i) = (s.epoch + 1) + 1 + k
    BY <1>4, <1>6
  <2>2. QueueEpoch(s, i + Capacity) = s.epoch + 1 + (k + 1)
    BY <1>4, <1>5
  <2> QED  BY <1>5, <2>1, <2>2
<1>7. QueueEpoch(s, i) \in Nat /\ QueueEpoch(s, i) >= s.epoch + 1
  BY <1>4, <1>5
<1>8. i <= Capacity => QueueEpoch(s, i) = s.epoch + 1
  BY <1>4, <1>5
<1> QED
  BY <1>6, <1>7, <1>8

\* The first promises and the first snapshot.
LEMMA InitInv == Init => Inv
<1> SUFFICES ASSUME Init PROVE Inv
  OBVIOUS
<1>1. WellFormed(disk)
  BY StartWellFormed DEF Init
<1>2. Len(disk.pending) = 0 /\ Len(disk.overflow) = 0
  BY DEF Init, Start
<1>3. Saved
  BY <1>1, <1>2 DEF Init, Saved, LedgerTypes, EntriesPromised, PromisesPlaced, IdsSpent,
                    SealedAsPromised, PromisesKept
<1> QED
  BY <1>3 DEF Init, Inv, FollowsDisk, RefusesOnlyWhenFull, NoReply

----------------------------------------------------------------------------
(* Committing a promise. *)

\* What the new promise says, and how it stands to the earlier ones.
LEMMA NewPromise ==
  ASSUME Saved, SubmitVerdict(disk) = "Ok", NEW leaf \in Leaf,
         NEW n, n = PromiseFor(disk, leaf)
  PROVE  /\ n \in SignedPromise
         /\ n.id = disk.next_submission /\ n.leaf = leaf
         /\ n.accepted_epoch = disk.epoch
         /\ n.promised_epoch = PromisedEpoch(disk)
         /\ n.promised_epoch >= disk.epoch
         /\ \A p \in promises : p.id < n.id /\ p.id # n.id
<1>1. /\ disk.epoch \in Nat /\ disk.epoch \in U64 /\ disk.next_submission \in U64
  BY SnapshotTypes DEF Saved, WellFormed, BatcherSnapshot
<1>2. /\ EpochsAhead(disk) \in Nat /\ PromisedEpoch(disk) = disk.epoch + EpochsAhead(disk)
      /\ PromisedEpoch(disk) \in U64
  BY AcceptedSubmission DEF Saved
<1>3. n = [leaf |-> leaf, id |-> disk.next_submission, accepted_epoch |-> disk.epoch,
           promised_epoch |-> PromisedEpoch(disk)]
  BY DEF PromiseFor
<1>4. n \in SignedPromise
  BY <1>1, <1>2, <1>3 DEF SignedPromise
<1>5. \A p \in promises : p.id \in Nat /\ p.id < disk.next_submission
  BY DEF Saved, LedgerTypes, SignedPromise, U64, IdsSpent
<1>6. \A p \in promises : p.id < n.id /\ p.id # n.id
  BY <1>1, <1>3, <1>5
<1> QED
  BY <1>1, <1>2, <1>3, <1>4, <1>6

\* Committing an accepted submission keeps what is saved: the new promise
\* names the epoch the submission's place leads to.
LEMMA CommitPromise ==
  ASSUME Saved, SubmitVerdict(disk) = "Ok", NEW leaf \in Leaf,
         disk' = AfterSubmit(disk, leaf),
         promises' = promises \cup {PromiseFor(disk, leaf)},
         sealed' = sealed
  PROVE  Saved'
<1> DEFINE n == PromiseFor(disk, leaf)
           x == [id |-> disk.next_submission, leaf |-> leaf]
           P == Len(disk.pending)
           O == Len(disk.overflow)
<1>1. /\ n \in SignedPromise /\ n.id = disk.next_submission /\ n.leaf = leaf
      /\ n.promised_epoch = PromisedEpoch(disk) /\ n.promised_epoch >= disk.epoch
      /\ \A p \in promises : p.id < n.id /\ p.id # n.id
  BY NewPromise
<1>2. promises' = promises \cup {n}
  OBVIOUS
<1>3. /\ disk.epoch \in Nat /\ disk.next_submission \in Nat /\ P \in Nat /\ O \in Nat
      /\ WellFormed(disk)
  BY SnapshotTypes DEF Saved, WellFormed
<1>4. x.id = disk.next_submission /\ x.leaf = leaf
  OBVIOUS
<1>5. WellFormed(disk')
  BY <1>3, SubmitWellFormed
<1>6. disk'.epoch = disk.epoch /\ disk'.next_submission = disk.next_submission + 1
  BY DEF AfterSubmit
<1>7. EntriesPromised' /\ PromisesPlaced'
  <2>1. CASE P < Capacity
    <3>1. /\ Len(disk'.overflow) = 0 /\ Len(disk'.pending) = P + 1
          /\ \A i \in 1 .. P : disk'.pending[i] = disk.pending[i]
          /\ disk'.pending[P + 1] = x
      BY <1>3, <2>1, SubmitWithRoom
    <3>2. O = 0
      BY <1>3, <2>1, BatcherAssumption DEF WellFormed
    <3>3. PromisedEpoch(disk) = disk.epoch
      BY <1>3, <2>1 DEF PromisedEpoch, EpochsAhead
    <3> HIDE DEF n, x, P
    <3>4. Keeps(n, disk'.pending[P + 1], disk'.epoch)
      BY <1>1, <1>4, <1>6, <3>1, <3>3 DEF Keeps
    <3>5. \A p, i : i \in 1 .. P => Keeps(p, disk.pending[i], disk.epoch) =
                                    Keeps(p, disk'.pending[i], disk'.epoch)
      BY <1>6, <3>1 DEF Keeps
    <3>6. \A i \in 1 .. P + 1 : i \in 1 .. P \/ i = P + 1
      BY <1>3
    <3>7. \A i \in 1 .. P : \E p \in promises : Keeps(p, disk.pending[i], disk.epoch)
      BY DEF Saved, EntriesPromised, P
    <3>8. ASSUME NEW p \in promises, p.promised_epoch >= disk.epoch
          PROVE  \E i \in 1 .. P : Keeps(p, disk.pending[i], disk.epoch)
      BY <3>2, <3>8 DEF Saved, PromisesPlaced, P
    <3>9. P + 1 \in 1 .. P + 1 /\ 1 .. P \subseteq 1 .. P + 1
      BY <1>3
    <3>10. EntriesPromised'
      <4>1. \A i \in 1 .. P + 1 : \E p \in promises' : Keeps(p, disk'.pending[i], disk'.epoch)
        BY <1>2, <3>4, <3>5, <3>6, <3>7
      <4> QED  BY <3>1, <4>1 DEF EntriesPromised
    <3>11. PromisesPlaced'
      <4> SUFFICES ASSUME NEW p \in promises', p.promised_epoch >= disk'.epoch
                   PROVE  \E i \in 1 .. Len(disk'.pending) :
                             Keeps(p, disk'.pending[i], disk'.epoch)
        BY DEF PromisesPlaced
      <4>1. CASE p \in promises
        BY <4>1, <1>6, <3>1, <3>5, <3>8, <3>9
      <4>2. CASE p = n
        BY <4>2, <3>1, <3>4, <3>9
      <4> QED  BY <1>2, <4>1, <4>2
    <3> QED  BY <3>10, <3>11
  <2>2. CASE ~(P < Capacity)
    <3>1. /\ disk'.pending = disk.pending /\ Len(disk'.overflow) = O + 1
          /\ \A i \in 1 .. O : disk'.overflow[i] = disk.overflow[i]
          /\ disk'.overflow[O + 1] = x
      BY <1>3, <2>2, SubmitOverflowing
    <3>2. PromisedEpoch(disk) = QueueEpoch(disk, O + 1)
      <4>1. PromisedEpoch(disk) = disk.epoch + (O \div Capacity + 1)
        <5>1. EpochsAhead(disk) = O \div Capacity + 1
          BY <2>2 DEF EpochsAhead
        <5> QED  BY <5>1 DEF PromisedEpoch
      <4>2. O + 1 - 1 = O /\ O \div Capacity \in Nat
        <5> HIDE DEF O, P
        <5> QED  BY <1>3, DivIsNat, BatcherAssumption
      <4>3. QueueEpoch(disk, O + 1) = disk.epoch + 1 + O \div Capacity
        BY <4>2 DEF QueueEpoch
      <4> QED  BY <1>3, <4>1, <4>2, <4>3
    <3>3. \A i : QueueEpoch(disk', i) = QueueEpoch(disk, i)
      BY <1>6 DEF QueueEpoch
    <3> HIDE DEF n, x, P, O
    <3>4. Keeps(n, disk'.overflow[O + 1], QueueEpoch(disk', O + 1))
      BY <1>1, <1>4, <3>1, <3>2, <3>3 DEF Keeps
    <3>5. \A p, i : i \in 1 .. O => Keeps(p, disk.overflow[i], QueueEpoch(disk, i)) =
                                    Keeps(p, disk'.overflow[i], QueueEpoch(disk', i))
      BY <3>1, <3>3 DEF Keeps
    <3>6. \A i \in 1 .. O + 1 : i \in 1 .. O \/ i = O + 1
      BY <1>3
    <3>7. O + 1 \in 1 .. O + 1 /\ 1 .. O \subseteq 1 .. O + 1
      BY <1>3
    <3>8. EntriesPromised'
      <4>1. \A i \in 1 .. O : \E p \in promises : Keeps(p, disk.overflow[i], QueueEpoch(disk, i))
        BY DEF Saved, EntriesPromised, O
      <4>2. \A i \in 1 .. Len(disk'.pending) : \E p \in promises' :
               Keeps(p, disk'.pending[i], disk'.epoch)
        BY <1>2, <1>6, <3>1 DEF Saved, EntriesPromised
      <4>3. \A i \in 1 .. O + 1 : \E p \in promises' :
               Keeps(p, disk'.overflow[i], QueueEpoch(disk', i))
        BY <1>2, <3>4, <3>5, <3>6, <4>1
      <4> QED  BY <3>1, <4>2, <4>3 DEF EntriesPromised
    <3>9. PromisesPlaced'
      <4> SUFFICES ASSUME NEW p \in promises', p.promised_epoch >= disk'.epoch
                   PROVE  \/ \E i \in 1 .. Len(disk'.pending) :
                                Keeps(p, disk'.pending[i], disk'.epoch)
                          \/ \E i \in 1 .. Len(disk'.overflow) :
                                Keeps(p, disk'.overflow[i], QueueEpoch(disk', i))
        BY DEF PromisesPlaced
      <4>1. CASE p \in promises
        <5>1. \/ \E i \in 1 .. Len(disk.pending) : Keeps(p, disk.pending[i], disk.epoch)
              \/ \E i \in 1 .. O : Keeps(p, disk.overflow[i], QueueEpoch(disk, i))
          BY <4>1, <1>6 DEF Saved, PromisesPlaced, O
        <5> QED  BY <5>1, <1>6, <3>1, <3>5, <3>7
      <4>2. CASE p = n
        BY <4>2, <3>1, <3>4, <3>7
      <4> QED  BY <1>2, <4>1, <4>2
    <3> QED  BY <3>8, <3>9
  <2> QED  BY <2>1, <2>2
<1> HIDE DEF n
<1>8. LedgerTypes' /\ IdsSpent'
  <2>1. LedgerTypes'
    BY <1>1, <1>2 DEF Saved, LedgerTypes
  <2>2. \A p \in promises : p.id \in Nat /\ p.id < disk.next_submission
    BY DEF Saved, LedgerTypes, SignedPromise, U64, IdsSpent
  <2> QED  BY <1>1, <1>2, <1>3, <1>6, <2>1, <2>2 DEF IdsSpent
<1>9. SealedAsPromised'
  BY <1>1, <1>2 DEF Saved, SealedAsPromised
<1>10. PromisesKept'
  <2>1. ~(n.promised_epoch < disk'.epoch)
    BY <1>1, <1>3, <1>6 DEF SignedPromise, U64
  <2> QED  BY <1>2, <1>6, <2>1 DEF Saved, PromisesKept
<1> QED
  BY <1>5, <1>7, <1>8, <1>9, <1>10 DEF Saved

----------------------------------------------------------------------------
(* Committing a sealed epoch. *)

\* Committing a seal keeps what is saved: the epoch's tree holds exactly the
\* submissions promised it, and every place moves one epoch forward.
LEMMA CommitBuilt ==
  ASSUME Saved, SealVerdict(disk, disk.epoch) = "Ok",
         disk' = AfterSeal(disk),
         promises' = promises,
         sealed' = sealed \cup Built(disk)
  PROVE  Saved'
<1> DEFINE P == Len(disk.pending)
           O == Len(disk.overflow)
           m == Moving(disk)
<1>1. /\ WellFormed(disk) /\ disk \in BatcherSnapshot
      /\ disk.epoch \in Nat /\ disk.epoch \in U64 /\ P \in Nat /\ O \in Nat
      /\ \A i \in 1 .. P : disk.pending[i] \in Entry
  BY SnapshotTypes DEF Saved, WellFormed, BatcherSnapshot
<1>2. /\ disk'.epoch = disk.epoch + 1 /\ disk'.next_submission = disk.next_submission
      /\ m \in Nat /\ m <= Capacity /\ m <= O /\ (m # Capacity => m = O)
      /\ Len(disk'.pending) = m /\ Len(disk'.overflow) = O - m
      /\ \A i \in 1 .. m : disk'.pending[i] = disk.overflow[i]
      /\ \A i \in 1 .. O - m : disk'.overflow[i] = disk.overflow[i + m]
  BY <1>1, SealMoves
<1>3. WellFormed(disk')
  BY <1>1, SealWellFormed
<1> HIDE DEF P, O, m
<1>4. \A i \in 1 .. O :
         QueueEpoch(disk, i) \in Nat /\ QueueEpoch(disk, i) >= disk.epoch + 1
  BY <1>1, QueueEpochs
<1>5. \A i \in 1 .. m : i \in 1 .. O /\ QueueEpoch(disk, i) = disk'.epoch
  <2> SUFFICES ASSUME NEW i \in 1 .. m
               PROVE  i \in 1 .. O /\ QueueEpoch(disk, i) = disk'.epoch
    OBVIOUS
  <2>1. i \in Nat \ {0} /\ i <= Capacity /\ i \in 1 .. O
    BY <1>1, <1>2, BatcherAssumption
  <2> QED  BY <1>1, <1>2, <2>1, QueueEpochs
<1>6. \A i \in 1 .. O - m :
         i + m \in 1 .. O /\ QueueEpoch(disk, i + m) = QueueEpoch(disk', i)
  <2> SUFFICES ASSUME NEW i \in 1 .. O - m
               PROVE  i + m \in 1 .. O /\ QueueEpoch(disk, i + m) = QueueEpoch(disk', i)
    OBVIOUS
  <2>1. i \in Nat \ {0} /\ m = Capacity /\ i + m \in 1 .. O
    BY <1>1, <1>2, BatcherAssumption
  <2> QED  BY <1>1, <1>2, <2>1, QueueEpochs
<1>7. EntriesPromised'
  <2>1. \A i \in 1 .. O : \E p \in promises : Keeps(p, disk.overflow[i], QueueEpoch(disk, i))
    BY DEF Saved, EntriesPromised, O
  <2>2. \A i \in 1 .. m : \E p \in promises' : Keeps(p, disk'.pending[i], disk'.epoch)
    BY <1>2, <1>5, <2>1
  <2>3. \A i \in 1 .. O - m :
           \E p \in promises' : Keeps(p, disk'.overflow[i], QueueEpoch(disk', i))
    BY <1>2, <1>6, <2>1
  <2> QED  BY <1>2, <2>2, <2>3 DEF EntriesPromised
<1>8. \A p \in promises : p.promised_epoch \in Nat /\ p.id \in U64 /\ p.leaf \in Leaf
  BY DEF Saved, LedgerTypes, SignedPromise, U64
<1>9. \A p \in promises : p.promised_epoch >= disk.epoch =>
         \/ \E i \in 1 .. P : Keeps(p, disk.pending[i], disk.epoch)
         \/ \E i \in 1 .. O : Keeps(p, disk.overflow[i], QueueEpoch(disk, i))
  BY DEF Saved, PromisesPlaced, P, O
<1>10. PromisesPlaced'
  <2> SUFFICES ASSUME NEW p \in promises, p.promised_epoch >= disk.epoch + 1
               PROVE  \/ \E i \in 1 .. m : Keeps(p, disk'.pending[i], disk'.epoch)
                      \/ \E i \in 1 .. O - m :
                            Keeps(p, disk'.overflow[i], QueueEpoch(disk', i))
    BY <1>2 DEF PromisesPlaced
  <2>1. p.promised_epoch >= disk.epoch /\ p.promised_epoch # disk.epoch
    BY <1>1, <1>8
  <2>2. PICK i \in 1 .. O : Keeps(p, disk.overflow[i], QueueEpoch(disk, i))
    BY <1>9, <2>1 DEF Keeps
  <2>3. CASE i <= m
    <3>1. i \in 1 .. m
      BY <1>2, <2>3
    <3> QED  BY <1>2, <1>5, <2>2, <3>1
  <2>4. CASE ~(i <= m)
    <3>1. i - m \in 1 .. O - m /\ (i - m) + m = i
      BY <1>1, <1>2, <2>4
    <3>2. /\ disk'.overflow[i - m] = disk.overflow[i]
          /\ QueueEpoch(disk', i - m) = QueueEpoch(disk, i)
      BY <1>2, <1>6, <3>1
    <3> QED  BY <2>2, <3>1, <3>2
  <2> QED  BY <2>3, <2>4
<1>11. LedgerTypes' /\ IdsSpent'
  <2>1. Built(disk) \subseteq [epoch : U64, id : U64, leaf : Leaf]
    BY <1>1 DEF Built, Entry, P
  <2> QED  BY <1>2, <2>1 DEF Saved, LedgerTypes, IdsSpent
<1>12. SealedAsPromised'
  <2>1. \A x \in Built(disk) : \E p \in promises :
           p.id = x.id /\ p.leaf = x.leaf /\ p.promised_epoch = x.epoch
    BY DEF Built, Saved, EntriesPromised, Keeps
  <2> QED  BY <2>1 DEF Saved, SealedAsPromised
<1>13. PromisesKept'
  <2> SUFFICES ASSUME NEW p \in promises, p.promised_epoch < disk.epoch + 1
               PROVE  [epoch |-> p.promised_epoch, id |-> p.id, leaf |-> p.leaf] \in sealed'
    BY <1>2 DEF PromisesKept
  <2>1. CASE p.promised_epoch < disk.epoch
    BY <2>1 DEF Saved, PromisesKept
  <2>2. CASE p.promised_epoch = disk.epoch
    <3>1. \A i \in 1 .. O : ~Keeps(p, disk.overflow[i], QueueEpoch(disk, i))
      BY <1>1, <1>4, <2>2 DEF Keeps
    <3>2. PICK i \in 1 .. P : Keeps(p, disk.pending[i], disk.epoch)
      BY <1>1, <1>9, <2>2, <3>1
    <3>3. [epoch |-> p.promised_epoch, id |-> p.id, leaf |-> p.leaf] \in Built(disk)
      BY <3>2 DEF Built, Keeps, P
    <3> QED  BY <3>3
  <2> QED  BY <1>1, <1>8, <2>1, <2>2
<1> QED
  BY <1>3, <1>7, <1>10, <1>11, <1>12, <1>13 DEF Saved

----------------------------------------------------------------------------
(* Every step. *)

\* Between operations, memory is the saved snapshot.
LEMMA IdleMemory == ASSUME Inv, Idle PROVE batcher = disk /\ WellFormed(batcher)
<1>1. reply.kind = "none"
  BY DEF Idle, NoReply
<1> QED
  BY <1>1 DEF Inv, FollowsDisk, Saved

\* submit is refused for want of room only by a batcher that is full.
LEMMA RefusedWhenFull ==
  ASSUME NEW s, WellFormed(s), SubmitVerdict(s) = "EpochCapacityExceeded"
  PROVE  Live(s) = Capacity * (1 + MaxMergeDelay)
<1> DEFINE P == Len(s.pending)
           O == Len(s.overflow)
<1>1. P \in Nat /\ O \in Nat /\ Live(s) = P + O /\ O <= Capacity * MaxMergeDelay
      /\ P <= Capacity
  BY SnapshotTypes DEF WellFormed
<1>2. EpochsAhead(s) > MaxMergeDelay
  BY DEF SubmitVerdict, PromisedEpochVerdict
<1>3. ~(P < Capacity) /\ EpochsAhead(s) = O \div Capacity + 1
  <2>1. EpochsAhead(s) = IF P < Capacity THEN 0 ELSE O \div Capacity + 1
    BY DEF EpochsAhead
  <2>2. ~(0 > MaxMergeDelay)
    BY BatcherAssumption
  <2> HIDE DEF P, O
  <2> QED  BY <1>2, <2>1, <2>2
<1> HIDE DEF P, O
<1>4. O \div Capacity \in Nat
  BY <1>1, DivIsNat, BatcherAssumption
<1>5. ~(O \div Capacity < MaxMergeDelay)
  BY <1>2, <1>3, <1>4, BatcherAssumption
<1>6. ~(O < Capacity * MaxMergeDelay)
  BY <1>1, <1>5, DivBound, BatcherAssumption
<1>7. P = Capacity /\ O = Capacity * MaxMergeDelay
  BY <1>1, <1>3, <1>6, BatcherAssumption
<1> QED
  BY <1>1, <1>7, BatcherAssumption

\* The answers submit and seal give are among the refusals of the code.
LEMMA Verdicts ==
  ASSUME NEW s, WellFormed(s), NEW e
  PROVE  /\ SubmitVerdict(s) \in {"Ok", "EpochCapacityExceeded", "ArithmeticOverflow"}
         /\ SealVerdict(s, e) \in {"Ok", "EpochOutOfOrder", "ArithmeticOverflow"}
<1>1. BuildVerdict(s) = "Ok"
  BY WellFormedBuilds
<1> QED
  BY <1>1 DEF SubmitVerdict, PromisedEpochVerdict, SealVerdict

\* A step that is not a Commit leaves what is saved alone.
LEMMA SavedKept ==
  ASSUME Saved, UNCHANGED <<disk, promises, sealed>>
  PROVE  Saved'
  BY DEF Saved, LedgerTypes, EntriesPromised, PromisesPlaced, IdsSpent, SealedAsPromised,
         PromisesKept

\* Every step keeps the invariant.
LEMMA NextInv == Inv /\ [Next]_vars => Inv'
<1> SUFFICES ASSUME Inv, [Next]_vars PROVE Inv'
  OBVIOUS
<1> USE DEF Inv
<1>1. ASSUME NEW leaf \in Leaf, Submit(leaf) PROVE Inv'
  <2>1. batcher = disk
    BY <1>1, IdleMemory DEF Submit
  <2>2. FollowsDisk'
    BY <1>1, <2>1 DEF Submit, FollowsDisk
  <2>3. RefusesOnlyWhenFull'
    BY <1>1 DEF Submit, RefusesOnlyWhenFull
  <2> QED  BY <1>1, <2>2, <2>3, SavedKept DEF Submit
<1>2. ASSUME RefuseSubmit PROVE Inv'
  <2>1. batcher = disk /\ WellFormed(batcher)
    BY <1>2, IdleMemory DEF RefuseSubmit
  <2>2. SubmitVerdict(batcher) \in {"EpochCapacityExceeded", "ArithmeticOverflow"}
    BY <1>2, <2>1, Verdicts DEF RefuseSubmit
  <2>3. FollowsDisk'
    BY <1>2, <2>1, <2>2 DEF RefuseSubmit, FollowsDisk, Refusals
  <2>4. RefusesOnlyWhenFull'
    <3>1. SubmitVerdict(batcher) = "EpochCapacityExceeded" =>
             Live(batcher) = Capacity * (1 + MaxMergeDelay)
      BY <2>1, RefusedWhenFull
    <3>2. reply'.code = SubmitVerdict(batcher) /\ batcher' = batcher
      BY <1>2 DEF RefuseSubmit
    <3> QED  BY <2>2, <3>1, <3>2 DEF RefusesOnlyWhenFull
  <2> QED  BY <1>2, <2>3, <2>4, SavedKept DEF RefuseSubmit
<1>3. ASSUME SignerFails PROVE Inv'
  <2>1. batcher = disk
    BY <1>3, IdleMemory DEF SignerFails
  <2>2. FollowsDisk'
    BY <1>3, <2>1 DEF SignerFails, FollowsDisk, Refusals
  <2>3. RefusesOnlyWhenFull'
    BY <1>3 DEF SignerFails, RefusesOnlyWhenFull
  <2> QED  BY <1>3, <2>2, <2>3, SavedKept DEF SignerFails
<1>4. ASSUME NEW e \in U64, Seal(e) PROVE Inv'
  <2>1. batcher = disk
    BY <1>4, IdleMemory DEF Seal
  <2>2. e = disk.epoch
    BY <1>4, <2>1 DEF Seal, SealVerdict
  <2>3. FollowsDisk'
    BY <1>4, <2>1, <2>2 DEF Seal, FollowsDisk
  <2>4. RefusesOnlyWhenFull'
    BY <1>4 DEF Seal, RefusesOnlyWhenFull
  <2> QED  BY <1>4, <2>3, <2>4, SavedKept DEF Seal
<1>5. ASSUME NEW e \in U64, RefuseSeal(e) PROVE Inv'
  <2>1. batcher = disk /\ WellFormed(batcher)
    BY <1>5, IdleMemory DEF RefuseSeal
  <2>2. SealVerdict(batcher, e) \in {"EpochOutOfOrder", "ArithmeticOverflow"}
    BY <1>5, <2>1, Verdicts DEF RefuseSeal
  <2>3. FollowsDisk'
    BY <1>5, <2>1, <2>2 DEF RefuseSeal, FollowsDisk, Refusals
  <2>4. RefusesOnlyWhenFull'
    BY <1>5, <2>2 DEF RefuseSeal, RefusesOnlyWhenFull
  <2> QED  BY <1>5, <2>3, <2>4, SavedKept DEF RefuseSeal
<1>6. ASSUME Commit PROVE Inv'
  <2>1. FollowsDisk' /\ RefusesOnlyWhenFull'
    BY <1>6 DEF Commit, FollowsDisk, RefusesOnlyWhenFull, NoReply
  <2>2. Saved'
    <3>1. ASSUME NEW code \in Refusals, reply = [kind |-> "refused", code |-> code],
                 batcher = disk
          PROVE  Saved'
      <4>1. UNCHANGED <<disk, promises, sealed>>
        BY <1>6, <3>1 DEF Commit
      <4> QED  BY <4>1, SavedKept
    <3>2. ASSUME SubmitVerdict(disk) = "Ok", NEW leaf \in Leaf,
                 reply = [kind |-> "promise", promise |-> PromiseFor(disk, leaf)],
                 batcher = AfterSubmit(disk, leaf)
          PROVE  Saved'
      <4>1. /\ disk' = AfterSubmit(disk, leaf)
            /\ promises' = promises \cup {PromiseFor(disk, leaf)}
            /\ sealed' = sealed
        BY <1>6, <3>2 DEF Commit
      <4> QED  BY <3>2, <4>1, CommitPromise
    <3>3. ASSUME SealVerdict(disk, disk.epoch) = "Ok",
                 reply = [kind |-> "built", epoch |-> disk.epoch],
                 batcher = AfterSeal(disk)
          PROVE  Saved'
      <4>1. /\ disk' = AfterSeal(disk) /\ promises' = promises
            /\ sealed' = sealed \cup Built(disk)
        BY <1>6, <3>3 DEF Commit
      <4> QED  BY <3>3, <4>1, CommitBuilt
    <3> QED  BY <1>6, <3>1, <3>2, <3>3 DEF Commit, FollowsDisk
  <2> QED  BY <1>6, <2>1, <2>2 DEF Commit
<1>7. ASSUME CrashRestart PROVE Inv'
  <2>1. running' = TRUE
    BY <1>7, WellFormedResumes DEF CrashRestart, Saved, ResumeAccepts
  <2>2. FollowsDisk' /\ RefusesOnlyWhenFull'
    BY <1>7 DEF CrashRestart, FollowsDisk, RefusesOnlyWhenFull, NoReply
  <2> QED  BY <1>7, <2>1, <2>2, SavedKept DEF CrashRestart
<1>8. CASE UNCHANGED vars
  BY <1>8, SavedKept DEF vars, FollowsDisk, RefusesOnlyWhenFull
<1> QED
  BY <1>1, <1>2, <1>3, <1>4, <1>5, <1>6, <1>7, <1>8 DEF Next

\* The inductive invariant holds throughout.
THEOREM Invariance == Spec => []Inv
  BY InitInv, NextInv, PTL DEF Spec

----------------------------------------------------------------------------
(* The safety properties. *)

\* Memory holds a well-formed snapshot too.
LEMMA MemoryWellFormed == ASSUME Inv PROVE WellFormed(batcher)
  BY SubmitWellFormed, SealWellFormed DEF Inv, Saved, FollowsDisk

\* No operation of the batcher builds a value outside its type; in
\* particular neither the epoch nor the counter leaves a u64.
THEOREM TypeCorrect == Spec => []TypeOK
<1>1. ASSUME Inv PROVE TypeOK
  <2>1. batcher \in BatcherSnapshot /\ disk \in BatcherSnapshot
    BY <1>1, MemoryWellFormed DEF Inv, Saved, WellFormed
  <2>2. reply \in Reply
    <3>1. ASSUME NEW leaf \in Leaf, SubmitVerdict(disk) = "Ok"
          PROVE  PromiseFor(disk, leaf) \in SignedPromise
      BY <1>1, <3>1, NewPromise DEF Inv
    <3>2. disk.epoch \in U64
      BY <2>1 DEF BatcherSnapshot
    <3> QED  BY <1>1, <3>1, <3>2 DEF Inv, FollowsDisk, Reply
  <2> QED  BY <1>1, <2>1, <2>2 DEF Inv, Saved, LedgerTypes, TypeOK
<1> QED  BY <1>1, Invariance, PTL

\* Once its epoch is sealed, every promise submit ever handed out is kept:
\* across overflow, refusals, signer failures, crashes and restarts.
THEOREM EveryPromiseIsKept == Spec => []PromisesKept
<1>1. Inv => PromisesKept
  BY DEF Inv, Saved
<1> QED  BY <1>1, Invariance, PTL

\* seal commits to nothing that was not promised for that epoch, and no
\* identifier is promised twice.
THEOREM NothingElseIsSealed == Spec => []SealedAsPromised
<1>1. Inv => SealedAsPromised
  BY DEF Inv, Saved
<1> QED  BY <1>1, Invariance, PTL

\* resume accepts every snapshot a batcher takes of itself.
THEOREM AlwaysResumes == Spec => []ResumesItsOwn
<1>1. Inv => ResumesItsOwn
  BY MemoryWellFormed, WellFormedResumes DEF Inv, ResumesItsOwn
<1> QED  BY <1>1, Invariance, PTL

\* submit turns a submission away for want of room only when every epoch
\* inside the merge delay is full, and seal never refuses its own leaves.
THEOREM RefusalsAreForced == Spec => []RefusesOnlyWhenFull
<1>1. Inv => RefusesOnlyWhenFull
  BY DEF Inv
<1> QED  BY <1>1, Invariance, PTL

----------------------------------------------------------------------------
(* Refinement. *)

\* Committing a promise is an Accept of the ledger: no promise handed out
\* before names a later epoch.
LEMMA PromiseIsAccept ==
  ASSUME Saved, SubmitVerdict(disk) = "Ok", NEW leaf \in Leaf,
         disk' = AfterSubmit(disk, leaf),
         promises' = promises \cup {PromiseFor(disk, leaf)},
         sealed' = sealed
  PROVE  Ledger!Next
<1> DEFINE e == PromisedEpoch(disk)
           id == disk.next_submission
           P == Len(disk.pending)
           O == Len(disk.overflow)
<1>1. /\ WellFormed(disk) /\ disk.epoch \in Nat /\ id \in U64 /\ P \in Nat /\ O \in Nat
  BY SnapshotTypes DEF Saved, WellFormed, BatcherSnapshot
<1>2. /\ EpochsAhead(disk) \in 0 .. MaxMergeDelay /\ e = disk.epoch + EpochsAhead(disk)
      /\ e \in U64
  BY <1>1, AcceptedSubmission
<1>3. e \in disk.epoch .. disk.epoch + MaxMergeDelay /\ e \in Nat /\ e >= disk.epoch
  <2> HIDE DEF e
  <2> QED  BY <1>1, <1>2, BatcherAssumption
<1>4. \A q \in promises : q.id < id /\ q.promised_epoch \in Nat
  BY DEF Saved, LedgerTypes, SignedPromise, U64, IdsSpent
<1>5. \A q \in promises : q.promised_epoch <= e
  <2> SUFFICES ASSUME NEW q \in promises PROVE q.promised_epoch <= e
    OBVIOUS
  <2>1. CASE q.promised_epoch < disk.epoch
    <3> HIDE DEF e
    <3> QED  BY <1>1, <1>3, <1>4, <2>1
  <2>2. CASE q.promised_epoch = disk.epoch
    <3> HIDE DEF e
    <3> QED  BY <1>1, <1>3, <2>2
  <2>3. CASE q.promised_epoch > disk.epoch
    <3>1. q.promised_epoch >= disk.epoch /\ q.promised_epoch # disk.epoch
      BY <1>1, <1>4, <2>3
    <3>2. PICK i \in 1 .. O : q.promised_epoch = QueueEpoch(disk, i)
      BY <3>1 DEF Saved, PromisesPlaced, Keeps
    <3>3. ~(P < Capacity)
      <4>1. O # 0
        BY <1>1, <3>2
      <4>2. P = Capacity
        BY <4>1 DEF Saved, WellFormed
      <4> QED  BY <4>2, BatcherAssumption
    <3>4. EpochsAhead(disk) = O \div Capacity + 1
      BY <3>3 DEF EpochsAhead
    <3> HIDE DEF e, O, P
    <3>5. /\ i - 1 \in Nat /\ i - 1 <= O
          /\ (i - 1) \div Capacity \in Nat /\ O \div Capacity \in Nat
      BY <1>1, DivIsNat, BatcherAssumption
    <3>6. (i - 1) \div Capacity <= O \div Capacity
      BY <1>1, <3>5, DivMonotone, BatcherAssumption
    <3>7. q.promised_epoch = disk.epoch + 1 + (i - 1) \div Capacity
      BY <3>2 DEF QueueEpoch
    <3> QED  BY <1>1, <1>2, <3>4, <3>5, <3>6, <3>7
  <2> QED  BY <1>1, <1>4, <2>1, <2>2, <2>3
<1>6. disk'.epoch = disk.epoch
  BY DEF AfterSubmit
<1>7. Ledger!Accept(leaf, id, e)
  BY <1>4, <1>5, <1>6 DEF Ledger!Accept, PromiseFor
<1> QED
  BY <1>1, <1>3, <1>7 DEF Ledger!Next

\* Committing a seal is a Seal of the ledger: the tree holds what was
\* promised the epoch, all of it and nothing more.
LEMMA BuiltIsSeal ==
  ASSUME Saved, SealVerdict(disk, disk.epoch) = "Ok",
         disk' = AfterSeal(disk),
         promises' = promises,
         sealed' = sealed \cup Built(disk)
  PROVE  Ledger!Next
<1> DEFINE due == {q \in promises : q.promised_epoch = disk.epoch}
           tree == {[epoch |-> disk.epoch, id |-> p.id, leaf |-> p.leaf] : p \in due}
<1>1. disk.epoch \in Nat /\ Len(disk.overflow) \in Nat
  BY SnapshotTypes DEF Saved, WellFormed
<1>2. \A i \in 1 .. Len(disk.overflow) : QueueEpoch(disk, i) # disk.epoch
  <2> SUFFICES ASSUME NEW i \in 1 .. Len(disk.overflow) PROVE QueueEpoch(disk, i) # disk.epoch
    OBVIOUS
  <2>1. i \in Nat \ {0}
    BY <1>1
  <2>2. QueueEpoch(disk, i) \in Nat /\ QueueEpoch(disk, i) >= disk.epoch + 1
    BY <1>1, <2>1, QueueEpochs
  <2> QED  BY <1>1, <2>2
<1>3. \A p \in due : \E i \in 1 .. Len(disk.pending) : Keeps(p, disk.pending[i], disk.epoch)
  <2> SUFFICES ASSUME NEW p \in due
               PROVE  \E i \in 1 .. Len(disk.pending) : Keeps(p, disk.pending[i], disk.epoch)
    OBVIOUS
  <2>1. p \in promises /\ p.promised_epoch = disk.epoch /\ p.promised_epoch >= disk.epoch
    BY <1>1
  <2> QED  BY <1>2, <2>1 DEF Saved, PromisesPlaced, Keeps
<1>4. \A i \in 1 .. Len(disk.pending) : \E p \in due : Keeps(p, disk.pending[i], disk.epoch)
  BY DEF Saved, EntriesPromised, Keeps
<1>5. Built(disk) = tree
  <2>1. ASSUME NEW p \in due
        PROVE  [epoch |-> disk.epoch, id |-> p.id, leaf |-> p.leaf] \in Built(disk)
    <3>1. PICK i \in 1 .. Len(disk.pending) : Keeps(p, disk.pending[i], disk.epoch)
      BY <1>3
    <3> QED  BY <3>1 DEF Built, Keeps
  <2>2. ASSUME NEW i \in 1 .. Len(disk.pending)
        PROVE  [epoch |-> disk.epoch, id |-> disk.pending[i].id,
                leaf |-> disk.pending[i].leaf] \in tree
    <3>1. PICK p \in due : Keeps(p, disk.pending[i], disk.epoch)
      BY <1>4
    <3> HIDE DEF due
    <3> QED  BY <3>1 DEF Keeps
  <2> HIDE DEF due
  <2> QED  BY <2>1, <2>2 DEF Built
<1>6. disk'.epoch = disk.epoch + 1
  BY DEF AfterSeal
<1>7. Ledger!Seal
  BY <1>5, <1>6 DEF Ledger!Seal
<1> QED
  BY <1>7 DEF Ledger!Next

\* The batcher with its snapshots, crashes and restarts implements the
\* promise ledger.
THEOREM BatcherImplementsLedger == Spec => ImplementsLedger
<1>1. Init => Ledger!Init
  BY DEF Init, Ledger!Init, Start
<1>2. ASSUME Inv, [Next]_vars PROVE [Ledger!Next]_(Ledger!vars)
  <2>1. ASSUME UNCHANGED <<disk, promises, sealed>> PROVE UNCHANGED Ledger!vars
    BY <2>1 DEF Ledger!vars
  <2>2. ASSUME Commit PROVE Ledger!Next \/ UNCHANGED <<disk, promises, sealed>>
    <3>1. ASSUME NEW code \in Refusals, reply = [kind |-> "refused", code |-> code],
                 batcher = disk
          PROVE  UNCHANGED <<disk, promises, sealed>>
      BY <2>2, <3>1 DEF Commit
    <3>2. ASSUME SubmitVerdict(disk) = "Ok", NEW leaf \in Leaf,
                 reply = [kind |-> "promise", promise |-> PromiseFor(disk, leaf)],
                 batcher = AfterSubmit(disk, leaf)
          PROVE  Ledger!Next
      <4>1. /\ disk' = AfterSubmit(disk, leaf)
            /\ promises' = promises \cup {PromiseFor(disk, leaf)}
            /\ sealed' = sealed
        BY <2>2, <3>2 DEF Commit
      <4> QED  BY <1>2, <3>2, <4>1, PromiseIsAccept DEF Inv
    <3>3. ASSUME SealVerdict(disk, disk.epoch) = "Ok",
                 reply = [kind |-> "built", epoch |-> disk.epoch],
                 batcher = AfterSeal(disk)
          PROVE  Ledger!Next
      <4>1. /\ disk' = AfterSeal(disk) /\ promises' = promises
            /\ sealed' = sealed \cup Built(disk)
        BY <2>2, <3>3 DEF Commit
      <4> QED  BY <1>2, <3>3, <4>1, BuiltIsSeal DEF Inv
    <3> QED  BY <1>2, <2>2, <3>1, <3>2, <3>3 DEF Commit, Inv, FollowsDisk
  <2> QED
    BY <1>2, <2>1, <2>2
    DEF Next, Submit, RefuseSubmit, SignerFails, Seal, RefuseSeal, CrashRestart, vars
<1> QED
  BY <1>1, <1>2, Invariance, PTL DEF Spec, ImplementsLedger, Ledger!Spec
=============================================================================
