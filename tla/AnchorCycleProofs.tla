------------------------- MODULE AnchorCycleProofs -------------------------
(***************************************************************************)
(* The daily cycle, for every schedule, slip allowance, set of roots and   *)
(* number of faults.                                                       *)
(*                                                                         *)
(* None of the properties is inductive.  What carries them is what a       *)
(* decision of the worker still means when it takes effect, however late:  *)
(*                                                                         *)
(*   PublishingInv  an epoch that is being published, by the worker or by  *)
(*                  a transaction in flight, is due, and every epoch       *)
(*                  before it has its receipt;                             *)
(*   HandoffInv     every root somebody relies on is the one in the        *)
(*                  handoff, or the one the writer at work will put there; *)
(*   ReceiptInv     every receipt that is attached or on its way is        *)
(*                  Bitcoin's, over the root on chain, and still on disk.  *)
(***************************************************************************)
EXTENDS AnchorCycle, FiniteSetTheorems, WellFoundedInduction, TLAPS

----------------------------------------------------------------------------
(* The invariant. *)

\* The log is the contiguous range its configuration reports, one account to
\* an epoch, and its last epoch was due.
LogInv ==
  /\ config \in Program!LogConfig /\ config.start_epoch = StartEpoch
  /\ config.last_epoch >= StartEpoch - 1
  /\ \A c \in checkpoints : c.epoch \in StartEpoch .. config.last_epoch /\ c.bump = Canonical
  /\ \A e \in StartEpoch .. config.last_epoch : Checkpointed(e)
  /\ \A c, d \in checkpoints : c.epoch = d.epoch => c = d
  /\ config.last_epoch >= StartEpoch => PublicationTime(config.last_epoch) <= Now
  /\ clock >= StartEpoch * EpochSeconds /\ Now <= MaxClock

\* The worker is about to publish e, is sending it, or has sent it.
Publishing(e) ==
  \/ worker.pc = "perform" /\ worker.step.kind = "Publish" /\ worker.step.epoch = e
  \/ worker.pc = "send" /\ worker.epoch = e
  \/ \E tx \in inflight : tx.kind = "publish" /\ tx.epoch = e

Due(e) ==
  /\ e <= config.last_epoch + 1
  /\ PublicationTime(e) <= Now
  /\ \A c \in checkpoints : c.epoch < e => c.receipt_digest # NoDigest

PublishingInv ==
  /\ \A e \in Epoch : Publishing(e) => Due(e)
  /\ \A c \in checkpoints : c.receipt_digest = NoDigest => c.epoch = config.last_epoch

\* A root of e that is on chain, on its way, or about to be sent.
Claim(e, root) ==
  \/ \E c \in checkpoints : c.epoch = e /\ c.root = root
  \/ \E tx \in inflight : tx.kind = "publish" /\ tx.epoch = e /\ tx.root = root
  \/ worker.pc = "send" /\ worker.epoch = e /\ worker.root = root

\* The handoff is this root, or is being written again with it.
Pinned(e, root) ==
  \/ handoff[e] = root
  \/ handoff[e] = Torn /\ \A r \in runs : r.epoch = e => r.root = root

HandoffInv ==
  /\ \A r, s \in runs : r = s
  /\ \A r \in runs :
       /\ r.opened => handoff[r.epoch] = Torn
       /\ handoff[r.epoch] \in Root => r.root = handoff[r.epoch]
  /\ \A e \in Epoch, root \in Root : Claim(e, root) => Pinned(e, root)
  /\ \A e \in Epoch, a, b \in Root : Claim(e, a) /\ Claim(e, b) => a = b

\* A digest that is attached to e, or on its way.
Attaching(e, d) ==
  \/ \E c \in checkpoints : c.epoch = e /\ c.receipt_digest = d /\ d # NoDigest
  \/ \E tx \in inflight : tx.kind = "attach" /\ tx.epoch = e /\ tx.digest = d

\* What a receipt says of Bitcoin is so.
Genuine(r) == r.bitcoin => <<r.epoch, r.stamp>> \in confirmed

Attachable(e, d) ==
  /\ d \notin {Absent, Torn} /\ d.epoch = e /\ d.bitcoin /\ Genuine(d)
  /\ \E c \in checkpoints : c.epoch = e /\ c.root = d.root
  /\ d = receipt[e] \/ d \in mislaid

ReceiptInv ==
  /\ \A e \in Epoch : receipt[e] \notin {Absent, Torn} =>
       receipt[e].epoch = e /\ Genuine(receipt[e])
  /\ \A r \in mislaid : Genuine(r)
  /\ \A e \in Epoch, d \in Receipt : Attaching(e, d) => Attachable(e, d)

\* Each stamp after an epoch's first cost a fault.
StampInv ==
  \A e \in Epoch :
    /\ stamps[e] <= faults + 1
    /\ receipt[e] = Absent => stamps[e] <= faults

----------------------------------------------------------------------------
(* The calendar. *)

\* A time is on day e or later from the first second of that day.
LEMMA DayBegins ==
  ASSUME NEW t \in Int, NEW e \in Int
  PROVE  DayIndex(t) \in Int /\ (e <= DayIndex(t) <=> e * EpochSeconds <= t)
<1> DEFINE d == DayIndex(t)
<1>1. d \in Int /\ d * EpochSeconds <= t /\ t < d * EpochSeconds + EpochSeconds
  BY ScheduleAssumption DEF DayIndex
<1>2. e <= d => e * EpochSeconds <= d * EpochSeconds
  BY <1>1, ScheduleAssumption
<1>3. e >= d + 1 => e * EpochSeconds >= d * EpochSeconds + EpochSeconds
  BY <1>1, ScheduleAssumption
<1> HIDE DEF d
<1>4. e * EpochSeconds \in Int /\ d * EpochSeconds \in Int
  BY <1>1, ScheduleAssumption
<1> QED
  BY <1>1, <1>2, <1>3, <1>4, ScheduleAssumption DEF d

\* An epoch is due only after its day has ended.
LEMMA DueAfterItsDay ==
  ASSUME NEW t \in Int, NEW e \in Int
  PROVE  /\ PublicationTime(e) \in Int
         /\ PublicationTime(e) <= t => e + 1 <= DayIndex(t)
<1>1. PublicationTime(e) \in Int /\ (e + 1) * EpochSeconds \in Int
      /\ (e + 1) * EpochSeconds <= PublicationTime(e)
  BY ScheduleAssumption DEF PublicationTime
<1>2. e + 1 <= DayIndex(t) <=> (e + 1) * EpochSeconds <= t
  BY DayBegins
<1> QED
  BY <1>1, <1>2

\* Publication times follow the order of their epochs.
LEMMA DueInOrder ==
  ASSUME NEW e \in Int, NEW f \in Int, e <= f
  PROVE  PublicationTime(e) <= PublicationTime(f)
<1>1. (e + 1) * EpochSeconds <= (f + 1) * EpochSeconds
  BY ScheduleAssumption
<1> QED
  BY <1>1, ScheduleAssumption DEF PublicationTime

\* An epoch that is due in the time explored is one of its epochs.
LEMMA DueIsEpoch ==
  ASSUME NEW t \in Int, t <= MaxClock, NEW e \in Int, e >= StartEpoch, PublicationTime(e) <= t
  PROVE  e \in Epoch
<1>1. PublicationTime(e) <= MaxClock
  BY DueAfterItsDay, AnchorCycleAssumption
<1>2. e + 1 <= DayIndex(MaxClock)
  BY <1>1, DueAfterItsDay, AnchorCycleAssumption
<1>3. DayIndex(MaxClock) \in Int /\ StartEpoch \in Int
  BY DayBegins, AnchorCycleAssumption
<1> QED
  BY <1>2, <1>3 DEF Epoch

----------------------------------------------------------------------------
(* Types. *)

\* Epochs are natural numbers.
LEMMA EpochIsNat == Epoch \subseteq Nat
  BY DayBegins, AnchorCycleAssumption DEF Epoch

\* The states a worker rests in between two steps.
LEMMA Rests ==
  ASSUME TypeOK
  PROVE  /\ Asleep \in WorkerState
         /\ \A why \in Reason : Exited(why) \in WorkerState
         /\ \A e \in Epoch : Unpublished(e) \in WorkerState
         /\ Failed \in WorkerState
         /\ Observing(0) \in WorkerState
  BY AnchorCycleAssumption
  DEF TypeOK, Program!TypeOK, WorkerState, Asleep, Exited, Unpublished, Failed, Observing

\* What each state of the worker carries.
LEMMA WorkerFields ==
  ASSUME NEW w \in WorkerState
  PROVE  /\ w.pc \in {"asleep", "exited", "failed", "observe", "perform", "send", "attach"}
         /\ w.pc = "observe" => w.failures \in 0 .. PartitionRetryLimit
         /\ w.pc = "perform" => /\ w.failures = 0
                                /\ w.step.kind \in {"Publish", "Submit", "Attach"}
                                /\ w.step.epoch \in Epoch
         /\ w.pc = "send" => /\ w.failures = 0 /\ w.epoch \in Epoch /\ w.root \in Root
                             /\ w.left \in 0 .. PublishAttempts - 1
                             /\ w = [pc |-> "send", epoch |-> w.epoch, root |-> w.root,
                                     left |-> w.left, failures |-> 0]
         /\ w.pc = "attach" => w.failures = 0 /\ w.epoch \in Epoch
  BY DEF WorkerState, Failed

\* retry_partition ends in one of two states, and within its budget.
LEMMA RetryRests ==
  ASSUME NEW w \in WorkerState, w.pc \in {"observe", "perform", "send", "attach"}
  PROVE  /\ RetryPartition(w) \in WorkerState
         /\ RetryPartition(w).pc \in {"observe", "exited"}
         /\ RetryPartition(w).pc = "exited" => RetryPartition(w).why = "BudgetExhausted"
<1>1. w.failures \in 0 .. PartitionRetryLimit
  BY WorkerFields, AnchorCycleAssumption
<1>2. CASE w.failures + 1 > PartitionRetryLimit
  <2>1. RetryPartition(w) = [pc |-> "exited", why |-> "BudgetExhausted"]
    BY <1>2 DEF RetryPartition, Exited
  <2>2. "BudgetExhausted" \in Reason
    BY DEF Reason
  <2>3. [pc |-> "exited", why |-> "BudgetExhausted"] \in [pc : {"exited"}, why : Reason]
    BY <2>2
  <2> QED
    BY <2>1, <2>3 DEF WorkerState
<1>3. CASE ~(w.failures + 1 > PartitionRetryLimit)
  BY <1>1, <1>3, AnchorCycleAssumption DEF RetryPartition, Observing, WorkerState
<1> QED
  BY <1>2, <1>3

----------------------------------------------------------------------------
(* What the program does to the chain. *)

\* Where an epoch has an account, CheckpointOf is one of that epoch.
LEMMA CheckpointOfIs ==
  ASSUME NEW e, Checkpointed(e)
  PROVE  CheckpointOf(e) \in checkpoints /\ CheckpointOf(e).epoch = e
  BY DEF Checkpointed, CheckpointOf

\* publish_checkpoint adds the account of the next epoch, without a receipt.
LEMMA PublishEffect ==
  ASSUME TypeOK, LogInv, NEW e \in Epoch, NEW root \in Root,
         Program!Publish(Authority, e, root, Canonical)
  PROVE  \E new \in Program!CheckpointAccount :
           /\ new.epoch = e /\ new.root = root /\ new.receipt_digest = NoDigest
           /\ new.bump = Canonical /\ new.published_unix = clock
           /\ checkpoints' = checkpoints \cup {new}
           /\ e = config.last_epoch + 1 /\ e <= DayIndex(clock)
           /\ config' \in Program!LogConfig /\ config'.start_epoch = StartEpoch
           /\ config'.last_epoch = e
           /\ clock' = clock /\ funded' \subseteq funded
<1> DEFINE new == [schema_version |-> 1, epoch |-> e, root |-> root, published_unix |-> clock,
                   receipt_digest |-> NoDigest, anchor_kind |-> 0, bump |-> Canonical]
<1>1. /\ checkpoints' = checkpoints \cup {new}
      /\ config' = [config EXCEPT !.last_epoch = e]
      /\ clock' = clock /\ funded' \subseteq funded
  BY DEF Program!Publish, Program!SchemaVersion
<1>2. e = config.last_epoch + 1 /\ ~(e > Program!ChainDay)
  BY DEF Program!Publish, Program!PublishVerdict
<1>3. e \in Nat /\ clock \in Nat
  BY EpochIsNat DEF TypeOK, Program!TypeOK
<1>4. e <= DayIndex(clock)
  BY <1>2, <1>3, DayBegins DEF Program!ChainDay, DayIndex
<1>5. new \in Program!CheckpointAccount
  BY <1>3 DEF Program!CheckpointAccount, Program!SchemaVersion, Program!OpenTimestamps, Digest
<1>6. config' \in Program!LogConfig /\ config'.start_epoch = StartEpoch /\ config'.last_epoch = e
  BY <1>1, <1>3 DEF LogInv, Program!LogConfig
<1> QED
  BY <1>1, <1>2, <1>4, <1>5, <1>6

\* attach_anchor_receipt changes one account that had no receipt.
LEMMA AttachEffect ==
  ASSUME TypeOK, NEW e, NEW d \in Receipt, Program!Attach(Authority, CheckpointOf(e), e, d, 1)
  PROVE  \E old \in checkpoints, new \in Program!CheckpointAccount :
           /\ old.epoch = e /\ old.receipt_digest = NoDigest /\ d # NoDigest
           /\ new.epoch = e /\ new.root = old.root /\ new.receipt_digest = d
           /\ new.bump = old.bump /\ new.published_unix = old.published_unix
           /\ checkpoints' = (checkpoints \ {old}) \cup {new}
           /\ UNCHANGED <<clock, config, funded>>
<1> DEFINE old == CheckpointOf(e)
           new == [old EXCEPT !.receipt_digest = d, !.anchor_kind = 1]
<1>1. /\ old \in checkpoints
      /\ checkpoints' = (checkpoints \ {old}) \cup {new}
      /\ UNCHANGED <<clock, config, funded>>
  BY DEF Program!Attach
<1>2. old.epoch = e /\ old.receipt_digest = NoDigest /\ d # NoDigest
  BY DEF Program!Attach, Program!AttachVerdict
<1>3. old \in Program!CheckpointAccount
  BY <1>1 DEF TypeOK, Program!TypeOK
<1> HIDE DEF old
<1>4. /\ new \in Program!CheckpointAccount
      /\ new.epoch = old.epoch /\ new.root = old.root /\ new.receipt_digest = d
      /\ new.bump = old.bump /\ new.published_unix = old.published_unix
  BY <1>3 DEF Program!CheckpointAccount, Program!OpenTimestamps, Digest
<1> QED
  BY <1>1, <1>2, <1>4

----------------------------------------------------------------------------
(* What the worker sees and decides. *)

\* A set of natural numbers has a least one.
LEMMA Least ==
  ASSUME NEW S, S \subseteq Nat, S # {}
  PROVE  \E n \in S : \A m \in S : n <= m
<1> DEFINE R == {ss \in Nat \X Nat : ss[1] < ss[2]}
<1>1. IsWellFoundedOn(R, Nat)
  BY NatLessThanWellFounded, Zenon DEF OpToRel
<1> HIDE DEF R
<1>2. PICK x \in S : \A y \in S : ~ (<<y, x>> \in R)
  BY <1>1, WFMin
<1>3. \A y \in S : ~ (y < x)
  BY <1>2 DEF R
<1> QED
  BY <1>3

\* A set of integers below a bound has a greatest one.
LEMMA Greatest ==
  ASSUME NEW b \in Int, NEW S, S \subseteq Int, \A x \in S : x <= b, S # {}
  PROVE  \E n \in S : \A m \in S : n >= m
<1> DEFINE T == {b - x : x \in S}
<1>1. T \subseteq Nat /\ T # {}
  <2>1. \A x \in S : b - x \in Nat
    OBVIOUS
  <2>2. \E x \in S : b - x \in T
    OBVIOUS
  <2> QED
    BY <2>1, <2>2
<1>2. PICK t \in T : \A u \in T : t <= u
  BY <1>1, Least
<1>3. PICK n \in S : t = b - n
  OBVIOUS
<1>4. \A m \in S : b - m \in T
  OBVIOUS
<1>5. \A m \in S : t <= b - m
  BY <1>2, <1>4
<1> QED
  BY <1>3, <1>5

\* An epoch of the log is an epoch of the time explored, and is over.
LEMMA LogIsEpochs ==
  ASSUME TypeOK, LogInv
  PROVE  /\ config.last_epoch \in Nat /\ config.start_epoch = StartEpoch /\ StartEpoch \in Nat \ {0}
         /\ clock \in Nat /\ skew \in Nat /\ Now \in Nat
         /\ StartEpoch .. config.last_epoch \subseteq Epoch
         /\ \A c \in checkpoints : c.epoch \in Epoch
         /\ StartEpoch <= DayIndex(Now)
         /\ config.last_epoch + 1 <= DayIndex(Now)
<1>1. /\ config.last_epoch \in Nat /\ StartEpoch \in Nat \ {0}
      /\ clock \in Nat /\ skew \in Nat /\ Now \in Nat
  BY AnchorCycleAssumption DEF TypeOK, Program!TypeOK, LogInv, Program!LogConfig, Now
<1>2. Now >= StartEpoch * EpochSeconds
  BY <1>1, ScheduleAssumption DEF LogInv, Now
<1>3. StartEpoch <= DayIndex(Now) /\ DayIndex(Now) \in Int
  BY <1>1, <1>2, DayBegins
<1>4. config.last_epoch + 1 <= DayIndex(Now)
  <2>1. CASE config.last_epoch >= StartEpoch
    BY <1>1, <2>1, DueAfterItsDay DEF LogInv
  <2>2. CASE config.last_epoch < StartEpoch
    BY <1>1, <1>3, <2>2
  <2> QED
    BY <1>1, <2>1, <2>2
<1>5. ASSUME NEW e \in StartEpoch .. config.last_epoch PROVE e \in Epoch
  <2>1. PublicationTime(config.last_epoch) <= Now /\ Now <= MaxClock
    BY <1>1, <1>5 DEF LogInv
  <2>2. PublicationTime(e) <= Now
    <3>1. PublicationTime(e) <= PublicationTime(config.last_epoch)
      BY <1>1, DueInOrder
    <3>2. PublicationTime(e) \in Int /\ PublicationTime(config.last_epoch) \in Int
      BY <1>1, DueAfterItsDay
    <3> QED
      BY <1>1, <2>1, <3>1, <3>2
  <2> QED
    BY <1>1, <2>1, <2>2, DueIsEpoch
<1>6. \A c \in checkpoints : c.epoch \in Epoch
  BY <1>5 DEF LogInv
<1> QED
  BY <1>1, <1>3, <1>4, <1>5, <1>6 DEF LogInv

\* A checkpoint is the only one of its epoch, so what is single or dual is one
\* account.
LEMMA SingleIs ==
  ASSUME LogInv, NEW c \in checkpoints
  PROVE  /\ Checkpointed(c.epoch) /\ CheckpointOf(c.epoch) = c
         /\ Single(c.epoch) <=> c.receipt_digest = NoDigest
  <1>1. Checkpointed(c.epoch)
    BY DEF Checkpointed
  <1>2. CheckpointOf(c.epoch) = c
    BY <1>1, CheckpointOfIs DEF LogInv
  <1> QED
    BY <1>1, <1>2 DEF Single

\* observe: whatever waits for a receipt is the last epoch.
LEMMA ObservedSingles ==
  ASSUME TypeOK, LogInv, PublishingInv
  PROVE  /\ \A e : Single(e) => e = config.last_epoch /\ config.last_epoch \in Epoch
         /\ Awaiting \subseteq {config.last_epoch} /\ Singles \subseteq {config.last_epoch}
         /\ Observe.awaiting_attach = IF Awaiting = {} THEN None ELSE config.last_epoch
         /\ Observe.oldest_single = IF Singles = {} THEN None ELSE config.last_epoch
<1>1. ASSUME NEW e, Single(e) PROVE e = config.last_epoch /\ config.last_epoch \in Epoch
  <2>1. PICK c \in checkpoints : c.epoch = e
    BY <1>1 DEF Single, Checkpointed
  <2>2. c.receipt_digest = NoDigest
    BY <1>1, <2>1, SingleIs
  <2> QED
    BY <2>1, <2>2, LogIsEpochs DEF PublishingInv
<1>2. Awaiting \subseteq {config.last_epoch} /\ Singles \subseteq {config.last_epoch}
  BY <1>1 DEF Awaiting, Singles, Submitted
<1>3. config.last_epoch \in Nat
  BY LogIsEpochs
<1>4. Observe.awaiting_attach = IF Awaiting = {} THEN None ELSE config.last_epoch
  BY <1>2, <1>3 DEF Observe
<1>5. Observe.oldest_single = IF Singles = {} THEN None ELSE config.last_epoch
  BY <1>2, <1>3 DEF Observe
<1> QED
  BY <1>1, <1>2, <1>4, <1>5

\* observe: the newest receipt on disk is of an epoch of the log, and it is
\* the last epoch's if that one has a receipt.
LEMMA ObservedSubmissions ==
  ASSUME TypeOK, LogInv
  PROVE  /\ Submitted = {} => Observe.last_submitted = None
         /\ Submitted # {} => /\ Observe.last_submitted \in Submitted
                              /\ Observe.last_submitted \in StartEpoch .. config.last_epoch
                              /\ \A e \in Submitted : Observe.last_submitted >= e
<1>1. Submitted \subseteq StartEpoch .. config.last_epoch /\ config.last_epoch \in Nat /\ StartEpoch \in Nat
  BY LogIsEpochs DEF Submitted
<1>2. ASSUME Submitted # {}
      PROVE  \E e \in Submitted : \A f \in Submitted : e >= f
  <2>1. Submitted \subseteq Int /\ config.last_epoch \in Int
    BY <1>1
  <2>2. \A e \in Submitted : e <= config.last_epoch
    BY <1>1
  <2> QED
    BY <1>2, <2>1, <2>2, Greatest
<1>3. ASSUME Submitted # {}
      PROVE  Observe.last_submitted \in Submitted /\ \A e \in Submitted : Observe.last_submitted >= e
  BY <1>2, <1>3 DEF Observe
<1> QED
  BY <1>1, <1>3 DEF Observe

\* The checks that come before any work never refuse what observe returns.
LEMMA NoBarrier ==
  ASSUME TypeOK, LogInv, PublishingInv
  PROVE  Barrier(Observe) = "Ok"
<1> DEFINE o == Observe
<1>1. /\ o.now = Now /\ o.start_epoch = StartEpoch /\ o.last_epoch = config.last_epoch
      /\ config.last_epoch \in Nat /\ StartEpoch \in Nat \ {0} /\ Now \in Nat
  BY LogIsEpochs DEF Observe
<1>2. /\ NewestPublishable(o) = DayIndex(Now) - 1 /\ DayIndex(Now) \in Int
      /\ StartEpoch <= DayIndex(Now) /\ config.last_epoch + 1 <= DayIndex(Now)
  BY <1>1, LogIsEpochs, DayBegins DEF NewestPublishable
<1>3. config.last_epoch + 1 >= StartEpoch
  BY <1>1 DEF LogInv
<1>4. ASSUME o.awaiting_attach # None
      PROVE  /\ o.awaiting_attach = config.last_epoch
             /\ config.last_epoch \in Submitted
             /\ o.awaiting_attach \in StartEpoch .. config.last_epoch
  <2>1. Awaiting # {} /\ o.awaiting_attach = config.last_epoch
    BY <1>4, ObservedSingles
  <2>2. config.last_epoch \in Submitted
    BY <2>1, ObservedSingles DEF Awaiting
  <2>3. Submitted \subseteq StartEpoch .. config.last_epoch
    BY <1>1 DEF Submitted, LogInv
  <2> QED
    BY <2>1, <2>2, <2>3
<1>5. o.awaiting_attach # None => ~(o.awaiting_attach > o.last_submitted)
  BY <1>1, <1>4, ObservedSubmissions
<1>6. ~(o.last_submitted > config.last_epoch)
  BY <1>1, ObservedSubmissions DEF None
<1> HIDE DEF o
<1> QED
  BY <1>1, <1>2, <1>3, <1>4, <1>5, <1>6 DEF Barrier, o

\* What next_step can decide on what observe returned: to attach or submit
\* the last epoch; to publish the next one, which is due, when every epoch of
\* the log has its receipt; to wait; or to refuse a log that has slipped.
LEMMA Decision ==
  ASSUME TypeOK, LogInv, PublishingInv, NEW step, step = NextStep(Observe)
  PROVE  \/ /\ step = [kind |-> "Attach", epoch |-> config.last_epoch]
            /\ config.last_epoch \in Epoch
         \/ /\ step = [kind |-> "Submit", epoch |-> config.last_epoch]
            /\ config.last_epoch \in Epoch
         \/ /\ step = [kind |-> "Publish", epoch |-> config.last_epoch + 1]
            /\ config.last_epoch + 1 \in Epoch
            /\ PublicationTime(config.last_epoch + 1) <= Now
            /\ \A c \in checkpoints : c.receipt_digest # NoDigest
         \/ step.kind = "Wait"
         \/ step = Refuse("EpochSlipExceeded")
            /\ DayIndex(Now) > LastPublishableDay(config.last_epoch + 1)
<1> DEFINE o == Observe
<1>1. /\ o.now = Now /\ o.start_epoch = StartEpoch /\ o.last_epoch = config.last_epoch
      /\ config.last_epoch \in Nat /\ StartEpoch \in Nat \ {0} /\ Now \in Nat
      /\ Now <= MaxClock /\ config.last_epoch + 1 >= StartEpoch
  BY LogIsEpochs DEF Observe, LogInv
<1>2. Barrier(o) = "Ok"
  BY NoBarrier
<1>3. CASE o.awaiting_attach # None
  <2>1. o.awaiting_attach = config.last_epoch /\ config.last_epoch \in Epoch
    BY <1>3, ObservedSingles DEF Awaiting
  <2>2. step = [kind |-> "Attach", epoch |-> config.last_epoch]
    BY <1>2, <1>3, <2>1 DEF NextStep
  <2> QED
    BY <2>1, <2>2
<1>4. CASE o.awaiting_attach = None /\ SubmittedThrough(o) < config.last_epoch
  <2>1. step = [kind |-> "Submit", epoch |-> config.last_epoch]
    BY <1>1, <1>2, <1>4 DEF NextStep
  <2>2. SubmittedThrough(o) >= StartEpoch - 1 /\ SubmittedThrough(o) \in Int
    BY <1>1, ObservedSubmissions DEF SubmittedThrough
  <2>3. config.last_epoch \in StartEpoch .. config.last_epoch
    BY <1>1, <1>4, <2>2
  <2> QED
    BY <2>1, <2>3, LogIsEpochs
<1>5. CASE o.awaiting_attach = None /\ ~(SubmittedThrough(o) < config.last_epoch)
  <2>1. CASE DayIndex(Now) > LastPublishableDay(config.last_epoch + 1)
    BY <1>1, <1>2, <1>5, <2>1 DEF NextStep
  <2>2. CASE ~(DayIndex(Now) > LastPublishableDay(config.last_epoch + 1))
             /\ Now < PublicationTime(config.last_epoch + 1)
    BY <1>1, <1>2, <1>5, <2>2 DEF NextStep
  <2>3. CASE ~(DayIndex(Now) > LastPublishableDay(config.last_epoch + 1))
             /\ ~(Now < PublicationTime(config.last_epoch + 1))
    <3>1. step = [kind |-> "Publish", epoch |-> config.last_epoch + 1]
      BY <1>1, <1>2, <1>5, <2>3 DEF NextStep
    <3>2. PublicationTime(config.last_epoch + 1) <= Now
      BY <1>1, <2>3, DueAfterItsDay
    <3>3. config.last_epoch + 1 \in Epoch
      BY <1>1, <3>2, DueIsEpoch
    <3>4. ASSUME NEW c \in checkpoints, c.receipt_digest = NoDigest PROVE FALSE
      <4>1. c.epoch = config.last_epoch /\ config.last_epoch \in StartEpoch .. config.last_epoch
        BY <3>4 DEF PublishingInv, LogInv
      <4>2. Single(config.last_epoch)
        BY <3>4, <4>1, SingleIs
      <4>3. config.last_epoch \in Submitted
        BY <1>1, <1>5, <4>1, ObservedSubmissions DEF SubmittedThrough
      <4>4. Awaiting # {}
        BY <4>2, <4>3 DEF Awaiting
      <4> QED
        BY <1>1, <1>5, <4>4, ObservedSingles DEF None
    <3> QED
      BY <3>1, <3>2, <3>3, <3>4
  <2> QED
    BY <2>1, <2>2, <2>3
<1> QED
  BY <1>3, <1>4, <1>5

----------------------------------------------------------------------------
(* What a step can do, one question at a time. *)

\* The chain: it stands still or its clock ticks; a root somebody claimed is
\* published; or a receipt the worker accepted is attached.
ChainQuiet ==
  /\ UNCHANGED <<config, checkpoints, funded, skew>>
  /\ clock' = clock \/ (clock' = clock + 1 /\ Now < MaxClock)

Publishes(e, root) ==
  /\ Publishing(e) /\ Claim(e, root)
  /\ Program!Publish(Authority, e, root, Canonical)
  /\ UNCHANGED <<files, skew, stamps, confirmed>>

Attaches(e, d) ==
  /\ Attaching(e, d) \/ (ReceiptAccepted(e) /\ d = receipt[e])
  /\ Program!Attach(Authority, CheckpointOf(e), e, d, 1)
  /\ UNCHANGED <<files, skew, stamps, confirmed>>

\* A receipt the worker accepts is a receipt.
LEMMA AcceptedIsReceipt ==
  ASSUME TypeOK, NEW e \in Epoch, ReceiptAccepted(e)
  PROVE  receipt[e] \in Receipt
  BY DEF TypeOK, ReceiptAccepted

\* A transaction in flight publishes or attaches.
LEMMA TransactionIs ==
  ASSUME TypeOK, NEW tx \in inflight
  PROVE  \/ tx.kind = "publish" /\ tx.epoch \in Epoch /\ tx.root \in Root
         \/ tx.kind = "attach" /\ tx.epoch \in Epoch /\ tx.digest \in Receipt
  BY DEF TypeOK, Transaction

\* Every step is one of the three to the chain.
LEMMA ChainKinds ==
  ASSUME TypeOK, [Next]_vars
  PROVE  \/ ChainQuiet
         \/ \E e \in Epoch, root \in Root : Publishes(e, root)
         \/ \E e \in Epoch, d \in Receipt : Attaches(e, d)
<1>1. ASSUME NEW e \in Epoch, NEW root \in Root, BeginRun(e, root) PROVE ChainQuiet
  BY <1>1 DEF BeginRun, chain, world, ChainQuiet
<1>2. ASSUME NEW r \in runs, OpenFile(r) \/ WriteFile(r) \/ RunCrashes(r) PROVE ChainQuiet
  BY <1>2 DEF OpenFile, WriteFile, RunCrashes, chain, world, ChainQuiet
<1>3. CASE ObserveOk \/ Wake \/ Restart \/ RootForFails \/ OperatorStarts \/ ObserveFails
           \/ WorkerCrashes \/ BeginPublish \/ PublishSettles \/ PublishRefused
  BY <1>3 DEF ObserveOk, Wake, Restart, RootForFails, OperatorStarts, ObserveFails,
       WorkerCrashes, BeginPublish, PublishSettles, PublishRefused, chain, world, ChainQuiet
<1>4. CASE SubmitFindsReceipt \/ Stamps \/ StampFails \/ AttachFindsNoReceipt \/ UpgradeFails
           \/ Upgrade(TRUE) \/ Upgrade(FALSE) \/ AttachRefused \/ AttachAlreadyDone
           \/ PublishUnanswered \/ AttachReadFails \/ AttachUnanswered
  BY <1>4 DEF SubmitFindsReceipt, Stamps, StampFails, AttachFindsNoReceipt, UpgradeFails, Upgrade,
       AttachRefused, AttachAlreadyDone, PublishUnanswered, AttachReadFails, AttachUnanswered,
       chain, world, ChainQuiet
<1>5. CASE PublishLands \/ PublishReadBackFails
  <2>1. CASE UNCHANGED chain
    BY <1>5, <2>1 DEF PublishLands, PublishReadBackFails, chain, world, ChainQuiet
  <2>2. CASE ~UNCHANGED chain
    <3>1. worker.pc = "send" /\ Program!Publish(Authority, worker.epoch, worker.root, Canonical)
      BY <1>5, <2>2 DEF PublishLands, PublishReadBackFails
    <3>2. worker.epoch \in Epoch /\ worker.root \in Root
      BY <3>1, WorkerFields DEF TypeOK
    <3>3. Publishes(worker.epoch, worker.root)
      BY <1>5, <3>1 DEF PublishLands, PublishReadBackFails, Publishes, Publishing, Claim, world
    <3> QED
      BY <3>2, <3>3
  <2> QED
    BY <2>1, <2>2
<1>6. CASE AttachLands
  <2>1. worker.epoch \in Epoch /\ ReceiptAccepted(worker.epoch)
    BY <1>6, WorkerFields DEF TypeOK, AttachLands
  <2>2. Attaches(worker.epoch, receipt[worker.epoch])
    BY <1>6, <2>1 DEF AttachLands, Attaches, world
  <2> QED
    BY <2>1, <2>2, AcceptedIsReceipt
<1>7. ASSUME NEW tx \in inflight, Lands(tx)
      PROVE  \/ \E e \in Epoch, root \in Root : Publishes(e, root)
             \/ \E e \in Epoch, d \in Receipt : Attaches(e, d)
  <2>1. CASE tx.kind = "publish"
    <3>1. tx.epoch \in Epoch /\ tx.root \in Root
      BY <2>1, TransactionIs
    <3>2. Program!Publish(Authority, tx.epoch, tx.root, Canonical)
      BY <1>7, <2>1 DEF Lands
    <3>3. Publishes(tx.epoch, tx.root)
      BY <1>7, <2>1, <3>2 DEF Lands, Publishes, Publishing, Claim
    <3> QED
      BY <3>1, <3>3
  <2>2. CASE tx.kind = "attach"
    <3>1. tx.epoch \in Epoch /\ tx.digest \in Receipt
      BY <2>2, TransactionIs
    <3>2. Program!Attach(Authority, CheckpointOf(tx.epoch), tx.epoch, tx.digest, 1)
      BY <1>7, <2>2 DEF Lands
    <3>3. Attaches(tx.epoch, tx.digest)
      BY <1>7, <2>2, <3>2 DEF Lands, Attaches, Attaching
    <3> QED
      BY <3>1, <3>3
  <2> QED
    BY <2>1, <2>2, TransactionIs
<1>8. ASSUME NEW tx \in inflight, Expires(tx) PROVE ChainQuiet
  BY <1>8 DEF Expires, chain, ChainQuiet
<1>9. ASSUME NEW e \in Epoch, NEW n \in 1 .. MaxStamps, BitcoinConfirms(e, n) PROVE ChainQuiet
  BY <1>9 DEF BitcoinConfirms, chain, ChainQuiet
<1>10. ASSUME NEW e \in Epoch, LoseReceipt(e) PROVE ChainQuiet
  BY <1>10 DEF LoseReceipt, chain, world, ChainQuiet
<1>11. ASSUME NEW r \in mislaid, RestoreReceipt(r) PROVE ChainQuiet
  BY <1>11 DEF RestoreReceipt, chain, world, ChainQuiet
<1>12. CASE Tick
  BY <1>12 DEF Tick, Program!Tick, world, ChainQuiet
<1>13. CASE UNCHANGED vars
  BY <1>13 DEF vars, chain, world, ChainQuiet
<1> QED
  BY <1>1, <1>2, <1>3, <1>4, <1>5, <1>6, <1>7, <1>8, <1>9, <1>10, <1>11, <1>12, <1>13
  DEF Next, WorkerStep, WorkerFault

\* The worker and its transactions: apart from four actions, no transaction
\* is sent, and the worker stays as it is or leaves what it was doing.
Leaves ==
  /\ inflight' \subseteq inflight
  /\ worker' = worker \/ worker'.pc \notin {"perform", "send"}

\* The four actions, and the rest.
LEMMA WorkerKinds ==
  ASSUME TypeOK, [Next]_vars
  PROVE  ObserveOk \/ BeginPublish \/ PublishUnanswered \/ AttachUnanswered \/ Leaves
<1> USE DEF Leaves
<1>0. /\ Observing(0).pc = "observe" /\ Asleep.pc = "asleep" /\ Failed.pc = "failed"
      /\ \A why : Exited(why).pc = "exited"
  BY DEF Observing, Asleep, Failed, Exited
<1>a. ASSUME worker.pc \in {"observe", "perform", "send", "attach"}, worker' = RetryPartition(worker)
      PROVE  worker'.pc \notin {"perform", "send"}
  BY <1>a, RetryRests DEF TypeOK
<1>1. ASSUME NEW e \in Epoch, NEW root \in Root, BeginRun(e, root) PROVE Leaves
  BY <1>1 DEF BeginRun, world
<1>2. ASSUME NEW r \in runs, OpenFile(r) \/ WriteFile(r) \/ RunCrashes(r) PROVE Leaves
  BY <1>2 DEF OpenFile, WriteFile, RunCrashes, world
<1>3. CASE Wake \/ Restart \/ RootForFails \/ OperatorStarts \/ WorkerCrashes
           \/ PublishLands \/ PublishSettles \/ PublishRefused \/ AttachRefused \/ AttachLands
           \/ AttachFindsNoReceipt \/ Stamps
  BY <1>0, <1>3 DEF Wake, Restart, RootForFails, OperatorStarts, WorkerCrashes, PublishLands,
       PublishSettles, PublishRefused, AttachRefused, AttachLands, AttachFindsNoReceipt, Stamps, world
<1>4. CASE ObserveFails \/ PublishReadBackFails \/ AttachReadFails \/ StampFails \/ UpgradeFails
           \/ AttachAlreadyDone
  BY <1>a, <1>4 DEF ObserveFails, PublishReadBackFails, AttachReadFails, StampFails, UpgradeFails,
       AttachAlreadyDone, Unpublished, Performs, world
<1>5. CASE SubmitFindsReceipt
  BY <1>0, <1>a, <1>5 DEF SubmitFindsReceipt, Performs, world
<1>6. CASE Upgrade(TRUE) \/ Upgrade(FALSE)
  BY <1>0, <1>6 DEF Upgrade, world
<1>7. ASSUME NEW tx \in inflight, Lands(tx) \/ Expires(tx) PROVE Leaves
  BY <1>7 DEF Lands, Expires
<1>8. ASSUME NEW e \in Epoch, NEW n \in 1 .. MaxStamps, BitcoinConfirms(e, n) PROVE Leaves
  BY <1>8 DEF BitcoinConfirms
<1>9. ASSUME NEW e \in Epoch, LoseReceipt(e) PROVE Leaves
  BY <1>9 DEF LoseReceipt, world
<1>10. ASSUME NEW r \in mislaid, RestoreReceipt(r) PROVE Leaves
  BY <1>10 DEF RestoreReceipt, world
<1>11. CASE Tick
  BY <1>11 DEF Tick, world
<1>12. CASE UNCHANGED vars
  BY <1>12 DEF vars, world
<1> QED
  BY <1>1, <1>2, <1>3, <1>4, <1>5, <1>6, <1>7, <1>8, <1>9, <1>10, <1>11, <1>12
  DEF Next, WorkerStep, WorkerFault

\* An epoch enters publication only by the worker's decision, and then it is
\* due.
LEMMA PublishingKinds ==
  ASSUME TypeOK, LogInv, PublishingInv, [Next]_vars, NEW e \in Epoch, Publishing(e)'
  PROVE  Due(e)
<1>1. Publishing(e) => Due(e)
  BY DEF PublishingInv
<1>2. CASE ObserveOk
  <2>1. inflight' = inflight
    BY <1>2 DEF ObserveOk, world
  <2>2. PICK step : step = NextStep(Observe)
    OBVIOUS
  <2>3. worker' = CASE step.kind = "Refuse" -> Exited(step.reason)
                    [] step.kind = "Wait"   -> Asleep
                    [] OTHER                -> Perform(step)
    BY <1>2, <2>2 DEF ObserveOk
  <2>4. CASE step.kind \in {"Refuse", "Wait"}
    <3>1. worker'.pc \in {"exited", "asleep"}
      BY <2>3, <2>4 DEF Exited, Asleep
    <3> QED
      BY <1>1, <2>1, <3>1 DEF Publishing
  <2>5. CASE step.kind \notin {"Refuse", "Wait"}
    <3>1. worker' = Perform(step)
      BY <2>3, <2>5
    <3>2. worker'.pc = "perform" /\ worker'.step = step
      BY <3>1 DEF Perform
    <3>3. CASE step.kind = "Publish" /\ step.epoch = e
      <4>1. /\ e = config.last_epoch + 1 /\ PublicationTime(e) <= Now
            /\ \A c \in checkpoints : c.receipt_digest # NoDigest
        BY <2>2, <3>3, Decision DEF Refuse
      <4> QED
        BY <4>1, LogIsEpochs DEF Due
    <3>4. CASE ~(step.kind = "Publish" /\ step.epoch = e)
      BY <1>1, <2>1, <3>2, <3>4 DEF Publishing
    <3> QED
      BY <3>3, <3>4
  <2> QED
    BY <2>4, <2>5
<1>3. CASE BeginPublish
  BY <1>1, <1>3 DEF BeginPublish, Performs, Publishing, world
<1>4. CASE PublishUnanswered
  <2>1. worker'.pc \in {"observe", "exited"} \/ (worker'.pc = "send" /\ worker'.epoch = worker.epoch)
    BY <1>4, RetryRests, WorkerFields DEF PublishUnanswered, TypeOK
  <2> QED
    BY <1>1, <1>4, <2>1 DEF PublishUnanswered, Publishing
<1>5. CASE AttachUnanswered
  <2>1. worker'.pc \in {"observe", "exited"}
    BY <1>5, RetryRests DEF AttachUnanswered, TypeOK
  <2> QED
    BY <1>1, <1>5, <2>1 DEF AttachUnanswered, Publishing
<1>6. CASE Leaves
  BY <1>1, <1>6 DEF Leaves, Publishing
<1> QED
  BY <1>2, <1>3, <1>4, <1>5, <1>6, WorkerKinds

\* A root enters by being read from the handoff, and no other way.
LEMMA ClaimKinds ==
  ASSUME TypeOK, LogInv, [Next]_vars, NEW e \in Epoch, NEW root \in Root, Claim(e, root)'
  PROVE  Claim(e, root) \/ (handoff[e] = root /\ UNCHANGED <<handoff, runs>>)
<1>1. CASE \E c \in checkpoints' : c.epoch = e /\ c.root = root
  <2>1. CASE ChainQuiet
    BY <1>1, <2>1 DEF ChainQuiet, Claim
  <2>2. ASSUME NEW f \in Epoch, NEW r \in Root, Publishes(f, r) PROVE Claim(e, root)
    <3>1. Claim(f, r) /\ Program!Publish(Authority, f, r, Canonical)
      BY <2>2 DEF Publishes
    <3>2. \A c \in checkpoints' : c \in checkpoints \/ (c.epoch = f /\ c.root = r)
      BY <3>1, PublishEffect
    <3> QED
      BY <1>1, <3>1, <3>2 DEF Claim
  <2>3. ASSUME NEW f \in Epoch, NEW d \in Receipt, Attaches(f, d) PROVE Claim(e, root)
    <3>1. \A c \in checkpoints' : \E b \in checkpoints : c.epoch = b.epoch /\ c.root = b.root
      BY <2>3, AttachEffect DEF Attaches
    <3> QED
      BY <1>1, <3>1 DEF Claim
  <2> QED
    BY <2>1, <2>2, <2>3, ChainKinds
<1>2. CASE \/ \E tx \in inflight' : tx.kind = "publish" /\ tx.epoch = e /\ tx.root = root
           \/ worker'.pc = "send" /\ worker'.epoch = e /\ worker'.root = root
  <2>1. CASE ObserveOk
    <3>1. inflight' = inflight /\ worker'.pc \in {"exited", "asleep", "perform"}
      BY <2>1 DEF ObserveOk, world, Exited, Asleep, Perform
    <3> QED
      BY <1>2, <3>1 DEF Claim
  <2>2. CASE BeginPublish
    <3>1. /\ worker'.epoch = worker.step.epoch /\ worker'.root = handoff[worker.step.epoch]
          /\ inflight' = inflight /\ UNCHANGED <<handoff, runs>>
      BY <2>2 DEF BeginPublish, RootFor, world, files
    <3> QED
      BY <1>2, <3>1 DEF Claim
  <2>3. CASE PublishUnanswered
    <3>1. \/ worker'.pc \in {"observe", "exited"}
          \/ worker'.pc = "send" /\ worker'.epoch = worker.epoch /\ worker'.root = worker.root
      BY <2>3, RetryRests, WorkerFields DEF PublishUnanswered, TypeOK
    <3> QED
      BY <1>2, <2>3, <3>1 DEF PublishUnanswered, Claim
  <2>4. CASE AttachUnanswered
    <3>1. worker'.pc \in {"observe", "exited"}
      BY <2>4, RetryRests DEF AttachUnanswered, TypeOK
    <3> QED
      BY <1>2, <2>4, <3>1 DEF AttachUnanswered, Claim
  <2>5. CASE Leaves
    BY <1>2, <2>5 DEF Leaves, Claim
  <2> QED
    BY <2>1, <2>2, <2>3, <2>4, <2>5, WorkerKinds
<1> QED
  BY <1>1, <1>2 DEF Claim

\* A digest enters by being accepted on disk, and no other way.
LEMMA AttachingKinds ==
  ASSUME TypeOK, LogInv, [Next]_vars, NEW e \in Epoch, NEW d \in Receipt, Attaching(e, d)'
  PROVE  Attaching(e, d) \/ (ReceiptAccepted(e) /\ d = receipt[e])
<1>1. CASE \E c \in checkpoints' : c.epoch = e /\ c.receipt_digest = d /\ d # NoDigest
  <2>1. CASE ChainQuiet
    BY <1>1, <2>1 DEF ChainQuiet, Attaching
  <2>2. ASSUME NEW f \in Epoch, NEW r \in Root, Publishes(f, r) PROVE Attaching(e, d)
    <3>1. \A c \in checkpoints' : c \in checkpoints \/ c.receipt_digest = NoDigest
      BY <2>2, PublishEffect DEF Publishes
    <3> QED
      BY <1>1, <3>1 DEF Attaching
  <2>3. ASSUME NEW f \in Epoch, NEW g \in Receipt, Attaches(f, g)
        PROVE  Attaching(e, d) \/ (ReceiptAccepted(e) /\ d = receipt[e])
    <3>1. \A c \in checkpoints' : c \in checkpoints \/ (c.epoch = f /\ c.receipt_digest = g)
      BY <2>3, AttachEffect DEF Attaches
    <3> QED
      BY <1>1, <2>3, <3>1 DEF Attaching, Attaches
  <2> QED
    BY <2>1, <2>2, <2>3, ChainKinds
<1>2. CASE \E tx \in inflight' : tx.kind = "attach" /\ tx.epoch = e /\ tx.digest = d
  <2>1. CASE ObserveOk \/ BeginPublish
    BY <1>2, <2>1 DEF ObserveOk, BeginPublish, world, Attaching
  <2>2. CASE PublishUnanswered
    BY <1>2, <2>2 DEF PublishUnanswered, Attaching
  <2>3. CASE AttachUnanswered
    BY <1>2, <2>3 DEF AttachUnanswered, Attaching
  <2>4. CASE Leaves
    BY <1>2, <2>4 DEF Leaves, Attaching
  <2> QED
    BY <2>1, <2>2, <2>3, <2>4, WorkerKinds
<1> QED
  BY <1>1, <1>2 DEF Attaching

----------------------------------------------------------------------------
(* The log, and what is being published. *)

\* A checkpoint is written when it is due, and by then on its day.
LEMMA LogStep ==
  ASSUME TypeOK, LogInv, NeverEarly, PublishingInv, [Next]_vars
  PROVE  LogInv' /\ NeverEarly'
<1>1. /\ config.last_epoch \in Nat /\ StartEpoch \in Nat \ {0}
      /\ clock \in Nat /\ skew \in Nat /\ Now \in Nat /\ MaxClock \in Nat
  BY LogIsEpochs, AnchorCycleAssumption
<1>2. \A e \in Int : PublicationTime(e) \in Int
  BY DueAfterItsDay
<1>3. CASE ChainQuiet
  <2>1. UNCHANGED <<config, checkpoints, skew>> /\ clock' \in Nat /\ clock' >= clock
        /\ Now' \in Nat /\ Now' >= Now /\ Now' <= MaxClock
    BY <1>1, <1>3 DEF ChainQuiet, Now, LogInv
  <2>2. PublicationTime(config.last_epoch) \in Int
    BY <1>1, <1>2
  <2>3. StartEpoch * EpochSeconds \in Int
    BY <1>1, ScheduleAssumption
  <2>4. LogInv'
    BY <1>1, <2>1, <2>2, <2>3 DEF LogInv, Checkpointed
  <2> QED
    BY <2>1, <2>4 DEF NeverEarly
<1>4. ASSUME NEW e \in Epoch, NEW root \in Root, Publishes(e, root) PROVE LogInv' /\ NeverEarly'
  <2>1. Due(e)
    BY <1>4 DEF Publishes, PublishingInv
  <2>2. PICK new \in Program!CheckpointAccount :
          /\ new.epoch = e /\ new.root = root /\ new.receipt_digest = NoDigest
          /\ new.bump = Canonical /\ new.published_unix = clock
          /\ checkpoints' = checkpoints \cup {new}
          /\ e = config.last_epoch + 1 /\ e <= DayIndex(clock)
          /\ config' \in Program!LogConfig /\ config'.start_epoch = StartEpoch
          /\ config'.last_epoch = e
          /\ clock' = clock /\ funded' \subseteq funded
    BY <1>4, PublishEffect DEF Publishes
  <2>3. skew' = skew /\ Now' = Now
    BY <1>4, <2>2 DEF Publishes, Now
  <2>4. \A c \in checkpoints' : c.epoch \in StartEpoch .. e /\ c.bump = Canonical
    BY <1>1, <2>2 DEF LogInv
  <2>5. \A f \in StartEpoch .. e : \E c \in checkpoints' : c.epoch = f
    BY <1>1, <2>2 DEF LogInv, Checkpointed
  <2>6. \A c, d \in checkpoints' : c.epoch = d.epoch => c = d
    <3>1. \A c \in checkpoints : c.epoch # e
      BY <1>1, <2>2 DEF LogInv
    <3> QED
      BY <2>2, <3>1 DEF LogInv
  <2>7. LogInv'
    BY <1>1, <2>1, <2>2, <2>3, <2>4, <2>5, <2>6 DEF LogInv, Checkpointed, Due
  <2>8. NeverEarly'
    <3>1. new.published_unix + skew >= PublicationTime(new.epoch)
          /\ DayIndex(new.published_unix) >= new.epoch
      BY <1>1, <1>2, <2>1, <2>2, DayBegins DEF Due, Now
    <3> QED
      BY <2>2, <2>3, <3>1 DEF NeverEarly
  <2> QED
    BY <2>7, <2>8
<1>5. ASSUME NEW e \in Epoch, NEW d \in Receipt, Attaches(e, d) PROVE LogInv' /\ NeverEarly'
  <2>1. PICK old \in checkpoints, new \in Program!CheckpointAccount :
          /\ old.epoch = e /\ old.receipt_digest = NoDigest /\ d # NoDigest
          /\ new.epoch = e /\ new.root = old.root /\ new.receipt_digest = d
          /\ new.bump = old.bump /\ new.published_unix = old.published_unix
          /\ checkpoints' = (checkpoints \ {old}) \cup {new}
          /\ UNCHANGED <<clock, config, funded>>
    BY <1>5, AttachEffect DEF Attaches
  <2>2. skew' = skew /\ Now' = Now
    BY <1>5, <2>1 DEF Attaches, Now
  <2>3. \A f : (\E c \in checkpoints : c.epoch = f) => \E c \in checkpoints' : c.epoch = f
    BY <2>1
  <2>4. \A c, b \in checkpoints' : c.epoch = b.epoch => c = b
    BY <2>1 DEF LogInv
  <2>5. LogInv'
    BY <2>1, <2>2, <2>3, <2>4 DEF LogInv, Checkpointed
  <2> QED
    BY <2>1, <2>2, <2>5 DEF NeverEarly
<1> QED
  BY <1>3, <1>4, <1>5, ChainKinds

\* What is being published stays due, and a new checkpoint finds every other
\* one with its receipt.
LEMMA PublishingStep ==
  ASSUME TypeOK, LogInv, PublishingInv, [Next]_vars
  PROVE  PublishingInv'
<1>1. config.last_epoch \in Nat /\ Now \in Nat /\ \A e \in Epoch : e \in Nat /\ PublicationTime(e) \in Int
  BY LogIsEpochs, EpochIsNat, DueAfterItsDay
<1>2. \A e \in Epoch : Publishing(e)' => Due(e)
  BY PublishingKinds
<1>3. CASE ChainQuiet
  <2>1. UNCHANGED <<config, checkpoints>> /\ Now' \in Nat /\ Now' >= Now
    BY <1>1, <1>3, LogIsEpochs DEF ChainQuiet, Now
  <2>2. \A e \in Epoch : Due(e) => Due(e)'
    BY <1>1, <2>1 DEF Due
  <2> QED
    BY <1>2, <2>1, <2>2 DEF PublishingInv
<1>4. ASSUME NEW e \in Epoch, NEW root \in Root, Publishes(e, root) PROVE PublishingInv'
  <2>1. Due(e)
    BY <1>4 DEF Publishes, PublishingInv
  <2>2. PICK new \in Program!CheckpointAccount :
          /\ new.epoch = e /\ checkpoints' = checkpoints \cup {new}
          /\ e = config.last_epoch + 1 /\ config'.last_epoch = e /\ clock' = clock
    BY <1>4, PublishEffect DEF Publishes
  <2>3. Now' = Now
    BY <1>4, <2>2 DEF Publishes, Now
  <2>4. \A c \in checkpoints : c.epoch < e
    BY <1>1, <2>2 DEF LogInv
  <2>5. \A c \in checkpoints' : c.receipt_digest = NoDigest => c.epoch = config'.last_epoch
    BY <2>1, <2>2, <2>4 DEF Due
  <2>6. ASSUME NEW f \in Epoch, Due(f) PROVE Due(f)'
    <3>1. f <= e
      BY <1>1, <2>2, <2>6 DEF Due
    <3> QED
      BY <1>1, <2>2, <2>3, <2>6, <3>1 DEF Due
  <2> QED
    BY <1>2, <2>5, <2>6 DEF PublishingInv
<1>5. ASSUME NEW e \in Epoch, NEW d \in Receipt, Attaches(e, d) PROVE PublishingInv'
  <2>1. PICK old \in checkpoints, new \in Program!CheckpointAccount :
          /\ new.epoch = old.epoch /\ new.receipt_digest = d /\ d # NoDigest
          /\ checkpoints' = (checkpoints \ {old}) \cup {new}
          /\ UNCHANGED <<clock, config>>
    BY <1>5, AttachEffect DEF Attaches
  <2>2. Now' = Now
    BY <1>5, <2>1 DEF Attaches, Now
  <2>3. \A f \in Epoch : Due(f) => Due(f)'
    BY <2>1, <2>2 DEF Due
  <2>4. \A c \in checkpoints' : c.receipt_digest = NoDigest => c.epoch = config'.last_epoch
    BY <2>1 DEF PublishingInv
  <2> QED
    BY <1>2, <2>3, <2>4 DEF PublishingInv
<1> QED
  BY <1>3, <1>4, <1>5, ChainKinds

----------------------------------------------------------------------------
(* Receipts. *)

\* Apart from five actions the receipts stay where they are.
LEMMA ReceiptKinds ==
  ASSUME [Next]_vars
  PROVE  \/ UNCHANGED <<receipt, mislaid, stamps>>
         \/ Stamps \/ StampFails \/ Upgrade(TRUE) \/ Upgrade(FALSE)
         \/ \E e \in Epoch : LoseReceipt(e)
         \/ \E r \in mislaid : RestoreReceipt(r)
<1>1. ASSUME NEW e \in Epoch, NEW root \in Root, BeginRun(e, root)
      PROVE  UNCHANGED <<receipt, mislaid, stamps>>
  BY <1>1 DEF BeginRun, world
<1>2. ASSUME NEW r \in runs, OpenFile(r) \/ WriteFile(r) \/ RunCrashes(r)
      PROVE  UNCHANGED <<receipt, mislaid, stamps>>
  BY <1>2 DEF OpenFile, WriteFile, RunCrashes, world
<1>3. CASE ObserveOk \/ Wake \/ Restart \/ RootForFails \/ OperatorStarts \/ ObserveFails
           \/ WorkerCrashes \/ BeginPublish \/ PublishLands \/ PublishSettles \/ PublishRefused
  BY <1>3 DEF ObserveOk, Wake, Restart, RootForFails, OperatorStarts, ObserveFails,
       WorkerCrashes, BeginPublish, PublishLands, PublishSettles, PublishRefused, files, world
<1>4. CASE SubmitFindsReceipt \/ AttachFindsNoReceipt \/ UpgradeFails \/ AttachRefused \/ AttachLands
           \/ AttachAlreadyDone \/ PublishUnanswered \/ PublishReadBackFails \/ AttachReadFails
           \/ AttachUnanswered
  BY <1>4 DEF SubmitFindsReceipt, AttachFindsNoReceipt, UpgradeFails, AttachRefused, AttachLands,
       AttachAlreadyDone, PublishUnanswered, PublishReadBackFails, AttachReadFails,
       AttachUnanswered, files, world
<1>5. ASSUME NEW tx \in inflight, Lands(tx) \/ Expires(tx)
      PROVE  UNCHANGED <<receipt, mislaid, stamps>>
  BY <1>5 DEF Lands, Expires, files
<1>6. ASSUME NEW e \in Epoch, NEW n \in 1 .. MaxStamps, BitcoinConfirms(e, n)
      PROVE  UNCHANGED <<receipt, mislaid, stamps>>
  BY <1>6 DEF BitcoinConfirms, files
<1>7. CASE Tick \/ UNCHANGED vars
  BY <1>7 DEF Tick, vars, files, world
<1> QED
  BY <1>1, <1>2, <1>3, <1>4, <1>5, <1>6, <1>7 DEF Next, WorkerStep, WorkerFault

\* What Bitcoin carries it keeps.
LEMMA ConfirmedGrows == ASSUME [Next]_vars PROVE confirmed \subseteq confirmed'
<1>1. ASSUME NEW e \in Epoch, NEW n \in 1 .. MaxStamps, BitcoinConfirms(e, n)
      PROVE  confirmed \subseteq confirmed'
  BY <1>1 DEF BitcoinConfirms
<1>2. CASE ~(\E e \in Epoch, n \in 1 .. MaxStamps : BitcoinConfirms(e, n))
  BY <1>2 DEF Next, WorkerStep, WorkerFault, vars, world, files, chain, BeginRun, OpenFile, WriteFile,
       RunCrashes, ObserveOk, Wake, Restart, RootForFails, OperatorStarts, ObserveFails,
       WorkerCrashes, BeginPublish, PublishLands, PublishSettles, PublishRefused, SubmitFindsReceipt,
       Stamps, StampFails, AttachFindsNoReceipt, UpgradeFails, Upgrade, AttachRefused, AttachLands,
       AttachAlreadyDone, PublishUnanswered, PublishReadBackFails, AttachReadFails,
       AttachUnanswered, Lands, Expires,
       LoseReceipt, RestoreReceipt, Tick
<1> QED
  BY <1>1, <1>2

\* ots upgrade may only add Bitcoin's attestation to the one receipt.
LEMMA UpgradesOne ==
  ASSUME TypeOK, Upgrade(TRUE) \/ Upgrade(FALSE)
  PROVE  \E e \in Epoch, carries \in BOOLEAN :
           /\ receipt[e] \in Receipt /\ UNCHANGED <<mislaid, stamps>>
           /\ receipt[e].bitcoin => carries
           /\ carries => receipt[e].bitcoin \/ <<e, receipt[e].stamp>> \in confirmed
           /\ receipt' = [receipt EXCEPT ![e].bitcoin = carries]
<1> DEFINE e == worker.step.epoch
<1>1. e \in Epoch
  BY WorkerFields DEF Upgrade, Performs, TypeOK
<1>2. receipt[e] \in Receipt
  BY <1>1 DEF Upgrade, TypeOK
<1>3. receipt[e].bitcoin \in BOOLEAN
  BY <1>2 DEF Receipt
<1> QED
  BY <1>1, <1>2, <1>3 DEF Upgrade, world

\* A checkpoint keeps its epoch and its root.
LEMMA RootStays ==
  ASSUME TypeOK, LogInv, [Next]_vars, NEW c \in checkpoints
  PROVE  \E b \in checkpoints' : b.epoch = c.epoch /\ b.root = c.root
<1>1. CASE ChainQuiet
  BY <1>1 DEF ChainQuiet
<1>2. ASSUME NEW e \in Epoch, NEW root \in Root, Publishes(e, root) PROVE c \in checkpoints'
  BY <1>2, PublishEffect DEF Publishes
<1>3. ASSUME NEW e \in Epoch, NEW d \in Receipt, Attaches(e, d)
      PROVE  \E b \in checkpoints' : b.epoch = c.epoch /\ b.root = c.root
  BY <1>3, AttachEffect DEF Attaches
<1> QED
  BY <1>1, <1>2, <1>3, ChainKinds

\* What the worker would attach is attachable.
LEMMA AcceptedIsAttachable ==
  ASSUME TypeOK, ReceiptInv, NEW e \in Epoch, ReceiptAccepted(e)
  PROVE  Attachable(e, receipt[e])
<1>1. CheckpointOf(e) \in checkpoints /\ CheckpointOf(e).epoch = e
  BY CheckpointOfIs DEF ReceiptAccepted
<1> QED
  BY <1>1 DEF ReceiptAccepted, ReceiptInv, Attachable

\* A receipt that is attached or on its way is still on disk, in its place or
\* mislaid; and a receipt says Bitcoin carries it only when Bitcoin does.
LEMMA ReceiptStep ==
  ASSUME TypeOK, LogInv, ReceiptInv, [Next]_vars
  PROVE  ReceiptInv'
<1> DEFINE Whole(f) == f \notin {Absent, Torn}
           Carried(r) == r.bitcoin => <<r.epoch, r.stamp>> \in confirmed'
<1>1. \A e \in Epoch, d \in Receipt : Attaching(e, d)' => Attachable(e, d)
  BY AttachingKinds, AcceptedIsAttachable DEF ReceiptInv
<1>2. \A r : Genuine(r) => Carried(r)
  BY ConfirmedGrows DEF Genuine
<1>3. \A e, d : (\E c \in checkpoints : c.epoch = e /\ c.root = d.root) =>
                \E c \in checkpoints' : c.epoch = e /\ c.root = d.root
  BY RootStays
<1>4. /\ receipt \in [Epoch -> Receipt \cup {Absent, Torn}] /\ mislaid \subseteq Receipt
      /\ \A r \in Receipt : r.epoch \in Epoch
  BY DEF TypeOK, Receipt
<1> SUFFICES
      ASSUME TRUE
      PROVE  /\ \A e \in Epoch : Whole(receipt'[e]) => receipt'[e].epoch = e /\ Carried(receipt'[e])
             /\ \A r \in mislaid' : Carried(r)
             /\ \A e \in Epoch, d \in Receipt :
                  /\ Whole(d) /\ d.epoch = e /\ d.bitcoin
                  /\ d = receipt[e] \/ d \in mislaid
                  => d = receipt'[e] \/ d \in mislaid'
  <2>1. ASSUME NEW e \in Epoch, NEW d \in Receipt, Attaching(e, d)' PROVE Attachable(e, d)'
    <3>1. Attachable(e, d)
      BY <1>1, <2>1
    <3>2. Genuine(d)'
      BY <1>2, <3>1 DEF Attachable, Genuine
    <3>3. d = receipt'[e] \/ d \in mislaid'
      BY <3>1 DEF Attachable
    <3>4. \E c \in checkpoints' : c.epoch = e /\ c.root = d.root
      BY <1>3, <3>1 DEF Attachable
    <3> QED
      BY <3>1, <3>2, <3>3, <3>4 DEF Attachable
  <2> QED
    BY <2>1 DEF ReceiptInv, Genuine
<1> HIDE DEF Whole, Carried
<1>a. /\ \A e \in Epoch : Whole(receipt[e]) => receipt[e].epoch = e /\ Carried(receipt[e])
      /\ \A r \in mislaid : Carried(r)
  BY <1>2 DEF ReceiptInv, Whole
<1>b. ~Whole(Absent) /\ ~Whole(Torn)
  BY DEF Whole
<1>5. CASE UNCHANGED <<receipt, mislaid, stamps>>
  BY <1>5, <1>a
<1>6. CASE Stamps
  <2>1. PICK e \in Epoch : /\ receipt[e] = Absent /\ mislaid' = mislaid
                           /\ receipt' = [receipt EXCEPT ![e] =
                                [epoch |-> e, root |-> RootFor(e), stamp |-> stamps[e] + 1,
                                 bitcoin |-> FALSE]]
    BY <1>6, WorkerFields DEF Stamps, Performs, TypeOK
  <2>2. receipt'[e].epoch = e /\ Carried(receipt'[e])
    BY <1>4, <2>1 DEF Carried
  <2>3. \A f \in Epoch : f # e => receipt'[f] = receipt[f]
    BY <1>4, <2>1
  <2> QED
    BY <1>a, <1>b, <2>1, <2>2, <2>3
<1>7. CASE StampFails
  <2>1. PICK e \in Epoch : /\ receipt[e] = Absent /\ mislaid' = mislaid
                           /\ receipt' \in {receipt, [receipt EXCEPT ![e] = Torn]}
    BY <1>7, WorkerFields DEF StampFails, Performs, TypeOK
  <2>2. ~Whole(receipt'[e]) /\ \A f \in Epoch : f # e => receipt'[f] = receipt[f]
    BY <1>4, <1>b, <2>1
  <2> QED
    BY <1>a, <1>b, <2>1, <2>2
<1>8. CASE Upgrade(TRUE) \/ Upgrade(FALSE)
  <2>1. PICK e \in Epoch, carries \in BOOLEAN :
          /\ receipt[e] \in Receipt /\ mislaid' = mislaid
          /\ receipt[e].bitcoin => carries
          /\ carries => receipt[e].bitcoin \/ <<e, receipt[e].stamp>> \in confirmed
          /\ receipt' = [receipt EXCEPT ![e].bitcoin = carries]
    BY <1>8, UpgradesOne
  <2>2. receipt[e] \in Receipt /\ receipt[e].epoch = e /\ Carried(receipt[e])
    BY <1>a, <2>1, ReceiptAssumption DEF Whole
  <2>3. /\ receipt'[e].epoch = e /\ receipt'[e].stamp = receipt[e].stamp
        /\ receipt'[e].bitcoin = carries
        /\ receipt[e].bitcoin = TRUE => receipt'[e] = receipt[e]
    BY <1>4, <2>1, <2>2 DEF Receipt
  <2>4. Carried(receipt'[e])
    BY <2>1, <2>2, <2>3, ConfirmedGrows DEF Carried
  <2>5. \A f \in Epoch : f # e => receipt'[f] = receipt[f]
    BY <1>4, <2>1
  <2>6. receipt[e].bitcoin => receipt'[e] = receipt[e]
    BY <2>2, <2>3 DEF Receipt
  <2> QED
    BY <1>a, <2>1, <2>3, <2>4, <2>5, <2>6
<1>9. ASSUME NEW e \in Epoch, LoseReceipt(e)
      PROVE  /\ \A f \in Epoch : Whole(receipt'[f]) => receipt'[f].epoch = f /\ Carried(receipt'[f])
             /\ \A r \in mislaid' : Carried(r)
             /\ \A f \in Epoch, d \in Receipt :
                  d = receipt[f] \/ d \in mislaid => d = receipt'[f] \/ d \in mislaid'
  <2>1. /\ Whole(receipt[e]) /\ mislaid' = mislaid \cup {receipt[e]}
        /\ receipt' = [receipt EXCEPT ![e] = Absent]
    BY <1>9 DEF LoseReceipt, Whole
  <2>2. receipt'[e] = Absent /\ \A f \in Epoch : f # e => receipt'[f] = receipt[f]
    BY <1>4, <2>1
  <2> QED
    BY <1>a, <1>b, <2>1, <2>2
<1>10. ASSUME NEW r \in mislaid, RestoreReceipt(r)
      PROVE  /\ \A f \in Epoch : Whole(receipt'[f]) => receipt'[f].epoch = f /\ Carried(receipt'[f])
             /\ \A q \in mislaid' : Carried(q)
             /\ \A f \in Epoch, d \in Receipt :
                  /\ Whole(d) /\ d.epoch = f
                  /\ d = receipt[f] \/ d \in mislaid
                  => d = receipt'[f] \/ d \in mislaid'
  <2>1. /\ r.epoch \in Epoch /\ receipt[r.epoch] = Absent
        /\ receipt' = [receipt EXCEPT ![r.epoch] = r]
        /\ mislaid' = mislaid \ {r}
    BY <1>4, <1>10 DEF RestoreReceipt
  <2>2. receipt'[r.epoch] = r /\ \A f \in Epoch : f # r.epoch => receipt'[f] = receipt[f]
    BY <1>4, <2>1
  <2> QED
    BY <1>a, <1>b, <2>1, <2>2
<1> QED
  BY <1>5, <1>6, <1>7, <1>8, <1>9, <1>10, ReceiptKinds

\* Faults are only ever spent.
LEMMA FaultsGrow ==
  ASSUME TypeOK, [Next]_vars
  PROVE  faults \in Nat /\ faults' \in 0 .. MaxFaults /\ faults' \in {faults, faults + 1}
<1>1. faults \in 0 .. MaxFaults /\ MaxFaults \in Nat
  BY AnchorCycleAssumption DEF TypeOK
<1>2. faults' = faults \/ Fault
  BY DEF Next, WorkerStep, WorkerFault, vars, world, files, chain, BeginRun, OpenFile, WriteFile,
       RunCrashes, ObserveOk, Wake, Restart, RootForFails, OperatorStarts, ObserveFails,
       WorkerCrashes, BeginPublish, PublishLands, PublishSettles, PublishRefused, SubmitFindsReceipt,
       Stamps, StampFails, AttachFindsNoReceipt, UpgradeFails, Upgrade, AttachRefused, AttachLands,
       AttachAlreadyDone, PublishUnanswered, PublishReadBackFails, AttachReadFails,
       AttachUnanswered, Lands, Expires,
       BitcoinConfirms, LoseReceipt, RestoreReceipt, Tick
<1> QED
  BY <1>1, <1>2 DEF Fault

\* The receipt of a new stamp is one of the explored ones.
LEMMA StampedIsReceipt ==
  ASSUME TypeOK, StampInv, NEW e \in Epoch, Verifies(handoff[e]), receipt[e] = Absent
  PROVE  /\ stamps[e] \in Nat /\ stamps[e] <= faults /\ stamps[e] + 1 \in 1 .. MaxStamps
         /\ [epoch |-> e, root |-> RootFor(e), stamp |-> stamps[e] + 1, bitcoin |-> FALSE] \in Receipt
<1>1. stamps[e] \in Nat /\ faults \in 0 .. MaxFaults /\ MaxFaults \in Nat
  BY AnchorCycleAssumption DEF TypeOK, MaxStamps
<1>2. stamps[e] <= faults
  BY DEF StampInv
<1>3. stamps[e] + 1 \in 1 .. MaxStamps
  BY <1>1, <1>2 DEF MaxStamps
<1>4. RootFor(e) \in Root
  BY DEF TypeOK, Verifies, RootFor
<1> QED
  BY <1>1, <1>2, <1>3, <1>4 DEF Receipt

\* A second stamp of an epoch follows the loss of its first receipt.
LEMMA StampStep ==
  ASSUME TypeOK, StampInv, [Next]_vars
  PROVE  StampInv'
<1>1. /\ faults \in Nat /\ faults' \in Nat /\ faults' >= faults
      /\ receipt \in [Epoch -> Receipt \cup {Absent, Torn}]
      /\ \A e \in Epoch : stamps[e] \in Nat
      /\ \A r \in mislaid : r.epoch \in Epoch /\ r # Absent
      /\ Torn # Absent
  BY FaultsGrow, HandoffAssumption, ReceiptAssumption DEF TypeOK, Receipt
<1>2. CASE UNCHANGED <<receipt, mislaid, stamps>>
  BY <1>1, <1>2 DEF StampInv
<1>3. CASE Stamps
  <2>1. PICK e \in Epoch :
          /\ receipt[e] = Absent /\ Verifies(handoff[e])
          /\ stamps' = [stamps EXCEPT ![e] = @ + 1]
          /\ receipt' = [receipt EXCEPT ![e] =
               [epoch |-> e, root |-> RootFor(e), stamp |-> stamps[e] + 1, bitcoin |-> FALSE]]
    BY <1>3, WorkerFields DEF Stamps, Performs, TypeOK
  <2>2. /\ receipt'[e] # Absent
        /\ \A f \in Epoch : f # e => receipt'[f] = receipt[f] /\ stamps'[f] = stamps[f]
    BY <1>1, <2>1, StampedIsReceipt, ReceiptAssumption DEF TypeOK
  <2>3. stamps'[e] = stamps[e] + 1 /\ stamps[e] <= faults
    BY <2>1, StampedIsReceipt DEF TypeOK
  <2> QED
    BY <1>1, <2>2, <2>3 DEF StampInv
<1>4. CASE StampFails
  <2>1. PICK e \in Epoch : /\ receipt[e] = Absent /\ stamps' = stamps
                           /\ receipt' \in {receipt, [receipt EXCEPT ![e] = Torn]}
    BY <1>4, WorkerFields DEF StampFails, Performs, TypeOK, world
  <2>2. \A f \in Epoch : receipt'[f] = Absent => receipt[f] = Absent
    BY <1>1, <2>1
  <2> QED
    BY <1>1, <2>1, <2>2 DEF StampInv
<1>5. CASE Upgrade(TRUE) \/ Upgrade(FALSE)
  <2>1. PICK e \in Epoch, carries \in BOOLEAN :
          /\ receipt[e] \in Receipt /\ stamps' = stamps
          /\ receipt' = [receipt EXCEPT ![e].bitcoin = carries]
    BY <1>1, <1>5, UpgradesOne
  <2>2. [receipt[e] EXCEPT !.bitcoin = carries] \in Receipt
    BY <2>1 DEF Receipt
  <2>3. receipt'[e] # Absent /\ \A f \in Epoch : f # e => receipt'[f] = receipt[f]
    BY <1>1, <2>1, <2>2, ReceiptAssumption
  <2> QED
    BY <1>1, <2>1, <2>3 DEF StampInv
<1>6. ASSUME NEW e \in Epoch, LoseReceipt(e) PROVE StampInv'
  <2>1. /\ receipt' = [receipt EXCEPT ![e] = Absent] /\ stamps' = stamps
        /\ faults' = faults + 1
    BY <1>6 DEF LoseReceipt, Fault, world
  <2> QED
    BY <1>1, <2>1 DEF StampInv
<1>7. ASSUME NEW r \in mislaid, RestoreReceipt(r) PROVE StampInv'
  <2>1. receipt' = [receipt EXCEPT ![r.epoch] = r] /\ stamps' = stamps
    BY <1>7 DEF RestoreReceipt, world
  <2> QED
    BY <1>1, <2>1 DEF StampInv
<1> QED
  BY <1>2, <1>3, <1>4, <1>5, <1>6, <1>7, ReceiptKinds

----------------------------------------------------------------------------
(* Type correctness, part by part. *)

\* The accounts stay well-formed.
LEMMA ChainType == ASSUME TypeOK, LogInv, [Next]_vars PROVE Program!TypeOK'
<1>1. /\ clock \in 0 .. MaxClock /\ skew \in Nat /\ MaxClock \in Nat
      /\ checkpoints \subseteq Program!CheckpointAccount
      /\ config \in Program!LogConfig /\ funded \subseteq Nat \X {Canonical}
  BY AnchorCycleAssumption DEF TypeOK, Program!TypeOK, LogInv
<1>2. CASE ChainQuiet
  <2>1. clock' \in 0 .. MaxClock
    BY <1>1, <1>2 DEF ChainQuiet, Now
  <2> QED
    BY <1>1, <1>2, <2>1 DEF ChainQuiet, Program!TypeOK
<1>3. ASSUME NEW e \in Epoch, NEW root \in Root, Publishes(e, root) PROVE Program!TypeOK'
  BY <1>1, <1>3, PublishEffect DEF Publishes, Program!TypeOK
<1>4. ASSUME NEW e \in Epoch, NEW d \in Receipt, Attaches(e, d) PROVE Program!TypeOK'
  BY <1>1, <1>4, AttachEffect DEF Attaches, Program!TypeOK
<1> QED
  BY <1>2, <1>3, <1>4, ChainKinds

\* Only the batcher's actions touch the handoff files.
LEMMA HandoffKinds ==
  ASSUME [Next]_vars
  PROVE  \/ UNCHANGED <<handoff, runs>>
         \/ \E e \in Epoch, root \in Root : BeginRun(e, root)
         \/ \E r \in runs : OpenFile(r) \/ WriteFile(r) \/ RunCrashes(r)
  BY DEF Next, WorkerStep, WorkerFault, vars, world, files, chain,
       ObserveOk, Wake, Restart, RootForFails, OperatorStarts, ObserveFails,
       WorkerCrashes, BeginPublish, PublishLands, PublishSettles, PublishRefused, SubmitFindsReceipt,
       Stamps, StampFails, AttachFindsNoReceipt, UpgradeFails, Upgrade, AttachRefused, AttachLands,
       AttachAlreadyDone, PublishUnanswered, PublishReadBackFails, AttachReadFails,
       AttachUnanswered, Lands, Expires,
       BitcoinConfirms, LoseReceipt, RestoreReceipt, Tick

HandoffTypeOK ==
  /\ handoff \in [Epoch -> Root \cup {Absent, Torn}]
  /\ runs \subseteq [epoch : Epoch, root : Root, opened : BOOLEAN]
  /\ IsFiniteSet(runs) /\ Cardinality(runs) <= ConcurrentRuns

\* The handoff files stay well-formed, and their writers within their number.
LEMMA HandoffType == ASSUME TypeOK, [Next]_vars PROVE HandoffTypeOK'
<1>1. HandoffTypeOK /\ ConcurrentRuns \in Nat /\ Cardinality(runs) \in Nat
  BY AnchorCycleAssumption, FS_CardinalityType DEF TypeOK, HandoffTypeOK
<1>2. CASE UNCHANGED <<handoff, runs>>
  BY <1>1, <1>2 DEF HandoffTypeOK
<1>a. ASSUME NEW S, NEW x, IsFiniteSet(S)
      PROVE  /\ IsFiniteSet(S \cup {x}) /\ IsFiniteSet(S \ {x})
             /\ Cardinality(S) \in Nat
             /\ Cardinality(S \cup {x}) <= Cardinality(S) + 1
             /\ Cardinality(S \cup {x}) \in Nat
             /\ x \in S => Cardinality(S \ {x}) = Cardinality(S) - 1
  BY <1>a, FS_AddElement, FS_RemoveElement, FS_CardinalityType
<1>3. ASSUME NEW e \in Epoch, NEW root \in Root, BeginRun(e, root) PROVE HandoffTypeOK'
  <2> DEFINE new == [epoch |-> e, root |-> root, opened |-> FALSE]
  <2>1. /\ Cardinality(runs) < ConcurrentRuns /\ handoff' = handoff
        /\ runs' = runs \cup {new}
    BY <1>3 DEF BeginRun
  <2>2. new \in [epoch : Epoch, root : Root, opened : BOOLEAN]
    OBVIOUS
  <2> HIDE DEF new
  <2>3. IsFiniteSet(runs') /\ Cardinality(runs') <= ConcurrentRuns
    <3>1. IsFiniteSet(runs) /\ Cardinality(runs) \in Nat
      BY <1>1 DEF HandoffTypeOK
    <3>2. /\ IsFiniteSet(runs \cup {new}) /\ Cardinality(runs \cup {new}) \in Nat
          /\ Cardinality(runs \cup {new}) <= Cardinality(runs) + 1
      BY <1>a, <3>1
    <3>3. Cardinality(runs \cup {new}) <= ConcurrentRuns
      BY <1>1, <2>1, <3>1, <3>2
    <3> QED
      BY <2>1, <3>2, <3>3, Zenon
  <2> QED
    BY <1>1, <2>1, <2>2, <2>3 DEF HandoffTypeOK
<1>4. ASSUME NEW r \in runs
      PROVE  /\ r.epoch \in Epoch /\ r.root \in Root
             /\ IsFiniteSet(runs \ {r}) /\ Cardinality(runs \ {r}) = Cardinality(runs) - 1
  BY <1>1, <1>a DEF HandoffTypeOK
<1>5. ASSUME NEW r \in runs, OpenFile(r) PROVE HandoffTypeOK'
  <2> DEFINE new == [r EXCEPT !.opened = TRUE]
  <2>1. /\ handoff' = [handoff EXCEPT ![r.epoch] = Torn]
        /\ runs' = (runs \ {r}) \cup {new}
    BY <1>5 DEF OpenFile
  <2>2. new \in [epoch : Epoch, root : Root, opened : BOOLEAN]
    BY <1>1 DEF HandoffTypeOK
  <2> HIDE DEF new
  <2>3. IsFiniteSet(runs') /\ Cardinality(runs') <= ConcurrentRuns
    <3> DEFINE rest == runs \ {r}
    <3>1. /\ IsFiniteSet(rest) /\ Cardinality(rest) = Cardinality(runs) - 1
          /\ Cardinality(runs) <= ConcurrentRuns
      BY <1>1, <1>4 DEF HandoffTypeOK
    <3> HIDE DEF rest
    <3>2. /\ IsFiniteSet(rest \cup {new}) /\ Cardinality(rest \cup {new}) \in Nat
          /\ Cardinality(rest \cup {new}) <= Cardinality(rest) + 1
      BY <1>a, <3>1
    <3>3. Cardinality(rest \cup {new}) <= ConcurrentRuns
      BY <1>1, <3>1, <3>2
    <3>4. runs' = rest \cup {new}
      BY <2>1 DEF rest
    <3> QED
      BY <3>2, <3>3, <3>4, Zenon
  <2>4. handoff' \in [Epoch -> Root \cup {Absent, Torn}]
    BY <1>1, <1>4, <2>1 DEF HandoffTypeOK
  <2> QED
    BY <1>1, <2>1, <2>2, <2>3, <2>4 DEF HandoffTypeOK
<1>6. ASSUME NEW r \in runs, WriteFile(r) \/ RunCrashes(r) PROVE HandoffTypeOK'
  <2>1. /\ handoff' = handoff \/ handoff' = [handoff EXCEPT ![r.epoch] = r.root]
        /\ runs' = runs \ {r}
    BY <1>6 DEF WriteFile, RunCrashes
  <2>2. handoff' \in [Epoch -> Root \cup {Absent, Torn}]
    BY <1>1, <1>4, <2>1 DEF HandoffTypeOK
  <2>3. IsFiniteSet(runs') /\ Cardinality(runs') <= ConcurrentRuns
    BY <1>1, <1>4, <2>1 DEF HandoffTypeOK
  <2> QED
    BY <1>1, <2>1, <2>2, <2>3 DEF HandoffTypeOK
<1> QED
  BY <1>2, <1>3, <1>5, <1>6, HandoffKinds

ReceiptTypeOK ==
  /\ receipt \in [Epoch -> Receipt \cup {Absent, Torn}]
  /\ mislaid \subseteq Receipt
  /\ stamps \in [Epoch -> 0 .. MaxStamps]

\* The receipts stay well-formed, and their stamps within their number.
LEMMA ReceiptType == ASSUME TypeOK, StampInv, [Next]_vars PROVE ReceiptTypeOK'
<1>1. ReceiptTypeOK /\ \A r \in Receipt : r.epoch \in Epoch
  BY DEF TypeOK, ReceiptTypeOK, Receipt
<1>2. CASE UNCHANGED <<receipt, mislaid, stamps>>
  BY <1>1, <1>2 DEF ReceiptTypeOK
<1>3. CASE Stamps
  <2>1. PICK e \in Epoch :
          /\ receipt[e] = Absent /\ Verifies(handoff[e]) /\ mislaid' = mislaid
          /\ stamps' = [stamps EXCEPT ![e] = @ + 1]
          /\ receipt' = [receipt EXCEPT ![e] =
               [epoch |-> e, root |-> RootFor(e), stamp |-> stamps[e] + 1, bitcoin |-> FALSE]]
    BY <1>3, WorkerFields DEF Stamps, Performs, TypeOK
  <2>2. /\ [epoch |-> e, root |-> RootFor(e), stamp |-> stamps[e] + 1, bitcoin |-> FALSE] \in Receipt
        /\ stamps[e] + 1 \in 0 .. MaxStamps
    BY <2>1, StampedIsReceipt
  <2> QED
    BY <1>1, <2>1, <2>2 DEF ReceiptTypeOK
<1>4. CASE StampFails
  <2>1. PICK e \in Epoch : /\ UNCHANGED <<mislaid, stamps>>
                           /\ receipt' \in {receipt, [receipt EXCEPT ![e] = Torn]}
    BY <1>4, WorkerFields DEF StampFails, Performs, TypeOK, world
  <2> QED
    BY <1>1, <2>1 DEF ReceiptTypeOK
<1>5. CASE Upgrade(TRUE) \/ Upgrade(FALSE)
  <2>1. PICK e \in Epoch, carries \in BOOLEAN :
          /\ receipt[e] \in Receipt /\ UNCHANGED <<mislaid, stamps>>
          /\ receipt' = [receipt EXCEPT ![e].bitcoin = carries]
    BY <1>5, UpgradesOne
  <2>2. [receipt[e] EXCEPT !.bitcoin = carries] \in Receipt
    BY <2>1 DEF Receipt
  <2> QED
    BY <1>1, <2>1, <2>2 DEF ReceiptTypeOK
<1>6. ASSUME NEW e \in Epoch, LoseReceipt(e) PROVE ReceiptTypeOK'
  <2>1. /\ receipt[e] \in Receipt /\ stamps' = stamps
        /\ receipt' = [receipt EXCEPT ![e] = Absent] /\ mislaid' = mislaid \cup {receipt[e]}
    BY <1>1, <1>6 DEF LoseReceipt, world, ReceiptTypeOK
  <2> QED
    BY <1>1, <2>1 DEF ReceiptTypeOK
<1>7. ASSUME NEW r \in mislaid, RestoreReceipt(r) PROVE ReceiptTypeOK'
  <2>1. /\ r \in Receipt /\ r.epoch \in Epoch /\ stamps' = stamps
        /\ receipt' = [receipt EXCEPT ![r.epoch] = r] /\ mislaid' = mislaid \ {r}
    BY <1>1, <1>7 DEF RestoreReceipt, world, ReceiptTypeOK
  <2> QED
    BY <1>1, <2>1 DEF ReceiptTypeOK
<1> QED
  BY <1>2, <1>3, <1>4, <1>5, <1>6, <1>7, ReceiptKinds

\* What is confirmed was stamped.
LEMMA ConfirmedType ==
  ASSUME TypeOK, [Next]_vars
  PROVE  confirmed' \subseteq Epoch \X (1 .. MaxStamps)
<1>1. ASSUME NEW e \in Epoch, NEW n \in 1 .. MaxStamps, BitcoinConfirms(e, n)
      PROVE  confirmed' \subseteq Epoch \X (1 .. MaxStamps)
  BY <1>1 DEF BitcoinConfirms, TypeOK
<1>2. CASE ~(\E e \in Epoch, n \in 1 .. MaxStamps : BitcoinConfirms(e, n))
  <2>1. confirmed' = confirmed
    BY <1>2 DEF Next, WorkerStep, WorkerFault, vars, world, files, chain, BeginRun, OpenFile,
       WriteFile, RunCrashes, ObserveOk, Wake, Restart, RootForFails, OperatorStarts, ObserveFails,
       WorkerCrashes, BeginPublish, PublishLands, PublishSettles, PublishRefused, SubmitFindsReceipt,
       Stamps, StampFails, AttachFindsNoReceipt, UpgradeFails, Upgrade, AttachRefused, AttachLands,
       AttachAlreadyDone, PublishUnanswered, PublishReadBackFails, AttachReadFails,
       AttachUnanswered, Lands, Expires,
       LoseReceipt, RestoreReceipt, Tick
  <2> QED
    BY <2>1 DEF TypeOK
<1> QED
  BY <1>1, <1>2

\* What is sent is a transaction.
LEMMA TransactionType == ASSUME TypeOK, [Next]_vars PROVE inflight' \subseteq Transaction
<1>1. inflight \subseteq Transaction
  BY DEF TypeOK
<1>2. CASE ObserveOk \/ BeginPublish
  BY <1>1, <1>2 DEF ObserveOk, BeginPublish, world
<1>3. CASE PublishUnanswered
  <2>1. worker.epoch \in Epoch /\ worker.root \in Root
    BY <1>3, WorkerFields DEF PublishUnanswered, TypeOK
  <2>2. [kind |-> "publish", epoch |-> worker.epoch, root |-> worker.root] \in Transaction
    BY <2>1 DEF Transaction
  <2> QED
    BY <1>1, <1>3, <2>2 DEF PublishUnanswered
<1>4. CASE AttachUnanswered
  <2>1. worker.epoch \in Epoch /\ receipt[worker.epoch] \in Receipt
    BY <1>4, WorkerFields, AcceptedIsReceipt DEF AttachUnanswered, TypeOK
  <2>2. [kind |-> "attach", epoch |-> worker.epoch, digest |-> receipt[worker.epoch]] \in Transaction
    BY <2>1 DEF Transaction
  <2> QED
    BY <1>1, <1>4, <2>2 DEF AttachUnanswered
<1>5. CASE Leaves
  BY <1>1, <1>5 DEF Leaves
<1> QED
  BY <1>2, <1>3, <1>4, <1>5, WorkerKinds

\* Supervision::from_worker: a worker raises neither silence nor refusals
\* about itself.
LEMMA WorkersAlerts ==
  ASSUME NEW o, o.now \in Int
  PROVE  AlertsOf(o, FromWorker(o.now)) \subseteq {"PublicationMissed", "SequenceLag", "ReceiptUnconfirmed"}
<1>1. ~Holds("ProcessSilent", o, FromWorker(o.now))
  BY AlertsAssumption DEF Holds, FromWorker
<1>2. ~Holds("RepeatedRefusal", o, FromWorker(o.now))
  BY AlertsAssumption DEF Holds, FromWorker
<1> QED
  BY <1>1, <1>2 DEF AlertsOf, Alert

\* What an operator has to mend.
Mendable == {"NoHandoff", "EpochSlipExceeded", "ReceiptUnreadable", "AttachRefused",
             "BudgetExhausted", "Crashed"}

\* A worker that stops in this step does so for one of these reasons.
StopsNow ==
  worker'.pc = "exited" /\ worker' # worker =>
    \/ worker'.why \in Mendable
    \/ PublishRefused /\ worker'.why = "Refused"
    \/ PublishSettles /\ worker'.why = "Equivocation"
    \/ (PublishReadBackFails \/ AttachReadFails) /\ worker' = Unpublished(worker.epoch)

\* The worker goes from state to state of its loop.
LEMMA WorkerType ==
  ASSUME TypeOK, LogInv, PublishingInv, [Next]_vars
  PROVE  worker' \in WorkerState /\ StopsNow
<1>0. /\ worker \in WorkerState /\ Asleep \in WorkerState /\ Failed \in WorkerState
      /\ Observing(0) \in WorkerState /\ \A why \in Reason : Exited(why) \in WorkerState
      /\ \A e \in Epoch : Unpublished(e) \in WorkerState
      /\ Mendable \subseteq Reason /\ "Refused" \in Reason /\ "Equivocation" \in Reason
  BY Rests DEF TypeOK, Mendable, Reason
<1>a. /\ Observing(0).pc # "exited" /\ Asleep.pc # "exited" /\ Failed.pc # "exited"
      /\ \A why : Exited(why).why = why
  BY DEF Observing, Asleep, Failed, Exited
<1>b. ASSUME worker.pc \in {"observe", "perform", "send", "attach"}, worker' = RetryPartition(worker)
      PROVE  worker' \in WorkerState /\ StopsNow
  BY <1>0, <1>b, RetryRests DEF StopsNow, Mendable
<1>c. ASSUME worker' = worker PROVE worker' \in WorkerState /\ StopsNow
  BY <1>0, <1>c DEF StopsNow
<1>d. ASSUME worker' \in {Observing(0), Asleep, Failed} PROVE worker' \in WorkerState /\ StopsNow
  BY <1>0, <1>a, <1>d DEF StopsNow
<1>e. ASSUME NEW why \in Mendable, worker' = Exited(why) PROVE worker' \in WorkerState /\ StopsNow
  BY <1>0, <1>a, <1>e DEF StopsNow
<1>1. ASSUME NEW e \in Epoch, NEW root \in Root, BeginRun(e, root) PROVE worker' = worker
  BY <1>1 DEF BeginRun
<1>2. ASSUME NEW r \in runs, OpenFile(r) \/ WriteFile(r) \/ RunCrashes(r) PROVE worker' = worker
  BY <1>2 DEF OpenFile, WriteFile, RunCrashes
<1>3. CASE ObserveOk
  <2>1. PICK step : step = NextStep(Observe)
    OBVIOUS
  <2>2. worker' = CASE step.kind = "Refuse" -> Exited(step.reason)
                    [] step.kind = "Wait"   -> Asleep
                    [] OTHER                -> Perform(step)
    BY <1>3, <2>1 DEF ObserveOk
  <2>3. CASE step.kind = "Refuse"
    <3>1. step = Refuse("EpochSlipExceeded")
      BY <2>1, <2>3, Decision
    <3>2. worker' = Exited("EpochSlipExceeded")
      BY <2>2, <3>1 DEF Refuse
    <3> QED
      BY <1>e, <3>2 DEF Mendable
  <2>4. CASE step.kind = "Wait"
    BY <1>d, <2>2, <2>4
  <2>5. CASE step.kind \notin {"Refuse", "Wait"}
    <3>1. /\ worker' = Perform(step)
          /\ step \in [kind : {"Publish", "Submit", "Attach"}, epoch : Epoch]
      BY <2>1, <2>2, <2>5, Decision DEF Refuse
    <3>2. worker' \in WorkerState /\ worker'.pc = "perform"
      BY <3>1 DEF Perform, WorkerState
    <3> QED
      BY <3>2 DEF StopsNow
  <2> QED
    BY <2>3, <2>4, <2>5
<1>4. CASE Wake \/ Restart \/ OperatorStarts \/ PublishLands \/ Stamps \/ AttachLands
  BY <1>d, <1>4 DEF Wake, Restart, OperatorStarts, PublishLands, Stamps, AttachLands
<1>5. CASE RootForFails \/ WorkerCrashes \/ AttachFindsNoReceipt \/ AttachRefused
  BY <1>e, <1>5 DEF RootForFails, WorkerCrashes, AttachFindsNoReceipt, AttachRefused, Mendable
<1>6. CASE ObserveFails \/ StampFails \/ UpgradeFails \/ AttachAlreadyDone \/ AttachUnanswered
  BY <1>b, <1>6 DEF ObserveFails, StampFails, UpgradeFails, AttachAlreadyDone, AttachUnanswered,
       Performs
<1>18. CASE PublishReadBackFails \/ AttachReadFails
  <2>1. /\ worker.pc \in {"send", "attach"}
        /\ worker' = RetryPartition(worker) \/ worker' = Unpublished(worker.epoch)
    BY <1>18 DEF PublishReadBackFails, AttachReadFails
  <2>2. worker.epoch \in Epoch
    BY <1>0, <2>1, WorkerFields
  <2>3. CASE worker' = Unpublished(worker.epoch)
    BY <1>0, <1>18, <2>2, <2>3 DEF StopsNow
  <2> QED
    BY <1>b, <2>1, <2>3
<1>7. CASE SubmitFindsReceipt
  BY <1>b, <1>d, <1>7 DEF SubmitFindsReceipt, Performs
<1>8. CASE BeginPublish
  <2>1. worker.pc = "perform" /\ worker.step.epoch \in Epoch /\ worker.failures = 0
    BY <1>0, <1>8, WorkerFields DEF BeginPublish, Performs
  <2>2. RootFor(worker.step.epoch) \in Root
    BY <1>8, <2>1 DEF BeginPublish, Verifies, TypeOK, RootFor
  <2>3. PublishAttempts - 1 \in 0 .. PublishAttempts - 1
    BY AnchorCycleAssumption
  <2>4. worker' \in [pc : {"send"}, epoch : Epoch, root : Root, left : 0 .. PublishAttempts - 1,
                     failures : {0}]
    BY <1>8, <2>1, <2>2, <2>3 DEF BeginPublish
  <2> QED
    BY <2>4 DEF WorkerState, StopsNow
<1>9. CASE PublishUnanswered
  <2>1. CASE worker.left > 0
    <3>1. /\ worker = [pc |-> "send", epoch |-> worker.epoch, root |-> worker.root,
                       left |-> worker.left, failures |-> 0]
          /\ worker.epoch \in Epoch /\ worker.root \in Root /\ worker.left \in 0 .. PublishAttempts - 1
      BY <1>0, <1>9, WorkerFields DEF PublishUnanswered
    <3>2. worker.left - 1 \in 0 .. PublishAttempts - 1
      BY <2>1, <3>1, AnchorCycleAssumption
    <3>3. worker' = [pc |-> "send", epoch |-> worker.epoch, root |-> worker.root,
                     left |-> worker.left - 1, failures |-> 0]
      BY <1>9, <2>1, <3>1 DEF PublishUnanswered
    <3>4. worker' \in [pc : {"send"}, epoch : Epoch, root : Root, left : 0 .. PublishAttempts - 1,
                       failures : {0}]
      BY <3>1, <3>2, <3>3
    <3> QED
      BY <3>4 DEF WorkerState, StopsNow
  <2>2. CASE ~(worker.left > 0)
    BY <1>9, <1>b, <2>2 DEF PublishUnanswered
  <2> QED
    BY <2>1, <2>2
<1>10. CASE PublishSettles
  <2>1. worker' \in {Observing(0), Exited("Equivocation")}
    BY <1>10 DEF PublishSettles
  <2> QED
    BY <1>0, <1>10, <1>a, <2>1 DEF StopsNow
<1>11. CASE PublishRefused
  <2>1. worker' = Exited("Refused")
    BY <1>11 DEF PublishRefused
  <2> QED
    BY <1>0, <1>11, <1>a, <2>1 DEF StopsNow
<1>12. CASE Upgrade(TRUE) \/ Upgrade(FALSE)
  <2>1. worker.pc = "perform" /\ worker.step.epoch \in Epoch /\ worker.failures = 0
    BY <1>0, <1>12, WorkerFields DEF Upgrade, Performs
  <2>2. \/ worker' = Asleep
        \/ worker' = [pc |-> "attach", epoch |-> worker.step.epoch, failures |-> 0]
    BY <1>12, <2>1 DEF Upgrade
  <2>3. CASE worker' = [pc |-> "attach", epoch |-> worker.step.epoch, failures |-> 0]
    BY <2>1, <2>3 DEF WorkerState, StopsNow
  <2> QED
    BY <1>d, <2>2, <2>3
<1>13. ASSUME NEW tx \in inflight, Lands(tx) \/ Expires(tx) PROVE worker' = worker
  BY <1>13 DEF Lands, Expires
<1>14. ASSUME NEW e \in Epoch, NEW n \in 1 .. MaxStamps, BitcoinConfirms(e, n) PROVE worker' = worker
  BY <1>14 DEF BitcoinConfirms
<1>15. ASSUME NEW e \in Epoch, LoseReceipt(e) PROVE worker' = worker
  BY <1>15 DEF LoseReceipt
<1>16. ASSUME NEW r \in mislaid, RestoreReceipt(r) PROVE worker' = worker
  BY <1>16 DEF RestoreReceipt
<1>17. CASE Tick \/ UNCHANGED vars
  BY <1>c, <1>17 DEF Tick, vars
<1> QED
  BY <1>1, <1>2, <1>3, <1>4, <1>5, <1>6, <1>7, <1>8, <1>9, <1>10, <1>11, <1>12, <1>13, <1>14,
     <1>15, <1>16, <1>17, <1>18, <1>c
  DEF Next, WorkerStep, WorkerFault

UnitTypeOK ==
  /\ starts \in 0 .. StartLimitBurst
  /\ raised \subseteq {"PublicationMissed", "SequenceLag", "ReceiptUnconfirmed"}
  /\ skew \in HostSkews

\* The unit's starts stay within their limit, and the hosts' clocks as far
\* ahead as they are.
LEMMA UnitType == ASSUME TypeOK, LogInv, [Next]_vars PROVE UnitTypeOK'
<1>1. UnitTypeOK /\ StartLimitBurst \in Nat \ {0}
  BY AnchorCycleAssumption DEF TypeOK, UnitTypeOK
<1>2. skew' = skew
  BY ChainKinds DEF ChainQuiet, Publishes, Attaches
<1>3. CASE ObserveOk
  <2>1. raised' = AlertsOf(Observe, FromWorker(Observe.now)) /\ starts' = starts
    BY <1>3 DEF ObserveOk
  <2>2. Observe.now \in Int
    BY LogIsEpochs DEF Observe
  <2> QED
    BY <1>1, <1>2, <2>1, <2>2, WorkersAlerts DEF UnitTypeOK
<1>4. CASE Restart \/ OperatorStarts \/ Tick
  <2>1. raised' = raised
    BY <1>4 DEF Restart, OperatorStarts, Tick
  <2>2. starts' \in 0 .. StartLimitBurst
    <3>1. CASE Restart
      BY <1>1, <3>1 DEF Restart, UnitTypeOK
    <3>2. CASE OperatorStarts \/ Tick
      <4>1. starts' = 1 \/ starts' = 0
        BY <3>2 DEF OperatorStarts, Tick
      <4> QED
        BY <1>1, <4>1
    <3> QED
      BY <1>4, <3>1, <3>2
  <2> QED
    BY <1>1, <1>2, <2>1, <2>2 DEF UnitTypeOK
<1>5. CASE ~ObserveOk /\ ~Restart /\ ~OperatorStarts /\ ~Tick
  <2>1. UNCHANGED <<starts, raised>>
    BY <1>5 DEF Next, WorkerStep, WorkerFault, vars, unit, BeginRun, OpenFile, WriteFile,
       RunCrashes, Wake, RootForFails, ObserveFails,
       WorkerCrashes, BeginPublish, PublishLands, PublishSettles, PublishRefused, SubmitFindsReceipt,
       Stamps, StampFails, AttachFindsNoReceipt, UpgradeFails, Upgrade, AttachRefused, AttachLands,
       AttachAlreadyDone, PublishUnanswered, PublishReadBackFails, AttachReadFails,
       AttachUnanswered, Lands, Expires,
       BitcoinConfirms, LoseReceipt, RestoreReceipt
  <2> QED
    BY <1>1, <1>2, <2>1 DEF UnitTypeOK
<1> QED
  BY <1>3, <1>4, <1>5

----------------------------------------------------------------------------
(* The invariant of the cycle, with any number of batchers at work. *)

CycleInv ==
  /\ TypeOK
  /\ LogInv
  /\ NeverEarly
  /\ PublishingInv
  /\ ReceiptInv
  /\ StampInv

\* The cycle begins with an open log that is empty.
LEMMA CycleInit == Init => CycleInv
<1> SUFFICES ASSUME Init PROVE CycleInv
  OBVIOUS
<1>1. /\ StartEpoch \in Nat \ {0} /\ EpochSeconds \in Nat \ {0} /\ MaxClock \in Nat
      /\ skew \in HostSkews /\ skew \in Nat /\ MaxFaults \in Nat
      /\ PartitionRetryLimit \in Nat /\ StartLimitBurst \in Nat \ {0} /\ ConcurrentRuns \in Nat \ {0}
  BY AnchorCycleAssumption, ScheduleAssumption DEF Init
<1>2. clock \in Nat /\ clock = StartEpoch * EpochSeconds /\ clock + skew <= MaxClock
  BY <1>1, AnchorCycleAssumption DEF Init
<1>3. /\ config \in Program!LogConfig /\ config.start_epoch = StartEpoch
      /\ config.last_epoch = StartEpoch - 1 /\ StartEpoch - 1 \in Nat
  BY <1>1 DEF Init, Program!LogConfig, Program!SchemaVersion, Program!TreeHeight
<1>4. Program!TypeOK
  BY <1>1, <1>2, <1>3 DEF Init, Program!TypeOK
<1>5. faults \in 0 .. MaxFaults /\ 0 \in 0 .. MaxStamps
  BY <1>1, AnchorCycleAssumption DEF Init, MaxStamps
<1>6. worker \in WorkerState
  BY <1>1 DEF Init, Observing, WorkerState
<1>7. IsFiniteSet(runs) /\ Cardinality(runs) = 0
  BY FS_EmptySet DEF Init
<1>8. TypeOK
  BY <1>1, <1>4, <1>5, <1>6, <1>7 DEF Init, TypeOK
<1>9. LogInv
  BY <1>1, <1>2, <1>3 DEF Init, LogInv, Now, Checkpointed
<1>10. ReceiptInv
  BY DEF Init, ReceiptInv, Attaching
<1>11. PublishingInv
  BY DEF Init, PublishingInv, Publishing, Observing
<1>12. StampInv
  BY <1>5, <1>1 DEF Init, StampInv
<1> QED
  BY <1>8, <1>9, <1>10, <1>11, <1>12 DEF CycleInv, NeverEarly, Init

\* Every step keeps it.
LEMMA CycleStep == CycleInv /\ [Next]_vars => CycleInv'
<1> SUFFICES ASSUME CycleInv, [Next]_vars PROVE CycleInv'
  OBVIOUS
<1> USE DEF CycleInv
<1>1. TypeOK'
  BY ChainType, HandoffType, ReceiptType, ConfirmedType, TransactionType, WorkerType, UnitType,
     FaultsGrow
  DEF TypeOK, HandoffTypeOK, ReceiptTypeOK, UnitTypeOK
<1> QED
  BY <1>1, LogStep, PublishingStep, ReceiptStep, StampStep

\* The invariant holds throughout.
THEOREM CycleInvariant == Spec => []CycleInv
BY CycleInit, CycleStep, PTL DEF Spec

\* The chain, the files and the worker hold values of their types; the worker
\* acts on epochs the calendar has reached, and raises only the alerts a
\* worker can raise about itself (H-95).
THEOREM CycleTypeCorrect == Spec => []TypeOK
BY CycleInvariant, PTL DEF CycleInv

\* INV-ANCH-01, D-83: however long a decision or a transaction is delayed, no
\* checkpoint is written before its publication time by the host's clock, nor
\* before its day by the chain's.
THEOREM NothingIsEarly == Spec => []NeverEarly
BY CycleInvariant, PTL DEF CycleInv

\* A checkpoint waits for its receipt only while it is the last one: the
\* premise of Step::Submit, through late transactions, lost receipts and
\* second stamps.
THEOREM AtMostOneSingle == Spec => []OnlyTheLastIsSingle
<1>1. CycleInv => OnlyTheLastIsSingle
  BY ObservedSingles DEF CycleInv, OnlyTheLastIsSingle
<1> QED
  BY <1>1, CycleInvariant, PTL

\* D-112: the receipt an epoch carries is Bitcoin's, over the root on chain.
THEOREM ReceiptsAreBitcoins == Spec => []AttachedIsBitcoins
<1>1. CycleInv => AttachedIsBitcoins
  <2> SUFFICES ASSUME CycleInv, NEW c \in checkpoints, c.receipt_digest # NoDigest
               PROVE  /\ c.receipt_digest.root = c.root
                      /\ c.receipt_digest.bitcoin
                      /\ <<c.epoch, c.receipt_digest.stamp>> \in confirmed
    BY DEF AttachedIsBitcoins
  <2>1. c.epoch \in Epoch /\ c.receipt_digest \in Receipt
    BY LogIsEpochs DEF CycleInv, TypeOK, Program!TypeOK, Program!CheckpointAccount, Digest
  <2>2. Attachable(c.epoch, c.receipt_digest)
    BY <2>1 DEF CycleInv, ReceiptInv, Attaching
  <2>3. PICK d \in checkpoints : d.epoch = c.epoch /\ d.root = c.receipt_digest.root
    BY <2>2 DEF Attachable
  <2>4. d = c
    BY <2>3 DEF CycleInv, LogInv
  <2> QED
    BY <2>2, <2>3, <2>4 DEF Attachable, Genuine
<1> QED
  BY <1>1, CycleInvariant, PTL

\* Only a successful observation is a look.
LEMMA LooksByObserving ==
  ASSUME TypeOK, [Next]_vars, Looks
  PROVE  ObserveOk
<1>1. worker.pc = "observe" /\ worker'.pc # "observe"
      /\ (worker'.pc = "exited" => worker'.why = "EpochSlipExceeded")
      /\ worker'.pc \in {"asleep", "perform", "exited"}
  BY DEF Looks
<1>2. ~ObserveFails
  <2>1. ASSUME ObserveFails PROVE worker' = RetryPartition(worker)
    BY <2>1 DEF ObserveFails
  <2>2. worker \in WorkerState
    BY DEF TypeOK
  <2> QED
    BY <1>1, <2>1, <2>2, RetryRests
<1>3. ~WorkerCrashes
  BY <1>1 DEF WorkerCrashes, Exited
<1>4. worker' # worker
  BY <1>1
<1>5. ~OperatorStarts /\ ~Wake /\ ~Restart /\ ~RootForFails
  BY <1>1 DEF OperatorStarts, Wake, Restart, RootForFails, Failed
<1>6. /\ ~BeginPublish /\ ~PublishLands /\ ~PublishSettles /\ ~PublishRefused
      /\ ~PublishUnanswered /\ ~PublishReadBackFails
  BY <1>1 DEF Performs, BeginPublish, PublishLands, PublishSettles, PublishRefused,
       PublishUnanswered, PublishReadBackFails
<1>7. /\ ~SubmitFindsReceipt /\ ~Stamps /\ ~StampFails /\ ~AttachFindsNoReceipt /\ ~UpgradeFails
      /\ ~Upgrade(TRUE) /\ ~Upgrade(FALSE)
  BY <1>1 DEF Performs, SubmitFindsReceipt, Stamps, StampFails, AttachFindsNoReceipt,
       UpgradeFails, Upgrade
<1>8. ~AttachRefused /\ ~AttachLands /\ ~AttachAlreadyDone /\ ~AttachReadFails /\ ~AttachUnanswered
  BY <1>1 DEF AttachRefused, AttachLands, AttachAlreadyDone, AttachReadFails, AttachUnanswered
<1>9. ~Tick /\ ~UNCHANGED vars
  BY <1>4 DEF Tick, vars
<1>10. \A r : ~OpenFile(r) /\ ~WriteFile(r) /\ ~RunCrashes(r) /\ ~RestoreReceipt(r)
  BY <1>4 DEF OpenFile, WriteFile, RunCrashes, RestoreReceipt
<1>11. \A e, root : ~BeginRun(e, root) /\ ~BitcoinConfirms(e, root) /\ ~LoseReceipt(e)
  BY <1>4 DEF BeginRun, BitcoinConfirms, LoseReceipt
<1>12. \A tx : ~Lands(tx) /\ ~Expires(tx)
  BY <1>4 DEF Lands, Expires
<1> QED
  BY <1>2, <1>3, <1>5, <1>6, <1>7, <1>8, <1>9, <1>10, <1>11, <1>12
  DEF Next, WorkerStep, WorkerFault

\* alert.rs, H-90, H-108: a look raises what is overdue and what has waited
\* too long; and, where the slip allowance is longer than the graces together
\* (Thresholds::DEPLOYED and WorkerPolicy::DEPLOYED: two hours and one hour
\* against a day, a lag of one against a slip of one), a worker that gives up
\* a backlog has said so.
THEOREM NoLookIsSilent ==
  ASSUME PublicationGrace + PublishOffset < MaxEpochSlip * EpochSeconds,
         SequenceLagLimit <= MaxEpochSlip
  PROVE  Spec => OperatorIsTold
<1> DEFINE Told == Looks =>
       /\ Overdue(config.last_epoch + 1) => "PublicationMissed" \in raised'
       /\ \A e \in Epoch : Single(e) /\ OverBudget(e) => "ReceiptUnconfirmed" \in raised'
       /\ worker'.pc = "exited" => {"PublicationMissed", "SequenceLag"} \subseteq raised'
<1>1. CycleInv /\ [Next]_vars => Told
  <2> SUFFICES ASSUME CycleInv, [Next]_vars, Looks
               PROVE  /\ Overdue(config.last_epoch + 1) => "PublicationMissed" \in raised'
                      /\ \A e \in Epoch :
                           Single(e) /\ OverBudget(e) => "ReceiptUnconfirmed" \in raised'
                      /\ worker'.pc = "exited" =>
                           {"PublicationMissed", "SequenceLag"} \subseteq raised'
    OBVIOUS
  <2> USE DEF CycleInv
  <2> DEFINE o == Observe
             last == config.last_epoch
  <2>1. ObserveOk
    BY LooksByObserving
  <2>2. /\ o.now = Now /\ o.last_epoch = last /\ last \in Nat /\ Now \in Nat
        /\ StartEpoch \in Nat \ {0} /\ StartEpoch <= DayIndex(Now) /\ DayIndex(Now) \in Int
    BY LogIsEpochs, DayBegins DEF Observe
  <2>3. NewestPublishable(o) = DayIndex(Now) - 1 /\ ~(NewestPublishable(o) < 0)
    BY <2>2 DEF NewestPublishable
  <2>4. raised' = AlertsOf(o, FromWorker(o.now))
    BY <2>1 DEF ObserveOk
  <2>5. \A a \in Alert : Holds(a, o, FromWorker(o.now)) => a \in raised'
    BY <2>3, <2>4 DEF AlertsOf
  <2>6. PublicationTime(last + 1) \in Int /\ PublicationGrace \in Nat
    BY <2>2, DueAfterItsDay, AlertsAssumption
  <2>7. ASSUME Overdue(last + 1) PROVE "PublicationMissed" \in raised'
    <3>1. Now - PublicationTime(last + 1) > PublicationGrace
      BY <2>7 DEF Overdue
    <3>2. last + 2 <= DayIndex(Now)
      <4>1. PublicationTime(last + 1) <= Now
        BY <2>2, <2>6, <3>1
      <4>2. (last + 1) + 1 <= DayIndex(Now)
        BY <2>2, <4>1, DueAfterItsDay
      <4> QED
        BY <2>2, <4>2
    <3>3. last + 1 <= NewestPublishable(o)
      BY <2>2, <2>3, <3>2
    <3> HIDE DEF o, last
    <3>4. Holds("PublicationMissed", o, FromWorker(o.now))
      BY <2>2, <3>1, <3>3 DEF Holds
    <3> QED
      BY <2>5, <3>4 DEF Alert
  <2>8. ASSUME NEW e \in Epoch, Single(e), OverBudget(e) PROVE "ReceiptUnconfirmed" \in raised'
    <3>1. e = last /\ last \in Epoch
      BY <2>8, ObservedSingles
    <3>2. last \in Singles
      <4>1. PICK c \in checkpoints : c.epoch = last
        BY <2>8, <3>1 DEF Single, Checkpointed
      <4>2. last \in StartEpoch .. last
        BY <4>1 DEF LogInv
      <4> QED
        BY <2>8, <3>1, <4>2, LogIsEpochs DEF Singles
    <3>3. o.oldest_single = last
      BY <3>2, ObservedSingles
    <3>4. o.now - PublicationTime(o.oldest_single) > ReceiptBudget
      BY <2>2, <2>8, <3>1, <3>3 DEF OverBudget
    <3>5. o.oldest_single # None
      BY <2>2, <3>3 DEF None
    <3> HIDE DEF o, last
    <3>6. Holds("ReceiptUnconfirmed", o, FromWorker(o.now))
      BY <3>4, <3>5 DEF Holds
    <3> QED
      BY <2>5, <3>6 DEF Alert
  <2>9. ASSUME worker'.pc = "exited" PROVE Overdue(last + 1) /\ "SequenceLag" \in raised'
    <3>1. PICK step : step = NextStep(o)
      OBVIOUS
    <3>2. worker' = CASE step.kind = "Refuse" -> Exited(step.reason)
                      [] step.kind = "Wait"   -> Asleep
                      [] OTHER                -> Perform(step)
      BY <2>1, <3>1 DEF ObserveOk
    <3>3. step.kind = "Refuse"
      BY <2>9, <3>2 DEF Asleep, Perform
    <3>4. DayIndex(Now) > (last + 1) + MaxEpochSlip
      BY <3>1, <3>3, Decision DEF LastPublishableDay
    <3>5. last + 2 + MaxEpochSlip <= DayIndex(Now)
      BY <2>2, <3>4, WorkerAssumption
    <3>6. (last + 2 + MaxEpochSlip) * EpochSeconds <= Now
      BY <2>2, <3>5, DayBegins, WorkerAssumption
    <3>7. (last + 2 + MaxEpochSlip) * EpochSeconds
            = (last + 2) * EpochSeconds + MaxEpochSlip * EpochSeconds
      BY <2>2, WorkerAssumption, ScheduleAssumption
    <3>8. PublicationTime(last + 1) = (last + 2) * EpochSeconds + PublishOffset
      BY <2>2, ScheduleAssumption DEF PublicationTime
    <3>9. (last + 2) * EpochSeconds \in Int /\ MaxEpochSlip * EpochSeconds \in Int
      BY <2>2, WorkerAssumption, ScheduleAssumption
    <3>10. Now - PublicationTime(last + 1) > PublicationGrace
      BY <2>2, <2>6, <3>6, <3>7, <3>8, <3>9, ScheduleAssumption
    <3>11. NewestPublishable(o) - last > SequenceLagLimit
      BY <2>2, <2>3, <3>5, WorkerAssumption, AlertsAssumption
    <3> HIDE DEF o, last
    <3>12. Holds("SequenceLag", o, FromWorker(o.now))
      BY <2>2, <3>11 DEF Holds
    <3> QED
      BY <2>5, <3>10, <3>12 DEF Alert, Overdue
  <2> QED
    BY <2>7, <2>8, <2>9
<1> QED
  BY <1>1, CycleInvariant, PTL DEF Spec, OperatorIsTold

\* M-08: the batcher's barriers are no looser than the worker's, so that what
\* may still be written is still published.
THEOREM NothingIsWrittenInVain == Spec => []WritableIsPublishable
<1>1. CycleInv => WritableIsPublishable
  <2> SUFFICES ASSUME CycleInv, RefuseToWrite(config.last_epoch + 1, Now, Absent, Torn) = "Ok"
               PROVE  NextStep([Observe EXCEPT !.awaiting_attach = None,
                                               !.last_submitted = config.last_epoch]).kind
                        \in {"Wait", "Publish"}
    BY DEF WritableIsPublishable
  <2> DEFINE o == [Observe EXCEPT !.awaiting_attach = None, !.last_submitted = config.last_epoch]
  <2>1. /\ o.now = Now /\ o.start_epoch = StartEpoch /\ o.last_epoch = config.last_epoch
        /\ o.awaiting_attach = None /\ o.last_submitted = config.last_epoch
        /\ config.last_epoch \in Nat /\ StartEpoch \in Nat \ {0} /\ Now \in Nat
        /\ config.last_epoch + 1 >= StartEpoch
    BY LogIsEpochs DEF Observe, CycleInv, LogInv
  <2>2. /\ DayIndex(Now) \in Int /\ StartEpoch <= DayIndex(Now)
        /\ config.last_epoch + 1 <= DayIndex(Now)
    BY <2>1, LogIsEpochs, DayBegins DEF CycleInv
  <2>3. ~(DayIndex(Now) > LastPublishableDay(config.last_epoch + 1))
    BY HandoffAssumption DEF RefuseToWrite
  <2> HIDE DEF o
  <2>4. Barrier(o) = "Ok"
    BY <2>1, <2>2 DEF Barrier, NewestPublishable
  <2>5. SubmittedThrough(o) = config.last_epoch
    BY <2>1 DEF SubmittedThrough, None
  <2>6. NextStep(o).kind \in {"Wait", "Publish"}
    BY <2>1, <2>3, <2>4, <2>5 DEF NextStep
  <2> QED
    BY <2>6 DEF o
<1> QED
  BY <1>1, CycleInvariant, PTL

----------------------------------------------------------------------------
(* The handoff, while one batcher at a time is at work. *)

\* refuse_to_write lets through a root that is there already, and otherwise
\* only an empty place.
LEMMA WritesOnceOrAgain ==
  ASSUME TypeOK, NEW e \in Epoch, NEW root \in Root,
         RefuseToWrite(e, Now, handoff[e], root) = "Ok"
  PROVE  handoff[e] = root \/ handoff[e] = Absent
  BY DEF RefuseToWrite

\* A root that is pinned stays so.
LEMMA PinnedStays ==
  ASSUME TypeOK, HandoffInv, [Next]_vars, NEW e \in Epoch, NEW root \in Root, Pinned(e, root)
  PROVE  Pinned(e, root)'
<1>1. /\ handoff \in [Epoch -> Root \cup {Absent, Torn}]
      /\ \A r \in runs : r.epoch \in Epoch /\ r.root \in Root
      /\ Torn \notin Root /\ Torn # Absent
  BY AnchorCycleAssumption, HandoffAssumption DEF TypeOK
<1>2. CASE UNCHANGED <<handoff, runs>>
  BY <1>2 DEF Pinned
<1>3. ASSUME NEW f \in Epoch, NEW new \in Root, BeginRun(f, new) PROVE Pinned(e, root)'
  <2>1. /\ handoff' = handoff
        /\ runs' = runs \cup {[epoch |-> f, root |-> new, opened |-> FALSE]}
        /\ handoff[f] = new \/ handoff[f] = Absent
    BY <1>3, WritesOnceOrAgain DEF BeginRun
  <2>2. CASE handoff[e] = root
    BY <2>1, <2>2 DEF Pinned
  <2>3. CASE handoff[e] # root
    <3>1. handoff[e] = Torn /\ f # e
      BY <1>1, <2>1, <2>3 DEF Pinned
    <3> QED
      BY <2>1, <2>3, <3>1 DEF Pinned
  <2> QED
    BY <2>2, <2>3
<1>4. ASSUME NEW r \in runs, OpenFile(r) PROVE Pinned(e, root)'
  <2> DEFINE open == [r EXCEPT !.opened = TRUE]
  <2>1. /\ handoff' = [handoff EXCEPT ![r.epoch] = Torn]
        /\ runs' = (runs \ {r}) \cup {open}
    BY <1>4 DEF OpenFile
  <2>2. open.epoch = r.epoch /\ open.root = r.root
    BY DEF TypeOK
  <2> HIDE DEF open
  <2>3. CASE r.epoch # e
    <3>1. handoff'[e] = handoff[e]
      BY <1>1, <2>1, <2>3
    <3> QED
      BY <2>1, <2>2, <2>3, <3>1 DEF Pinned
  <2>4. CASE r.epoch = e
    <3>1. r.root = root
      BY <2>4 DEF Pinned, HandoffInv
    <3>2. \A s \in runs' : s.root = root
      BY <2>1, <2>2, <3>1 DEF HandoffInv
    <3>3. handoff'[e] = Torn
      BY <1>1, <2>1, <2>4
    <3> QED
      BY <3>2, <3>3 DEF Pinned
  <2> QED
    BY <2>3, <2>4
<1>5. ASSUME NEW r \in runs, WriteFile(r) PROVE Pinned(e, root)'
  <2>1. /\ handoff' = [handoff EXCEPT ![r.epoch] = r.root]
        /\ runs' = runs \ {r} /\ handoff[r.epoch] = Torn
    BY <1>5 DEF WriteFile, HandoffInv
  <2>2. CASE r.epoch # e
    <3>1. handoff'[e] = handoff[e]
      BY <1>1, <2>1, <2>2
    <3> QED
      BY <2>1, <3>1 DEF Pinned
  <2>3. CASE r.epoch = e
    <3>1. r.root = root
      BY <1>1, <2>1, <2>3 DEF Pinned
    <3> QED
      BY <1>1, <2>1, <2>3, <3>1 DEF Pinned
  <2> QED
    BY <2>2, <2>3
<1>6. ASSUME NEW r \in runs, RunCrashes(r) PROVE Pinned(e, root)'
  BY <1>6 DEF RunCrashes, Pinned
<1> QED
  BY <1>2, <1>3, <1>4, <1>5, <1>6, HandoffKinds

\* With one batcher at a time, a root that was claimed is never replaced.
LEMMA HandoffStep ==
  ASSUME ConcurrentRuns = 1, TypeOK, LogInv, HandoffInv, [Next]_vars
  PROVE  HandoffInv'
<1>1. /\ handoff \in [Epoch -> Root \cup {Absent, Torn}]
      /\ \A r \in runs : r.epoch \in Epoch /\ r.root \in Root
      /\ Torn \notin Root /\ Absent \notin Root
  BY AnchorCycleAssumption DEF TypeOK
<1>2. /\ \A r, s \in runs' : r = s
      /\ \A r \in runs' : /\ r.opened => handoff'[r.epoch] = Torn
                          /\ handoff'[r.epoch] \in Root => r.root = handoff'[r.epoch]
  <2>1. CASE UNCHANGED <<handoff, runs>>
    BY <2>1 DEF HandoffInv
  <2>2. ASSUME NEW e \in Epoch, NEW root \in Root, BeginRun(e, root)
        PROVE  runs' = {[epoch |-> e, root |-> root, opened |-> FALSE]} /\ handoff' = handoff
               /\ (handoff[e] = root \/ handoff[e] = Absent)
    <3>1. Cardinality(runs) < 1 /\ IsFiniteSet(runs)
      BY <2>2 DEF BeginRun, TypeOK
    <3>2. Cardinality(runs) \in Nat
      BY <3>1, FS_CardinalityType
    <3>3. runs = {}
      BY <3>1, <3>2, FS_EmptySet
    <3> QED
      BY <2>2, <3>3, WritesOnceOrAgain DEF BeginRun
  <2>3. ASSUME NEW r \in runs, OpenFile(r)
        PROVE  runs' = {[r EXCEPT !.opened = TRUE]} /\ handoff' = [handoff EXCEPT ![r.epoch] = Torn]
               /\ [r EXCEPT !.opened = TRUE].epoch = r.epoch
    BY <2>3 DEF OpenFile, HandoffInv, TypeOK
  <2>4. ASSUME NEW r \in runs, WriteFile(r) \/ RunCrashes(r) PROVE runs' = {}
    BY <2>4 DEF WriteFile, RunCrashes, HandoffInv
  <2>5. ASSUME NEW e \in Epoch, NEW root \in Root, BeginRun(e, root)
        PROVE  /\ \A r, s \in runs' : r = s
               /\ \A r \in runs' : /\ r.opened => handoff'[r.epoch] = Torn
                                   /\ handoff'[r.epoch] \in Root => r.root = handoff'[r.epoch]
    <3> DEFINE new == [epoch |-> e, root |-> root, opened |-> FALSE]
    <3>1. /\ runs' = {new} /\ handoff' = handoff
          /\ handoff[e] = root \/ handoff[e] = Absent
      BY <2>2, <2>5
    <3>2. new.epoch = e /\ new.root = root /\ ~new.opened
      OBVIOUS
    <3> HIDE DEF new
    <3> QED
      BY <1>1, <3>1, <3>2
  <2>6. ASSUME NEW r \in runs, OpenFile(r)
        PROVE  \A s \in runs' : handoff'[s.epoch] = Torn
    <3>1. handoff'[r.epoch] = Torn
      BY <1>1, <2>3, <2>6
    <3> QED
      BY <2>3, <2>6, <3>1
  <2>7. ASSUME NEW r \in runs, OpenFile(r)
        PROVE  \A s, t \in runs' : s = t
    BY <2>3, <2>7
  <2> QED
    BY <1>1, <2>1, <2>4, <2>5, <2>6, <2>7, HandoffKinds
<1>3. ASSUME NEW e \in Epoch, NEW root \in Root, Claim(e, root)' PROVE Pinned(e, root)'
  <2>1. CASE Claim(e, root)
    BY <2>1, PinnedStays DEF HandoffInv
  <2>2. CASE handoff[e] = root /\ UNCHANGED <<handoff, runs>>
    BY <2>2 DEF Pinned
  <2> QED
    BY <1>3, <2>1, <2>2, ClaimKinds
<1>4. ASSUME NEW e \in Epoch, NEW a \in Root, NEW b \in Root, Claim(e, a)', Claim(e, b)' PROVE a = b
  <2>1. Claim(e, a) \/ handoff[e] = a
    BY <1>4, ClaimKinds
  <2>2. Claim(e, b) \/ handoff[e] = b
    BY <1>4, ClaimKinds
  <2> QED
    BY <1>1, <2>1, <2>2 DEF HandoffInv, Pinned
<1> QED
  BY <1>2, <1>3, <1>4 DEF HandoffInv

\* A log with nothing in it claims nothing.
LEMMA HandoffInit == Init => HandoffInv
  BY DEF Init, HandoffInv, Claim, Observing

\* The handoffs keep their promise throughout.
THEOREM HandoffsInvariant ==
  ASSUME ConcurrentRuns = 1 PROVE Spec => [](CycleInv /\ HandoffInv)
<1>1. CycleInv /\ HandoffInv /\ [Next]_vars => HandoffInv'
  BY HandoffStep DEF CycleInv
<1> QED
  BY <1>1, CycleInit, CycleStep, HandoffInit, PTL DEF Spec

\* D-139: while one run of batcher-handoff is at work at a time, what the chain
\* carries is what was handed over, through every retry, crash and late
\* transaction.
THEOREM PublishedIsHandedOff ==
  ASSUME ConcurrentRuns = 1 PROVE Spec => []PublishedAsHandedOff
<1>1. CycleInv /\ HandoffInv => PublishedAsHandedOff
  <2> SUFFICES ASSUME CycleInv, HandoffInv, NEW c \in checkpoints
               PROVE  Pinned(c.epoch, c.root)
    BY DEF PublishedAsHandedOff, Pinned
  <2>1. c.epoch \in Epoch /\ c.root \in Root
    BY LogIsEpochs DEF CycleInv, TypeOK, Program!TypeOK, Program!CheckpointAccount
  <2> QED
    BY <2>1 DEF HandoffInv, Claim
<1> QED
  BY <1>1, HandoffsInvariant, PTL

\* The runbook's "resolved when reconcile returns clean": what the chain calls
\* dual reconciles, unless a file of the epoch was torn or mislaid.
THEOREM DualIsReconciled ==
  ASSUME ConcurrentRuns = 1 PROVE Spec => []DualReconciles
<1>1. CycleInv /\ HandoffInv => DualReconciles
  <2> SUFFICES ASSUME CycleInv, HandoffInv, NEW e \in Epoch, Dual(e),
                      handoff[e] # Torn, \A r \in mislaid : r.epoch # e
               PROVE  Reconciles(e)
    BY DEF DualReconciles
  <2>1. PICK c \in checkpoints : c.epoch = e
    BY DEF Dual, Checkpointed
  <2>2. /\ CheckpointOf(e) = c /\ c.receipt_digest # NoDigest
        /\ e \in config.start_epoch .. config.last_epoch
    BY <2>1, SingleIs DEF Dual, CycleInv, LogInv
  <2>3. c.receipt_digest \in Receipt /\ c.root \in Root
    BY <2>2 DEF CycleInv, TypeOK, Program!TypeOK, Program!CheckpointAccount, Digest
  <2>4. Attachable(e, c.receipt_digest)
    BY <2>1, <2>2, <2>3 DEF CycleInv, ReceiptInv, Attaching
  <2>5. c.receipt_digest.root = c.root
    BY <2>1, <2>4 DEF Attachable, CycleInv, LogInv
  <2>6. receipt[e] = c.receipt_digest /\ c.receipt_digest \notin {Absent, Torn}
        /\ c.receipt_digest.bitcoin
    BY <2>4 DEF Attachable
  <2>7. handoff[e] = c.root
    BY <2>1, <2>3 DEF HandoffInv, Claim, Pinned
  <2>8. c.root \notin {Absent, Torn}
    BY <2>3, AnchorCycleAssumption
  <2> QED
    BY <2>1, <2>2, <2>5, <2>6, <2>7, <2>8 DEF Reconciles, Verifies, RootFor, Checkpointed
<1> QED
  BY <1>1, HandoffsInvariant, PTL

\* What the program answers the publisher of a log that is open.
LEMMA VerdictIs ==
  ASSUME TypeOK, LogInv, NEW e
  PROVE  Program!PublishVerdict(Authority, e, Canonical) =
           IF \E c \in checkpoints : c.epoch = e THEN "CheckpointAlreadyWritten"
           ELSE IF e # config.last_epoch + 1 \/ e > DayIndex(clock) THEN "EpochOutOfOrder"
           ELSE "Ok"
<1>1. config.schema_version = 1 /\ config.authority = Authority
  BY DEF LogInv, Program!LogConfig, Program!SchemaVersion
<1>2. Program!Initialized /\ config.schema_version = Program!SchemaVersion
  BY <1>1 DEF Program!Initialized, Program!NoConfig, Program!SchemaVersion
<1>3. Program!Written(e, Canonical) <=> \E c \in checkpoints : c.epoch = e
  BY DEF Program!Written, LogInv
<1>4. ~Program!CreationFails(e, Canonical) /\ Program!ChainDay = DayIndex(clock)
  BY DEF Program!CreationFails, Program!CreateAccountRefuses, Program!ChainDay, DayIndex
<1> QED
  BY <1>1, <1>2, <1>3, <1>4 DEF Program!PublishVerdict

\* The program refuses an epoch that is due by the host's clock only when
\* that clock is more than a day fast.
LEMMA RefusedByAFastClock ==
  ASSUME CycleInv, PublishRefused
  PROVE  skew > EpochSeconds + PublishOffset
<1> USE DEF CycleInv
<1> DEFINE e == worker.epoch
<1>1. worker.pc = "send" /\ e \in Epoch /\ PublishVerdict \notin {"Ok", "CheckpointAlreadyWritten"}
  BY WorkerFields DEF PublishRefused, TypeOK
<1>2. Due(e)
  BY <1>1 DEF PublishingInv, Publishing
<1>3. /\ e \in Nat /\ StartEpoch <= e /\ config.last_epoch \in Nat /\ clock \in Nat /\ skew \in Nat
      /\ EpochSeconds \in Nat \ {0} /\ PublishOffset \in Nat
  BY <1>1, EpochIsNat, LogIsEpochs, ScheduleAssumption DEF Epoch
<1> HIDE DEF e
<1>4. config.last_epoch < e
  <2>1. CASE e <= config.last_epoch
    <3>1. \E c \in checkpoints : c.epoch = e
      BY <1>3, <2>1, LogIsEpochs DEF LogInv, Checkpointed
    <3>2. PublishVerdict = "CheckpointAlreadyWritten"
      BY <3>1, VerdictIs DEF PublishVerdict, e
    <3> QED
      BY <1>1, <3>2
  <2> QED
    BY <1>3, <2>1
<1>5. e = config.last_epoch + 1
  BY <1>2, <1>3, <1>4 DEF Due
<1>6. e > DayIndex(clock)
  BY <1>1, <1>5, VerdictIs DEF PublishVerdict, e
<1>7. ~(e * EpochSeconds <= clock)
  BY <1>3, <1>6, DayBegins
<1>8. (e + 1) * EpochSeconds + PublishOffset <= clock + skew
  BY <1>2 DEF Due, PublicationTime, Now
<1>9. (e + 1) * EpochSeconds = e * EpochSeconds + EpochSeconds /\ e * EpochSeconds \in Nat
  BY <1>3
<1> QED
  BY <1>3, <1>7, <1>8, <1>9

\* What the worker attaches a receipt to is published: it saw so when it
\* decided, and a checkpoint stays.
AttachInv ==
  /\ worker.pc = "perform" /\ worker.step.kind = "Attach" => Checkpointed(worker.step.epoch)
  /\ worker.pc = "attach" => Checkpointed(worker.epoch)

\* The worker comes to an attachment by an observation or by an upgrade.
LEMMA ComesToAttach ==
  ASSUME TypeOK, [Next]_vars, worker' # worker, worker'.pc \in {"perform", "attach"}
  PROVE  ObserveOk \/ Upgrade(TRUE) \/ Upgrade(FALSE)
<1>0. /\ Observing(0).pc = "observe" /\ Asleep.pc = "asleep" /\ Failed.pc = "failed"
      /\ \A why : Exited(why).pc = "exited"
      /\ \A e : Unpublished(e).pc = "exited"
  BY DEF Observing, Asleep, Failed, Exited, Unpublished
<1>a. ~(/\ worker.pc \in {"observe", "perform", "send", "attach"}
        /\ worker' = RetryPartition(worker))
  BY RetryRests DEF TypeOK
<1>1. ~(\E e \in Epoch, root \in Root : BeginRun(e, root))
  BY DEF BeginRun
<1>2. ~(\E r \in runs : OpenFile(r) \/ WriteFile(r) \/ RunCrashes(r))
  BY DEF OpenFile, WriteFile, RunCrashes
<1>3. /\ ~Wake /\ ~Restart /\ ~RootForFails /\ ~OperatorStarts /\ ~WorkerCrashes
      /\ ~PublishLands /\ ~PublishSettles /\ ~PublishRefused /\ ~AttachRefused /\ ~AttachLands
      /\ ~AttachFindsNoReceipt /\ ~Stamps
  BY <1>0 DEF Wake, Restart, RootForFails, OperatorStarts, WorkerCrashes, PublishLands,
       PublishSettles, PublishRefused, AttachRefused, AttachLands, AttachFindsNoReceipt, Stamps
<1>4. /\ ~ObserveFails /\ ~PublishReadBackFails /\ ~AttachReadFails /\ ~StampFails
      /\ ~UpgradeFails /\ ~AttachAlreadyDone /\ ~AttachUnanswered /\ ~SubmitFindsReceipt
  BY <1>0, <1>a DEF ObserveFails, PublishReadBackFails, AttachReadFails, StampFails, UpgradeFails,
       AttachAlreadyDone, AttachUnanswered, SubmitFindsReceipt, Performs
<1>5. ~BeginPublish
  BY DEF BeginPublish
<1>6. ~PublishUnanswered
  <2>1. ASSUME PublishUnanswered, worker.left > 0 PROVE worker'.pc = "send"
    BY <2>1, WorkerFields DEF PublishUnanswered, TypeOK
  <2> QED
    BY <1>a, <2>1 DEF PublishUnanswered
<1>7. /\ ~(\E tx \in inflight : Lands(tx) \/ Expires(tx))
      /\ ~(\E e \in Epoch, n \in 1 .. MaxStamps : BitcoinConfirms(e, n))
      /\ ~(\E e \in Epoch : LoseReceipt(e)) /\ ~(\E r \in mislaid : RestoreReceipt(r))
  BY DEF Lands, Expires, BitcoinConfirms, LoseReceipt, RestoreReceipt
<1>8. ~Tick /\ ~UNCHANGED vars
  BY DEF Tick, vars
<1> QED
  BY <1>1, <1>2, <1>3, <1>4, <1>5, <1>6, <1>7, <1>8 DEF Next, WorkerStep, WorkerFault

\* A checkpoint stays.
LEMMA CheckpointedStays ==
  ASSUME TypeOK, LogInv, [Next]_vars, NEW e, Checkpointed(e)
  PROVE  Checkpointed(e)'
  BY RootStays DEF Checkpointed

\* What the worker attaches to stays published.
LEMMA AttachStep ==
  ASSUME CycleInv, AttachInv, [Next]_vars
  PROVE  AttachInv'
<1> USE DEF CycleInv
<1>1. CASE worker' = worker
  BY <1>1, CheckpointedStays DEF AttachInv, Checkpointed
<1>2. CASE worker'.pc \notin {"perform", "attach"}
  BY <1>2 DEF AttachInv
<1>3. CASE ObserveOk /\ worker'.pc = "perform"
  <2>1. PICK step : step = NextStep(Observe)
    OBVIOUS
  <2>2. worker' = Perform(step)
    BY <1>3, <2>1 DEF ObserveOk, Exited, Asleep
  <2>3. ASSUME step.kind = "Attach" PROVE Checkpointed(step.epoch)
    <3>1. step.epoch = config.last_epoch /\ config.last_epoch \in Epoch
      BY <2>1, <2>3, Decision DEF Refuse
    <3>2. config.last_epoch \in StartEpoch .. config.last_epoch
      BY <3>1, LogIsEpochs DEF Epoch
    <3> QED
      BY <3>1, <3>2 DEF LogInv
  <2>4. checkpoints' = checkpoints
    BY <1>3 DEF ObserveOk, chain
  <2> QED
    BY <2>2, <2>3, <2>4 DEF AttachInv, Perform, Checkpointed
<1>4. CASE Upgrade(TRUE) \/ Upgrade(FALSE)
  <2>1. worker.pc = "perform" /\ worker.step.kind = "Attach"
    BY <1>4 DEF Upgrade, Performs
  <2>2. \/ worker' = Asleep
        \/ worker' = [pc |-> "attach", epoch |-> worker.step.epoch, failures |-> worker.failures]
    BY <1>4 DEF Upgrade
  <2>3. checkpoints' = checkpoints
    BY <1>4 DEF Upgrade, chain
  <2> QED
    BY <2>1, <2>2, <2>3 DEF AttachInv, Checkpointed, Asleep
<1>5. ~(ObserveOk /\ worker'.pc = "attach")
  <2>1. ASSUME ObserveOk PROVE worker'.pc # "attach"
    <3>1. worker' = Asleep \/ \E x : worker' = Exited(x) \/ worker' = Perform(x)
      BY <2>1 DEF ObserveOk
    <3> QED
      BY <3>1 DEF Asleep, Exited, Perform
  <2> QED
    BY <2>1
<1> QED
  BY <1>1, <1>2, <1>3, <1>4, <1>5, ComesToAttach

\* The worker stops for what an operator has to mend, or says "not published"
\* of an epoch that is: it never sees somebody else's root, nor a state
\* next_step calls impossible, and only a clock that is more than a day fast
\* makes the program refuse it.
THEOREM WorkerStopsForCause ==
  ASSUME ConcurrentRuns = 1 PROVE Spec => []StopsForCause
<1>1. Init => StopsForCause /\ AttachInv
  BY DEF Init, StopsForCause, AttachInv, Observing
<1>2. CycleInv /\ HandoffInv /\ AttachInv /\ StopsForCause /\ [Next]_vars => StopsForCause'
  <2> SUFFICES ASSUME CycleInv, HandoffInv, AttachInv, StopsForCause, [Next]_vars,
                      worker'.pc = "exited"
               PROVE  StopsForCause'
    BY DEF StopsForCause
  <2>1. skew' = skew /\ StopsNow
    BY ChainKinds, WorkerType DEF ChainQuiet, Publishes, Attaches, CycleInv
  <2>2. CASE worker' = worker
    <3>1. Checkpointed(worker.epoch) => Checkpointed(worker.epoch)'
      BY <2>2, CheckpointedStays DEF CycleInv, Checkpointed
    <3> QED
      BY <2>1, <2>2, <3>1 DEF StopsForCause
  <2>3. CASE worker'.why \in Mendable
    BY <2>3 DEF StopsForCause, Mendable
  <2>4. CASE PublishRefused /\ worker'.why = "Refused"
    BY <2>1, <2>4, RefusedByAFastClock DEF StopsForCause
  <2>5. CASE PublishSettles
    <3> DEFINE e == worker.epoch
    <3>1. worker.pc = "send" /\ e \in Epoch /\ worker.root \in Root
      BY <2>5, WorkerFields DEF PublishSettles, CycleInv, TypeOK
    <3>2. PICK c \in checkpoints : c.epoch = e
      BY <2>5, <3>1, VerdictIs DEF PublishSettles, PublishVerdict, CycleInv
    <3>3. CheckpointOf(e) = c /\ c.root \in Root
      BY <3>2, SingleIs DEF CycleInv, TypeOK, Program!TypeOK, Program!CheckpointAccount
    <3>4. c.root = worker.root
      BY <3>1, <3>2, <3>3 DEF HandoffInv, Claim
    <3> QED
      BY <2>5, <3>3, <3>4 DEF PublishSettles, Observing
  <2>6. CASE (PublishReadBackFails \/ AttachReadFails) /\ worker' = Unpublished(worker.epoch)
    <3> DEFINE e == worker.epoch
    <3>1. worker.pc \in {"send", "attach"} /\ e \in Epoch /\ (worker.pc = "send" => worker.root \in Root)
      BY <2>6, WorkerFields DEF PublishReadBackFails, AttachReadFails, CycleInv, TypeOK
    <3>2. \E c \in checkpoints' : c.epoch = e
      <4>1. CASE AttachReadFails
        BY <4>1 DEF AttachReadFails, AttachInv, Checkpointed, chain
      <4>2. CASE PublishReadBackFails /\ Program!Publish(Authority, e, worker.root, Canonical)
        BY <3>1, <4>2, PublishEffect DEF PublishReadBackFails, CycleInv
      <4>3. CASE /\ PublishReadBackFails /\ UNCHANGED chain
                 /\ PublishVerdict = "CheckpointAlreadyWritten"
        <5>1. \E c \in checkpoints : c.epoch = e
          BY <4>3, VerdictIs DEF PublishVerdict, CycleInv
        <5> QED
          BY <4>3, <5>1 DEF chain
      <4> QED
        BY <2>6, <4>1, <4>2, <4>3 DEF PublishReadBackFails
    <3> QED
      BY <2>6, <3>2 DEF StopsForCause, Unpublished, Checkpointed
  <2> QED
    BY <2>1, <2>2, <2>3, <2>4, <2>5, <2>6 DEF StopsNow
<1>3. CycleInv /\ AttachInv /\ [Next]_vars => AttachInv'
  BY AttachStep
<1> QED
  BY <1>1, <1>2, <1>3, CycleInvariant, HandoffsInvariant, PTL DEF Spec
=============================================================================
