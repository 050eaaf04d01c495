------------------------------ MODULE Batcher ------------------------------
(***************************************************************************)
(* The batcher of crates/certimining-log/src/batcher.rs: submission        *)
(* intake, promises, epoch sealing, the overflow queue, and the snapshot a *)
(* restart resumes from.                                                   *)
(*                                                                         *)
(* The struct EpochBatcher and the value BatcherSnapshot have the same     *)
(* fields (the master key and the height never change), so both are one    *)
(* record here and the operations are functions from record to record.     *)
(* Around them stands the service that owns the batcher: it saves the      *)
(* snapshot and hands the operation's answer out in one step ("atomically  *)
(* and without reverting", which the code leaves to the service), and it   *)
(* can crash before that step and come back through resume.                *)
(***************************************************************************)
EXTENDS Integers, Sequences

CONSTANTS
  Leaf,           \* leaf digests a submitter may hand in
  Capacity,       \* C, 2^height leaves per epoch
  MaxMergeDelay,  \* MAX_MERGE_DELAY
  StartEpoch,     \* the epoch given to EpochBatcher::start
  MaxU64          \* the largest value of the epoch and of the counter

ASSUME BatcherAssumption ==
  /\ Capacity \in Nat \ {0}
  /\ MaxMergeDelay \in Nat \ {0}
  /\ MaxU64 \in Nat
  /\ StartEpoch \in 0 .. MaxU64

VARIABLES
  batcher,   \* the EpochBatcher in memory
  running,   \* FALSE once resume has refused the saved snapshot
  reply,     \* the outcome of the last operation, not yet handed out
  disk,      \* the saved BatcherSnapshot
  promises,  \* every promise handed to a submitter
  sealed     \* what the sealed epochs handed out hold: [epoch, id, leaf]

vars == <<batcher, running, reply, disk, promises, sealed>>

----------------------------------------------------------------------------
(* Data. *)

U64 == 0 .. MaxU64

\* A queued submission.  SubmissionId is the counter in sixteen bytes.
Entry == [id : U64, leaf : Leaf]

BatcherSnapshot ==
  [epoch : U64, next_submission : U64, pending : Seq(Entry), overflow : Seq(Entry)]

SignedPromise ==
  [leaf : Leaf, id : U64, accepted_epoch : U64, promised_epoch : U64]

Refusals ==
  {"EpochCapacityExceeded", "ArithmeticOverflow", "EpochOutOfOrder",
   "MalformedPayload", "SignerFailed"}

NoReply == [kind |-> "none"]

Reply ==
       {NoReply}
  \cup [kind : {"promise"}, promise : SignedPromise]
  \cup [kind : {"built"}, epoch : U64]
  \cup [kind : {"refused"}, code : Refusals]

\* EpochBatcher::start
Start == [epoch |-> StartEpoch, next_submission |-> 0, pending |-> <<>>, overflow |-> <<>>]

----------------------------------------------------------------------------
(* submit *)

\* Mutant: the first overflow submission is promised the full epoch.
EpochsAheadFromZero(b) ==
  IF Len(b.pending) < Capacity THEN 0 ELSE Len(b.overflow) \div Capacity

\* promised_epoch: the current epoch while it has room, then a whole epoch
\* at a time from the overflow queue.
EpochsAhead(b) ==
  IF Len(b.pending) < Capacity THEN 0 ELSE Len(b.overflow) \div Capacity + 1

PromisedEpoch(b) == b.epoch + EpochsAhead(b)

PromisedEpochVerdict(b) ==
  IF EpochsAhead(b) > MaxMergeDelay THEN "EpochCapacityExceeded"
  ELSE IF PromisedEpoch(b) > MaxU64 THEN "ArithmeticOverflow"
  ELSE "Ok"

\* next_identifier finds out whether the counter has room before anything moves.
SubmitVerdict(b) ==
  IF PromisedEpochVerdict(b) # "Ok" THEN PromisedEpochVerdict(b)
  ELSE IF b.next_submission + 1 > MaxU64 THEN "ArithmeticOverflow"
  ELSE "Ok"

PromiseFor(b, leaf) ==
  [leaf |-> leaf, id |-> b.next_submission,
   accepted_epoch |-> b.epoch, promised_epoch |-> PromisedEpoch(b)]

\* The part of submit that moves the batcher, reached only once the promise
\* is signed.
AfterSubmit(b, leaf) ==
  LET entry == [id |-> b.next_submission, leaf |-> leaf]
      room  == Len(b.pending) < Capacity
  IN  [epoch           |-> b.epoch,
       next_submission |-> b.next_submission + 1,
       pending         |-> IF room THEN Append(b.pending, entry) ELSE b.pending,
       overflow        |-> IF room THEN b.overflow ELSE Append(b.overflow, entry)]

----------------------------------------------------------------------------
(* seal *)

\* BuiltEpoch::build refuses more leaves than slots and a repeated identifier.
BuildVerdict(b) ==
  IF Len(b.pending) > Capacity THEN "EpochCapacityExceeded"
  ELSE IF \E i, j \in 1 .. Len(b.pending) : i # j /\ b.pending[i].id = b.pending[j].id
    THEN "MalformedPayload"
  ELSE "Ok"

\* Mutant: the successor check is off by one, and the batcher stops an
\* epoch early.
SealVerdictTooEarly(b, e) ==
  IF e # b.epoch THEN "EpochOutOfOrder"
  ELSE IF BuildVerdict(b) # "Ok" THEN BuildVerdict(b)
  ELSE IF b.epoch + 1 >= MaxU64 THEN "ArithmeticOverflow"
  ELSE "Ok"

\* Only the current epoch is sealed, and an epoch with no successor is not.
SealVerdict(b, e) ==
  IF e # b.epoch THEN "EpochOutOfOrder"
  ELSE IF BuildVerdict(b) # "Ok" THEN BuildVerdict(b)
  ELSE IF b.epoch + 1 > MaxU64 THEN "ArithmeticOverflow"
  ELSE "Ok"

\* Mutant: one submission too few moves out of the queue.
MovingOneShort(b) == IF Len(b.overflow) < Capacity THEN Len(b.overflow) ELSE Capacity - 1

Moving(b) == IF Len(b.overflow) < Capacity THEN Len(b.overflow) ELSE Capacity

AfterSeal(b) ==
  [epoch           |-> b.epoch + 1,
   next_submission |-> b.next_submission,
   pending         |-> SubSeq(b.overflow, 1, Moving(b)),
   overflow        |-> SubSeq(b.overflow, Moving(b) + 1, Len(b.overflow))]

----------------------------------------------------------------------------
(* resume *)

\* The live submissions in arrival order: the current epoch's, then the
\* queue's.
Live(b) == Len(b.pending) + Len(b.overflow)

At(b, j) ==
  IF j <= Len(b.pending) THEN b.pending[j] ELSE b.overflow[j - Len(b.pending)]

\* Everything one snapshot can be checked against before it is trusted.
ResumeAccepts(s) ==
  /\ Len(s.pending) <= Capacity
  /\ Len(s.overflow) <= Capacity * MaxMergeDelay
  /\ Len(s.overflow) # 0 => Len(s.pending) = Capacity
  /\ Live(s) # 0 =>
       /\ s.next_submission >= 1
       /\ At(s, Live(s)).id = s.next_submission - 1
       /\ At(s, Live(s)).id - At(s, 1).id + 1 = Live(s)
       /\ \A j \in 1 .. Live(s) - 1 : At(s, j + 1).id - At(s, j).id = 1

----------------------------------------------------------------------------
(* The service around the batcher. *)

Idle == running /\ reply = NoReply

Init ==
  /\ batcher = Start
  /\ running = TRUE
  /\ reply = NoReply
  /\ disk = Start
  /\ promises = {}
  /\ sealed = {}

Submit(leaf) ==
  /\ Idle
  /\ SubmitVerdict(batcher) = "Ok"
  /\ batcher' = AfterSubmit(batcher, leaf)
  /\ reply' = [kind |-> "promise", promise |-> PromiseFor(batcher, leaf)]
  /\ UNCHANGED <<running, disk, promises, sealed>>

RefuseSubmit ==
  /\ Idle
  /\ SubmitVerdict(batcher) # "Ok"
  /\ reply' = [kind |-> "refused", code |-> SubmitVerdict(batcher)]
  /\ UNCHANGED <<batcher, running, disk, promises, sealed>>

\* Mutant: the identifier is consumed before the signer is asked.
SignerFailsIdSpent ==
  /\ Idle
  /\ SubmitVerdict(batcher) = "Ok"
  /\ batcher' = [batcher EXCEPT !.next_submission = @ + 1]
  /\ reply' = [kind |-> "refused", code |-> "SignerFailed"]
  /\ UNCHANGED <<running, disk, promises, sealed>>

\* The signer lives outside the process and can fail: nothing has moved yet.
SignerFails ==
  /\ Idle
  /\ SubmitVerdict(batcher) = "Ok"
  /\ reply' = [kind |-> "refused", code |-> "SignerFailed"]
  /\ UNCHANGED <<batcher, running, disk, promises, sealed>>

Seal(e) ==
  /\ Idle
  /\ SealVerdict(batcher, e) = "Ok"
  /\ batcher' = AfterSeal(batcher)
  /\ reply' = [kind |-> "built", epoch |-> e]
  /\ UNCHANGED <<running, disk, promises, sealed>>

RefuseSeal(e) ==
  /\ Idle
  /\ SealVerdict(batcher, e) # "Ok"
  /\ reply' = [kind |-> "refused", code |-> SealVerdict(batcher, e)]
  /\ UNCHANGED <<batcher, running, disk, promises, sealed>>

\* What the tree built from snapshot b commits to.
Built(b) ==
  {[epoch |-> b.epoch, id |-> b.pending[i].id, leaf |-> b.pending[i].leaf] :
      i \in 1 .. Len(b.pending)}

\* The service saves the snapshot and hands the answer out, in one step.
\* The tree it hands out was built from the snapshot saved before the seal.
Commit ==
  /\ running
  /\ reply # NoReply
  /\ disk' = batcher
  /\ promises' = promises \cup
       (IF reply.kind = "promise" THEN {reply.promise} ELSE {})
  /\ sealed' = sealed \cup (IF reply.kind = "built" THEN Built(disk) ELSE {})
  /\ reply' = NoReply
  /\ UNCHANGED <<batcher, running>>

\* A crash loses what was not committed.  The restart resumes from the saved
\* snapshot, or stays down if resume refuses it.
CrashRestart ==
  /\ running
  /\ running' = ResumeAccepts(disk)
  /\ batcher' = disk
  /\ reply' = NoReply
  /\ UNCHANGED <<disk, promises, sealed>>

Next ==
  \/ \E leaf \in Leaf : Submit(leaf)
  \/ RefuseSubmit
  \/ SignerFails
  \/ \E e \in U64 : Seal(e)
  \/ \E e \in U64 : RefuseSeal(e)
  \/ Commit
  \/ CrashRestart

Spec == Init /\ [][Next]_vars

\* The service answers.  The caller owns the calendar and seals the epoch when its day is over,
\* however busy intake is; crashes do not for ever come between a seal and its
\* commit.
Fairness ==
  /\ WF_vars(Commit)
  /\ SF_vars(Seal(batcher.epoch))
  /\ SF_vars(Commit /\ reply.kind = "built")

FairSpec == Spec /\ Fairness

----------------------------------------------------------------------------
(* Properties. *)

\* Every variable holds a value of its type: what submit, seal and resume
\* build are well-formed batchers, promises and sealed leaves.
TypeOK ==
  /\ batcher \in BatcherSnapshot
  /\ running \in BOOLEAN
  /\ reply \in Reply
  /\ disk \in BatcherSnapshot
  /\ promises \subseteq SignedPromise
  /\ sealed \subseteq [epoch : U64, id : U64, leaf : Leaf]

\* The promise of submit: once the promised epoch is sealed, its tree holds
\* the promised leaf, under the promised identifier, across every crash.
PromisesKept ==
  \A p \in promises :
     p.promised_epoch < disk.epoch =>
        [epoch |-> p.promised_epoch, id |-> p.id, leaf |-> p.leaf] \in sealed

\* seal puts in an epoch only what was promised for that very epoch, so a
\* leaf is sealed once and an identifier names one leaf.
SealedAsPromised ==
  /\ \A x \in sealed : \E p \in promises :
        p.id = x.id /\ p.leaf = x.leaf /\ p.promised_epoch = x.epoch
  /\ \A p, q \in promises : p.id = q.id => p = q

\* A batcher that crashes anywhere can always come back: resume accepts
\* every snapshot a batcher takes of itself, after refusals and signer
\* failures too.
ResumesItsOwn == running /\ ResumeAccepts(batcher)

\* The batcher refuses a submission for want of room only when every epoch
\* inside the merge delay is full, and never refuses to build its own epoch.
RefusesOnlyWhenFull ==
  reply.kind = "refused" =>
    /\ reply.code = "EpochCapacityExceeded" =>
         Live(batcher) = Capacity * (1 + MaxMergeDelay)
    /\ reply.code # "MalformedPayload"

\* The batcher, its snapshots and its crashes implement the promise ledger:
\* a promise is one Accept, a sealed epoch one Seal, all else is invisible.
Ledger == INSTANCE PromiseLedger WITH filling <- disk.epoch

ImplementsLedger == Ledger!Spec

\* Every promise is sealed in the end, up to the last epoch a u64 can hold,
\* which seal cannot leave.
EventuallySealed ==
  \A id \in U64 :
     (\E p \in promises : p.id = id /\ p.promised_epoch < MaxU64)
        ~> (\E x \in sealed : x.id = id)
=============================================================================
