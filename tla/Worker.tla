------------------------------- MODULE Worker -------------------------------
(***************************************************************************)
(* The decision of crates/certimining-client/src/worker.rs: one step from  *)
(* one observation.  The loop that observes and performs is in AnchorCycle.*)
(***************************************************************************)
EXTENDS Schedule

CONSTANTS
  MaxEpochSlip  \* WorkerPolicy::max_epoch_slip

ASSUME WorkerAssumption == MaxEpochSlip \in Nat

\* Option::None where the code has an optional epoch.
None == -1

\* Observed.  The alerts read oldest_single, the decision does not.
Observed ==
  [now : Nat, start_epoch : Nat, last_epoch : Nat,
   awaiting_attach : Nat \cup {None}, last_submitted : Nat \cup {None},
   oldest_single : Nat \cup {None}]

NewestPublishable(o) == DayIndex(o.now) - 1

LastPublishableDay(epoch) == epoch + MaxEpochSlip

Refuse(reason) == [kind |-> "Refuse", reason |-> reason]

\* Mutant: a log without submissions is submitted through its first epoch.
SubmittedThroughFirst(o) ==
  IF o.last_submitted = None THEN o.start_epoch ELSE o.last_submitted

SubmittedThrough(o) ==
  IF o.last_submitted = None THEN o.start_epoch - 1 ELSE o.last_submitted

\* The barriers that come before any work, in the code's order.
Barrier(o) ==
  IF NewestPublishable(o) < 0 THEN "UndatableClock"
  ELSE IF o.last_epoch + 1 < o.start_epoch THEN "LastBeforeStart"
  ELSE IF o.last_epoch > NewestPublishable(o) THEN "LogAheadOfCalendar"
  ELSE IF /\ o.awaiting_attach # None
          /\ o.awaiting_attach \notin o.start_epoch .. o.last_epoch
    THEN "AwaitingAttachOutsideLog"
  ELSE IF o.awaiting_attach # None /\ o.awaiting_attach > o.last_submitted
    THEN "AttachmentAheadOfSubmission"
  ELSE IF o.last_submitted > o.last_epoch THEN "SubmissionAheadOfLog"
  ELSE "Ok"

\* Mutant: a tree that is built is published, without waiting for its time.
NextStepWhenBuilt(o) ==
  LET candidate == o.last_epoch + 1
  IN  IF Barrier(o) # "Ok" THEN Refuse(Barrier(o))
      ELSE IF o.awaiting_attach # None
        THEN [kind |-> "Attach", epoch |-> o.awaiting_attach]
      ELSE IF SubmittedThrough(o) < o.last_epoch
        THEN [kind |-> "Submit", epoch |-> o.last_epoch]
      ELSE IF DayIndex(o.now) > LastPublishableDay(candidate)
        THEN Refuse("EpochSlipExceeded")
      ELSE [kind |-> "Publish", epoch |-> candidate]

\* Mutant: a checkpoint that is due goes before the receipts.
NextStepPublishFirst(o) ==
  LET candidate == o.last_epoch + 1
  IN  IF Barrier(o) # "Ok" THEN Refuse(Barrier(o))
      ELSE IF o.now >= PublicationTime(candidate)
        THEN [kind |-> "Publish", epoch |-> candidate]
      ELSE IF o.awaiting_attach # None
        THEN [kind |-> "Attach", epoch |-> o.awaiting_attach]
      ELSE IF SubmittedThrough(o) < o.last_epoch
        THEN [kind |-> "Submit", epoch |-> o.last_epoch]
      ELSE [kind |-> "Wait", until |-> PublicationTime(candidate)]

\* next_step_with_policy: attach before submit, submit before publish, and
\* the slip barrier only in front of a new checkpoint.
NextStep(o) ==
  LET candidate == o.last_epoch + 1
  IN  IF Barrier(o) # "Ok" THEN Refuse(Barrier(o))
      ELSE IF o.awaiting_attach # None
        THEN [kind |-> "Attach", epoch |-> o.awaiting_attach]
      ELSE IF SubmittedThrough(o) < o.last_epoch
        THEN [kind |-> "Submit", epoch |-> o.last_epoch]
      ELSE IF DayIndex(o.now) > LastPublishableDay(candidate)
        THEN Refuse("EpochSlipExceeded")
      ELSE IF o.now < PublicationTime(candidate)
        THEN [kind |-> "Wait", until |-> PublicationTime(candidate)]
      ELSE [kind |-> "Publish", epoch |-> candidate]
=============================================================================
