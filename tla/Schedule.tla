------------------------------ MODULE Schedule ------------------------------
(***************************************************************************)
(* The publication schedule of crates/certimining-client/src/schedule.rs:  *)
(* every time is a function of the epoch and nothing else.                 *)
(***************************************************************************)
EXTENDS Integers

CONSTANTS
  EpochSeconds,   \* EPOCH_SECONDS: the length of a day
  PublishOffset,  \* Schedule::publish_offset
  BuildLead       \* Schedule::build_lead

\* Schedule::DEPLOYED has 86400, 3600 and 600.
ASSUME ScheduleAssumption ==
  /\ EpochSeconds \in Nat \ {0}
  /\ PublishOffset \in 0 .. EpochSeconds - 1
  /\ BuildLead \in 0 .. PublishOffset

\* The UTC day a time falls in, which is what an epoch is.
DayIndex(now) == now \div EpochSeconds

PublicationTime(epoch) == (epoch + 1) * EpochSeconds + PublishOffset

BuildStart(epoch) == PublicationTime(epoch) - BuildLead
=============================================================================
