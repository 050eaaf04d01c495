------------------------------ MODULE Handoff ------------------------------
(***************************************************************************)
(* The file a batcher hands a worker, crates/certimining-client/src/       *)
(* handoff.rs: when it may be written, and what a reader makes of it.      *)
(*                                                                         *)
(* A handoff is signed by the batcher and names its epoch, so a file the   *)
(* reader accepts carries a root the batcher signed for that epoch.  What  *)
(* is left of the file is the root, a torn file, or no file.               *)
(***************************************************************************)
EXTENDS Worker

CONSTANTS
  Absent,  \* no file
  Torn     \* part of a file

ASSUME HandoffAssumption == Absent # Torn

\* Mutant: the slip allowance counted from the day after the epoch.
RefuseToWriteLoose(epoch, now, existing, root) ==
  IF existing = root THEN "Ok"
  ELSE IF epoch > DayIndex(now) THEN "EpochAheadOfToday"
  ELSE IF now < BuildStart(epoch) THEN "BeforeBuildStart"
  ELSE IF DayIndex(now) > LastPublishableDay(epoch) + 1 THEN "PastTheSlipAllowance"
  ELSE IF existing # Absent THEN "AlreadyWrittenDifferently"
  ELSE "Ok"

\* Mutant: a later root replaces an earlier one.
RefuseToWriteOver(epoch, now, existing, root) ==
  IF existing = root THEN "Ok"
  ELSE IF epoch > DayIndex(now) THEN "EpochAheadOfToday"
  ELSE IF now < BuildStart(epoch) THEN "BeforeBuildStart"
  ELSE IF DayIndex(now) > LastPublishableDay(epoch) THEN "PastTheSlipAllowance"
  ELSE "Ok"

\* refuse_to_write: an identical file passes before any calendar barrier.
RefuseToWrite(epoch, now, existing, root) ==
  IF existing = root THEN "Ok"
  ELSE IF epoch > DayIndex(now) THEN "EpochAheadOfToday"
  ELSE IF now < BuildStart(epoch) THEN "BeforeBuildStart"
  ELSE IF DayIndex(now) > LastPublishableDay(epoch) THEN "PastTheSlipAllowance"
  ELSE IF existing # Absent THEN "AlreadyWrittenDifferently"
  ELSE "Ok"

\* Handoff::decode and verify accept a whole file and nothing else.
Verifies(file) == file \notin {Absent, Torn}
=============================================================================
