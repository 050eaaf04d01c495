------------------------------- MODULE Alerts -------------------------------
(***************************************************************************)
(* The conditions an operator is told about: alerts() of                   *)
(* crates/certimining-client/src/alert.rs, a function of one observation   *)
(* and of what a supervisor knows of the process.                          *)
(***************************************************************************)
EXTENDS Worker

CONSTANTS
  HeartbeatGrace,      \* Thresholds::heartbeat_grace
  PublicationGrace,    \* Thresholds::publication_grace
  SequenceLagLimit,    \* Thresholds::sequence_lag
  ReceiptBudget,       \* Thresholds::receipt_budget
  ConsecutiveRefusals  \* Thresholds::consecutive_refusals

\* Thresholds::DEPLOYED has 1800, 7200, 1, 259200 and 3.
ASSUME AlertsAssumption ==
  /\ HeartbeatGrace \in Nat
  /\ PublicationGrace \in Nat
  /\ SequenceLagLimit \in Nat
  /\ ReceiptBudget \in Nat
  /\ ConsecutiveRefusals \in Nat \ {0}

\* enum Alert, without what it prints.
Alert == {"ProcessSilent", "PublicationMissed", "SequenceLag",
          "ReceiptUnconfirmed", "RepeatedRefusal"}

\* Supervision::from_worker: a process that looks is neither silent nor has
\* it refused, since a refusal ends it.
FromWorker(now) == [last_heartbeat |-> now, consecutive_refusals |-> 0]

\* Mutant: the receipt's wait is read from the files again, as before H-108.
HoldsByTheReceipt(alert, o, s) ==
  LET owed == o.last_epoch + 1
  IN  CASE alert = "ProcessSilent" ->
             o.now - s.last_heartbeat > HeartbeatGrace
        [] alert = "PublicationMissed" ->
             /\ owed <= NewestPublishable(o)
             /\ o.now - PublicationTime(owed) > PublicationGrace
        [] alert = "SequenceLag" ->
             NewestPublishable(o) - o.last_epoch > SequenceLagLimit
        [] alert = "ReceiptUnconfirmed" ->
             /\ o.awaiting_attach # None
             /\ o.now - PublicationTime(o.awaiting_attach) > ReceiptBudget
        [] OTHER ->
             s.consecutive_refusals >= ConsecutiveRefusals

\* Each condition of alerts(), from the observation o and the supervision s.
Holds(alert, o, s) ==
  LET owed == o.last_epoch + 1
  IN  CASE alert = "ProcessSilent" ->
             o.now - s.last_heartbeat > HeartbeatGrace
        [] alert = "PublicationMissed" ->
             /\ owed <= NewestPublishable(o)
             /\ o.now - PublicationTime(owed) > PublicationGrace
        [] alert = "SequenceLag" ->
             NewestPublishable(o) - o.last_epoch > SequenceLagLimit
        [] alert = "ReceiptUnconfirmed" ->
             /\ o.oldest_single # None
             /\ o.now - PublicationTime(o.oldest_single) > ReceiptBudget
        [] OTHER ->
             s.consecutive_refusals >= ConsecutiveRefusals

\* All of them, not the first; without a day index only the silence can be
\* judged.
AlertsOf(o, s) ==
  {alert \in Alert :
     /\ NewestPublishable(o) < 0 => alert = "ProcessSilent"
     /\ Holds(alert, o, s)}
=============================================================================
