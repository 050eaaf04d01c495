---------------------------- MODULE AnchorCycle ----------------------------
(***************************************************************************)
(* The daily cycle: the batcher's handoff file, the worker loop of         *)
(* bin/anchor-b-worker.rs with its cluster and OpenTimestamps clients, the *)
(* checkpoint program on chain, and Bitcoin.                               *)
(*                                                                         *)
(* The worker observes, decides one step and performs it, in separate      *)
(* actions, so that transactions sent earlier can land in between, files   *)
(* can disappear and the process can crash.  A transaction whose answer    *)
(* was lost stays in flight until it lands or its blockhash expires.       *)
(*                                                                         *)
(* The worker runs as a unit of systemd (deploy/systemd), which starts it  *)
(* again when it stops, gives up after StartLimitBurst starts within its   *)
(* interval and then pages the operator; the worker itself raises the      *)
(* alerts of Alerts at every look.                                         *)
(*                                                                         *)
(* Everything that goes wrong spends one of MaxFaults faults: lost         *)
(* answers, crashes, nodes that are unreachable or behind, failed stamps,  *)
(* mislaid files, files written twice, host clocks that are fast, and a    *)
(* tick of the clock inside a cycle.                                       *)
(***************************************************************************)
EXTENDS Handoff, Alerts, FiniteSets

CONSTANTS
  Root,                 \* roots a batcher may build
  NoDigest,             \* the all-zero receipt digest
  StartEpoch,           \* the day the log was initialised
  PublishAttempts,      \* WorkerPolicy::publish_attempts
  PartitionRetryLimit,  \* WorkerPolicy::partition_retry_limit
  StartLimitBurst,      \* the unit's StartLimitBurst
  ConcurrentRuns,       \* runs of batcher-handoff at one time
  HostSkews,            \* how far the hosts' clocks may be ahead of the chain's
  MaxClock,             \* the hosts' clock is explored up to here
  MaxFaults             \* faults in one behaviour

ASSUME AnchorCycleAssumption ==
  /\ StartEpoch \in Nat \ {0}
  /\ PublishAttempts \in Nat \ {0}
  /\ PartitionRetryLimit \in Nat
  /\ StartLimitBurst \in Nat \ {0}
  /\ ConcurrentRuns \in Nat \ {0}
  /\ HostSkews \subseteq Nat /\ HostSkews # {}
  /\ MaxClock \in Nat /\ MaxFaults \in Nat
  \* A root is not a state of a file.
  /\ Absent \notin Root /\ Torn \notin Root
  \* What is explored begins within its bounds.
  /\ \A s \in HostSkews :
       /\ StartEpoch * EpochSeconds + s <= MaxClock
       /\ s # 0 => MaxFaults >= 1

VARIABLES
  clock, config, checkpoints, funded,  \* the chain: see Checkpoint
  handoff,    \* the file <epoch>.handoff
  runs,       \* the runs of batcher-handoff that passed their checks
  receipt,    \* the file <epoch>.ots
  mislaid,    \* receipts taken out of their directory
  stamps,     \* how often an epoch's root was sent to the calendars
  confirmed,  \* the stamps Bitcoin carries: <<epoch, stamp>>
  inflight,   \* transactions sent and not answered
  worker,     \* the worker process, or the unit once systemd gave up on it
  starts,     \* starts of the unit within its StartLimitIntervalSec
  raised,     \* the alerts of the last successful observation
  skew,       \* how far the hosts' clocks are ahead
  faults      \* faults so far

chain == <<clock, config, checkpoints, funded>>
files == <<handoff, runs, receipt, mislaid>>
world == <<stamps, confirmed, inflight, skew>>
unit == <<starts, raised>>
vars == <<chain, files, world, worker, unit, faults>>

----------------------------------------------------------------------------
(* Data. *)

\* The epochs that end in the time explored.
Epoch == StartEpoch .. DayIndex(MaxClock) - 1

\* The clock of the worker and of the batcher.
Now == clock + skew

\* A stamp after the first needs a receipt to be lost first.
MaxStamps == MaxFaults + 1

\* What an .ots file holds: the root it timestamps, the stamp it came from,
\* and whether it carries Bitcoin's attestation or only a calendar's promise.
Receipt == [epoch : Epoch, root : Root, stamp : 1 .. MaxStamps, bitcoin : BOOLEAN]

ASSUME ReceiptAssumption == Absent \notin Receipt /\ Torn \notin Receipt

\* receipt_digest hashes the whole file, so a digest stands for one file.
Digest == Receipt \cup {NoDigest}

\* The publisher signs as the log's authority, and derives the canonical
\* bump itself.
Authority == "authority"
Canonical == 255

Program == INSTANCE Checkpoint WITH
  Key <- {Authority}, Bump <- {Canonical}, SecondsPerDay <- EpochSeconds

\* Both naps are shorter than a tick, so the worker also remembers when it
\* fell asleep.
Asleep == [pc |-> "asleep", since |-> clock]
Exited(why) == [pc |-> "exited", why |-> why]
Unpublished(e) == [pc |-> "exited", why |-> "NotPublished", epoch |-> e]
Failed == [pc |-> "failed"]

\* The worker between two steps, with its consecutive_failures.
Observing(failures) == [pc |-> "observe", failures |-> failures]

Init ==
  /\ clock = StartEpoch * EpochSeconds
  /\ config = [schema_version |-> 1, authority |-> Authority,
               last_epoch |-> StartEpoch - 1, tree_height |-> 4,
               start_epoch |-> StartEpoch]
  /\ checkpoints = {}
  /\ funded = {}
  /\ handoff = [e \in Epoch |-> Absent]
  /\ runs = {}
  /\ receipt = [e \in Epoch |-> Absent]
  /\ mislaid = {}
  /\ stamps = [e \in Epoch |-> 0]
  /\ confirmed = {}
  /\ inflight = {}
  /\ worker = Observing(0)
  /\ starts = 1
  /\ raised = {}
  /\ skew \in HostSkews
  /\ faults = IF skew = 0 THEN 0 ELSE 1

Fault ==
  /\ faults < MaxFaults
  /\ faults' = faults + 1

----------------------------------------------------------------------------
(* The batcher: bin/batcher-handoff.rs *)

\* A run reads the clock and the file once, and decides on what it read.
\* Writing a file again, or while another run is at work, counts as a fault
\* of the operator's.
BeginRun(e, root) ==
  /\ Cardinality(runs) < ConcurrentRuns
  /\ RefuseToWrite(e, Now, handoff[e], root) = "Ok"
  /\ IF handoff[e] = Absent /\ runs = {} THEN UNCHANGED faults ELSE Fault
  /\ runs' = runs \cup {[epoch |-> e, root |-> root, opened |-> FALSE]}
  /\ UNCHANGED <<chain, handoff, receipt, mislaid, world, worker, unit>>

\* std::fs::write truncates the file, then writes it.
OpenFile(r) ==
  /\ ~r.opened
  /\ handoff' = [handoff EXCEPT ![r.epoch] = Torn]
  /\ runs' = (runs \ {r}) \cup {[r EXCEPT !.opened = TRUE]}
  /\ UNCHANGED <<chain, receipt, mislaid, world, worker, unit, faults>>

WriteFile(r) ==
  /\ r.opened
  /\ handoff' = [handoff EXCEPT ![r.epoch] = r.root]
  /\ runs' = runs \ {r}
  /\ UNCHANGED <<chain, receipt, mislaid, world, worker, unit, faults>>

RunCrashes(r) ==
  /\ Fault
  /\ runs' = runs \ {r}
  /\ UNCHANGED <<chain, handoff, receipt, mislaid, world, worker, unit>>

----------------------------------------------------------------------------
(* Observing: observe.rs.  The range comes from the configuration account, *)
(* the status of every epoch in it from its checkpoint account, and the    *)
(* submissions from the receipt files.                                     *)

Checkpointed(e) == \E c \in checkpoints : c.epoch = e
CheckpointOf(e) == CHOOSE c \in checkpoints : c.epoch = e

Single(e) == Checkpointed(e) /\ CheckpointOf(e).receipt_digest = NoDigest
Dual(e) == Checkpointed(e) /\ CheckpointOf(e).receipt_digest # NoDigest

Singles == {e \in config.start_epoch .. config.last_epoch : Single(e)}
Submitted == {e \in config.start_epoch .. config.last_epoch : receipt[e] # Absent}
Awaiting == {e \in Submitted : Single(e)}

Observe ==
  [now             |-> Now,
   start_epoch     |-> config.start_epoch,
   last_epoch      |-> config.last_epoch,
   awaiting_attach |-> IF Awaiting = {} THEN None
                       ELSE CHOOSE e \in Awaiting : \A f \in Awaiting : e <= f,
   last_submitted  |-> IF Submitted = {} THEN None
                       ELSE CHOOSE e \in Submitted : \A f \in Submitted : e >= f,
   oldest_single   |-> IF Singles = {} THEN None
                       ELSE CHOOSE e \in Singles : \A f \in Singles : e <= f]

\* retry_partition: count the failure, and stop once the budget is spent.
RetryPartition(w) ==
  IF w.failures + 1 > PartitionRetryLimit THEN Exited("BudgetExhausted")
  ELSE Observing(w.failures + 1)

Perform(step) == [pc |-> "perform", step |-> step, failures |-> 0]

\* Mutant: the alerts come after the step, which ends the cycle.
ObserveOkAlertsWhenIdle ==
  /\ worker.pc = "observe"
  /\ \E o \in {Observe} :
       /\ LET step == NextStep(o)
          IN  worker' = CASE step.kind = "Refuse" -> Exited(step.reason)
                          [] step.kind = "Wait"   -> Asleep
                          [] OTHER                -> Perform(step)
       /\ raised' = IF NextStep(o).kind = "Wait" THEN AlertsOf(o, FromWorker(o.now)) ELSE raised
  /\ UNCHANGED <<chain, files, world, starts, faults>>

\* A successful observation clears consecutive_failures, raises its alerts
\* and feeds the watchdog.
ObserveOk ==
  /\ worker.pc = "observe"
  /\ \E o \in {Observe} :
       /\ LET step == NextStep(o)
          IN  worker' = CASE step.kind = "Refuse" -> Exited(step.reason)
                          [] step.kind = "Wait"   -> Asleep
                          [] OTHER                -> Perform(step)
       /\ raised' = AlertsOf(o, FromWorker(o.now))
  /\ UNCHANGED <<chain, files, world, starts, faults>>

ObserveFails ==
  /\ worker.pc = "observe"
  /\ Fault
  /\ worker' = RetryPartition(worker)
  /\ UNCHANGED <<chain, files, world, unit>>

Wake ==
  /\ worker.pc = "asleep"
  /\ worker' = Observing(0)
  /\ UNCHANGED <<chain, files, world, unit, faults>>

\* Restart=on-failure: the service manager starts a worker that stopped,
\* until the start limit is hit.  Then it leaves the unit failed, and only
\* then does certimining-alert@ page the operator.
Restart ==
  /\ worker.pc = "exited"
  /\ IF starts < StartLimitBurst
     THEN worker' = Observing(0) /\ starts' = starts + 1
     ELSE worker' = Failed /\ UNCHANGED starts
  /\ UNCHANGED <<chain, files, world, raised, faults>>

\* The operator who was paged resets the unit and starts it.
OperatorStarts ==
  /\ worker = Failed
  /\ worker' = Observing(0)
  /\ starts' = 1
  /\ UNCHANGED <<chain, files, world, raised, faults>>

\* The process dies, or hangs until WatchdogSec runs out and it is killed.
WorkerCrashes ==
  /\ worker.pc \notin {"asleep", "exited", "failed"}
  /\ Fault
  /\ worker' = Exited("Crashed")
  /\ UNCHANGED <<chain, files, world, unit>>

Performs(kind) == worker.pc = "perform" /\ worker.step.kind = kind

\* root_for: a handoff the worker cannot verify ends the process.
RootForFails ==
  /\ worker.pc = "perform"
  /\ ~Verifies(handoff[worker.step.epoch])
  /\ worker' = Exited("NoHandoff")
  /\ UNCHANGED <<chain, files, world, unit, faults>>

RootFor(e) == handoff[e]

----------------------------------------------------------------------------
(* Step::Publish: cluster.rs publish, send_publish, settle_against_chain.  *)

BeginPublish ==
  /\ Performs("Publish")
  /\ Verifies(handoff[worker.step.epoch])
  /\ worker' = [pc       |-> "send",
                epoch    |-> worker.step.epoch,
                root     |-> RootFor(worker.step.epoch),
                left     |-> PublishAttempts - 1,
                failures |-> worker.failures]
  /\ UNCHANGED <<chain, files, world, unit, faults>>

PublishVerdict == Program!PublishVerdict(Authority, worker.epoch, Canonical)

\* The attempt is answered: the checkpoint is written and read back
\* (reference), from a node that has it.
PublishLands ==
  /\ worker.pc = "send"
  /\ Program!Publish(Authority, worker.epoch, worker.root, Canonical)
  /\ worker' = Observing(0)
  /\ UNCHANGED <<files, world, unit, faults>>

\* settle_against_chain: an earlier attempt landed, unless the root differs.
PublishSettles ==
  /\ worker.pc = "send"
  /\ PublishVerdict = "CheckpointAlreadyWritten"
  /\ worker' = IF CheckpointOf(worker.epoch).root = worker.root
               THEN Observing(0) ELSE Exited("Equivocation")
  /\ UNCHANGED <<chain, files, world, unit, faults>>

PublishRefused ==
  /\ worker.pc = "send"
  /\ PublishVerdict \notin {"Ok", "CheckpointAlreadyWritten"}
  /\ worker' = Exited("Refused")
  /\ UNCHANGED <<chain, files, world, unit, faults>>

\* No answer: the transaction may have left or not, and an attempt is spent.
PublishUnanswered ==
  /\ worker.pc = "send"
  /\ Fault
  /\ inflight' \in {inflight, inflight \cup
       {[kind |-> "publish", epoch |-> worker.epoch, root |-> worker.root]}}
  /\ worker' = IF worker.left > 0 THEN [worker EXCEPT !.left = @ - 1]
               ELSE RetryPartition(worker)
  /\ UNCHANGED <<chain, files, skew, stamps, confirmed, unit>>

\* The write was answered, and reading it back was not (Unreachable), or by a
\* node that has not seen it: NotPublished(Unwritten), which ends the process.
PublishReadBackFails ==
  /\ worker.pc = "send"
  /\ Fault
  /\ \/ Program!Publish(Authority, worker.epoch, worker.root, Canonical)
     \/ PublishVerdict = "CheckpointAlreadyWritten" /\ UNCHANGED chain
  /\ worker' \in {RetryPartition(worker), Unpublished(worker.epoch)}
  /\ UNCHANGED <<files, world, unit>>

----------------------------------------------------------------------------
(* Step::Submit: ots.rs submit. *)

\* An existing receipt is the submission already having happened, if it
\* parses and is over this root.
SubmitFindsReceipt ==
  /\ Performs("Submit")
  /\ LET e == worker.step.epoch
     IN  /\ Verifies(handoff[e])
         /\ receipt[e] # Absent
         /\ worker' = IF receipt[e] # Torn /\ receipt[e].root = RootFor(e)
                      THEN Observing(0) ELSE RetryPartition(worker)
  /\ UNCHANGED <<chain, files, world, unit, faults>>

\* Mutant: the receipt that is there is not looked for.
StampsAnyway ==
  /\ Performs("Submit")
  /\ LET e == worker.step.epoch
     IN  /\ Verifies(handoff[e])
         /\ stamps[e] < MaxStamps
         /\ receipt' = [receipt EXCEPT ![e] =
              [epoch |-> e, root |-> RootFor(e), stamp |-> stamps[e] + 1, bitcoin |-> FALSE]]
         /\ stamps' = [stamps EXCEPT ![e] = @ + 1]
  /\ worker' = Observing(0)
  /\ UNCHANGED <<chain, handoff, runs, mislaid, confirmed, inflight, skew, unit, faults>>

Stamps ==
  /\ Performs("Submit")
  /\ LET e == worker.step.epoch
     IN  /\ Verifies(handoff[e])
         /\ receipt[e] = Absent
         /\ receipt' = [receipt EXCEPT ![e] =
              [epoch |-> e, root |-> RootFor(e), stamp |-> stamps[e] + 1, bitcoin |-> FALSE]]
         /\ stamps' = [stamps EXCEPT ![e] = @ + 1]
  /\ worker' = Observing(0)
  /\ UNCHANGED <<chain, handoff, runs, mislaid, confirmed, inflight, skew, unit, faults>>

\* The client exits non-zero, with or without leaving part of a file.
StampFails ==
  /\ Performs("Submit")
  /\ Fault
  /\ LET e == worker.step.epoch
     IN  /\ Verifies(handoff[e])
         /\ receipt[e] = Absent
         /\ receipt' \in {receipt, [receipt EXCEPT ![e] = Torn]}
  /\ worker' = RetryPartition(worker)
  /\ UNCHANGED <<chain, handoff, runs, mislaid, world, unit>>

----------------------------------------------------------------------------
(* Step::Attach: ots.rs upgrade, then cluster.rs attach. *)

AttachFindsNoReceipt ==
  /\ Performs("Attach")
  /\ Verifies(handoff[worker.step.epoch])
  /\ receipt[worker.step.epoch] = Absent
  /\ worker' = Exited("ReceiptUnreadable")
  /\ UNCHANGED <<chain, files, world, unit, faults>>

\* verify_receipt refuses what is on disk: it does not parse, or it is over
\* another root.
UpgradeFails ==
  /\ Performs("Attach")
  /\ LET e == worker.step.epoch
     IN  /\ Verifies(handoff[e])
         /\ receipt[e] # Absent
         /\ receipt[e] # Torn => receipt[e].root # RootFor(e)
  /\ worker' = RetryPartition(worker)
  /\ UNCHANGED <<chain, files, world, unit, faults>>

\* ots upgrade puts Bitcoin's attestation into the receipt once there is one.
\* Its exit status is not read: a calendar that cannot be reached looks like
\* a receipt that is not confirmed yet.
Upgrade(reached) ==
  /\ Performs("Attach")
  /\ IF reached THEN UNCHANGED faults ELSE Fault
  /\ LET e == worker.step.epoch
         r == receipt[e]
     IN  /\ Verifies(handoff[e])
         /\ r \notin {Absent, Torn}
         /\ r.root = RootFor(e)
         /\ LET carries == r.bitcoin \/ (reached /\ <<e, r.stamp>> \in confirmed)
            IN  /\ receipt' = [receipt EXCEPT ![e].bitcoin = carries]
                /\ worker' = IF carries
                             THEN [pc |-> "attach", epoch |-> e, failures |-> worker.failures]
                             ELSE Asleep
  /\ UNCHANGED <<chain, handoff, runs, mislaid, world, unit>>

\* Mutant: any receipt over the right root will do.
ReceiptAcceptedPending(e) ==
  /\ receipt[e] \notin {Absent, Torn}
  /\ Checkpointed(e)
  /\ receipt[e].root = CheckpointOf(e).root

\* verify_receipt against the root the chain carries, not the handoff's.
ReceiptAccepted(e) ==
  /\ receipt[e] \notin {Absent, Torn}
  /\ Checkpointed(e)
  /\ receipt[e].root = CheckpointOf(e).root
  /\ receipt[e].bitcoin

AttachRefused ==
  /\ worker.pc = "attach"
  /\ ~ReceiptAccepted(worker.epoch)
  /\ worker' = Exited("AttachRefused")
  /\ UNCHANGED <<chain, files, world, unit, faults>>

AttachVerdict(e) ==
  Program!AttachVerdict(Authority, CheckpointOf(e), e, receipt[e], 1)

AttachLands ==
  /\ worker.pc = "attach"
  /\ ReceiptAccepted(worker.epoch)
  /\ Program!Attach(Authority, CheckpointOf(worker.epoch), worker.epoch,
                    receipt[worker.epoch], 1)
  /\ worker' = Observing(0)
  /\ UNCHANGED <<files, world, unit, faults>>

\* The program refuses, which the client does not tell from a transport
\* failure.
AttachAlreadyDone ==
  /\ worker.pc = "attach"
  /\ ReceiptAccepted(worker.epoch)
  /\ AttachVerdict(worker.epoch) # "Ok"
  /\ worker' = RetryPartition(worker)
  /\ UNCHANGED <<chain, files, world, unit, faults>>

\* attach reads the root first, and is not answered, or by a node that does not
\* have the checkpoint: AttachRefused::NotPublished, which ends the process.
AttachReadFails ==
  /\ worker.pc = "attach"
  /\ Fault
  /\ worker' \in {RetryPartition(worker), Unpublished(worker.epoch)}
  /\ UNCHANGED <<chain, files, world, unit>>

AttachUnanswered ==
  /\ worker.pc = "attach"
  /\ Fault
  /\ ReceiptAccepted(worker.epoch)
  /\ inflight' \in {inflight, inflight \cup
       {[kind |-> "attach", epoch |-> worker.epoch, digest |-> receipt[worker.epoch]]}}
  /\ worker' = RetryPartition(worker)
  /\ UNCHANGED <<chain, files, skew, stamps, confirmed, unit>>

----------------------------------------------------------------------------
(* What is not the worker: transactions in flight, Bitcoin, files, time. *)

\* A transaction in flight lands; one the program refuses changes nothing,
\* and one whose blockhash expired is gone.
Lands(tx) ==
  /\ tx \in inflight
  /\ CASE tx.kind = "publish" -> Program!Publish(Authority, tx.epoch, tx.root, Canonical)
       [] tx.kind = "attach"  -> Program!Attach(Authority, CheckpointOf(tx.epoch),
                                                tx.epoch, tx.digest, 1)
  /\ inflight' = inflight \ {tx}
  /\ UNCHANGED <<files, skew, stamps, confirmed, worker, unit, faults>>

Expires(tx) ==
  /\ tx \in inflight
  /\ inflight' = inflight \ {tx}
  /\ UNCHANGED <<chain, files, skew, stamps, confirmed, worker, unit, faults>>

BitcoinConfirms(e, n) ==
  /\ n <= stamps[e]
  /\ confirmed' = confirmed \cup {<<e, n>>}
  /\ UNCHANGED <<chain, files, stamps, inflight, skew, worker, unit, faults>>

\* A receipt is moved out of its directory, and put back if nothing took its
\* place.
LoseReceipt(e) ==
  /\ receipt[e] \notin {Absent, Torn}
  /\ Fault
  /\ receipt' = [receipt EXCEPT ![e] = Absent]
  /\ mislaid' = mislaid \cup {receipt[e]}
  /\ UNCHANGED <<chain, handoff, runs, world, worker, unit>>

RestoreReceipt(r) ==
  /\ r \in mislaid
  /\ receipt[r.epoch] = Absent
  /\ receipt' = [receipt EXCEPT ![r.epoch] = r]
  /\ mislaid' = mislaid \ {r}
  /\ UNCHANGED <<chain, handoff, runs, world, worker, unit, faults>>

\* A tick is much longer than the worker's poll interval: unless something
\* is slow, it finds no run of batcher-handoff under way, and the unit failed
\* or the worker asleep after a look at this tick.  It is also longer than the
\* unit's StartLimitIntervalSec.
Tick ==
  /\ Now < MaxClock
  /\ Program!Tick
  /\ IF worker \in {Asleep, Failed} /\ runs = {}
     THEN UNCHANGED faults ELSE Fault
  /\ starts' = 0
  /\ UNCHANGED <<files, world, worker, raised>>

WorkerStep ==
  \/ ObserveOk \/ Wake \/ Restart \/ RootForFails
  \/ BeginPublish \/ PublishLands \/ PublishSettles \/ PublishRefused
  \/ SubmitFindsReceipt \/ Stamps
  \/ AttachFindsNoReceipt \/ UpgradeFails \/ Upgrade(TRUE)
  \/ AttachRefused \/ AttachLands \/ AttachAlreadyDone

WorkerFault ==
  \/ ObserveFails \/ WorkerCrashes
  \/ PublishUnanswered \/ PublishReadBackFails
  \/ StampFails \/ Upgrade(FALSE) \/ AttachReadFails \/ AttachUnanswered

Next ==
  \/ \E e \in Epoch, root \in Root : BeginRun(e, root)
  \/ \E r \in runs : OpenFile(r) \/ WriteFile(r) \/ RunCrashes(r)
  \/ WorkerStep
  \/ OperatorStarts
  \/ WorkerFault
  \/ \E tx \in inflight : Lands(tx) \/ Expires(tx)
  \/ \E e \in Epoch, n \in 1 .. MaxStamps : BitcoinConfirms(e, n)
  \/ \E e \in Epoch : LoseReceipt(e)
  \/ \E r \in mislaid : RestoreReceipt(r)
  \/ Tick

Spec == Init /\ [][Next]_vars

\* Finitely many faults, and everything that is left keeps going: the worker
\* loop, the batcher's write, Bitcoin, time, and an operator who answers a
\* page.
Fairness ==
  /\ WF_vars(WorkerStep)
  /\ WF_vars(OperatorStarts)
  /\ WF_vars(\E r \in runs : OpenFile(r) \/ WriteFile(r))
  /\ WF_vars(\E e \in Epoch, n \in 1 .. MaxStamps : BitcoinConfirms(e, n))
  /\ WF_vars(Tick)

FairSpec == Spec /\ Fairness

----------------------------------------------------------------------------
(* Properties. *)

\* Why a worker stops: what an operator mends, and what next_step and the
\* program refuse.
Reason ==
  {"NoHandoff", "EpochSlipExceeded", "ReceiptUnreadable", "AttachRefused", "BudgetExhausted",
   "Crashed", "Refused", "Equivocation", "UndatableClock", "LastBeforeStart",
   "LogAheadOfCalendar", "AwaitingAttachOutsideLog", "AttachmentAheadOfSubmission",
   "SubmissionAheadOfLog"}

WorkerState ==
       [pc : {"asleep"}, since : 0 .. MaxClock]
  \cup [pc : {"exited"}, why : Reason] \cup {Failed}
  \cup [pc : {"exited"}, why : {"NotPublished"}, epoch : Epoch]
  \cup [pc : {"observe"}, failures : 0 .. PartitionRetryLimit]
  \cup [pc : {"perform"}, failures : {0},
        step : [kind : {"Publish", "Submit", "Attach"}, epoch : Epoch]]
  \cup [pc : {"send"}, epoch : Epoch, root : Root, left : 0 .. PublishAttempts - 1,
        failures : {0}]
  \cup [pc : {"attach"}, epoch : Epoch, failures : {0}]

Transaction ==
       [kind : {"publish"}, epoch : Epoch, root : Root]
  \cup [kind : {"attach"}, epoch : Epoch, digest : Receipt]

\* The chain, the files and the worker hold values of their types; the
\* worker only ever acts on epochs the calendar has reached, and raises only
\* the three alerts a worker can raise about itself (H-95).
TypeOK ==
  /\ Program!TypeOK
  /\ handoff \in [Epoch -> Root \cup {Absent, Torn}]
  /\ runs \subseteq [epoch : Epoch, root : Root, opened : BOOLEAN]
  /\ IsFiniteSet(runs) /\ Cardinality(runs) <= ConcurrentRuns
  /\ receipt \in [Epoch -> Receipt \cup {Absent, Torn}]
  /\ mislaid \subseteq Receipt
  /\ stamps \in [Epoch -> 0 .. MaxStamps]
  /\ confirmed \subseteq Epoch \X (1 .. MaxStamps)
  /\ inflight \subseteq Transaction
  /\ worker \in WorkerState
  /\ starts \in 0 .. StartLimitBurst
  /\ raised \subseteq {"PublicationMissed", "SequenceLag", "ReceiptUnconfirmed"}
  /\ skew \in HostSkews
  /\ faults \in 0 .. MaxFaults

\* D-139: what the chain carries for an epoch is what the batcher handed over
\* for it, through every retry, crash and late transaction; a handoff that
\* was published is at worst torn, never replaced.
PublishedAsHandedOff ==
  \A c \in checkpoints :
     \/ handoff[c.epoch] = c.root
     \/ handoff[c.epoch] = Torn /\ \A r \in runs : r.epoch = c.epoch => r.root = c.root

\* INV-ANCH-01, D-83: no checkpoint is written before its publication time,
\* by the host's clock, whatever was built early, retried or delayed in flight;
\* and none before its day by the chain's, however fast the host's clock is.
NeverEarly ==
  \A c \in checkpoints :
     /\ c.published_unix + skew >= PublicationTime(c.epoch)
     /\ DayIndex(c.published_unix) >= c.epoch

\* D-112: the one receipt an epoch can ever carry is Bitcoin's, over the root
\* on chain.
AttachedIsBitcoins ==
  \A c \in checkpoints : c.receipt_digest # NoDigest =>
     /\ c.receipt_digest.root = c.root
     /\ c.receipt_digest.bitcoin
     /\ <<c.epoch, c.receipt_digest.stamp>> \in confirmed

\* What Step::Submit assumes: "there is at most one such epoch at a time".
\* A checkpoint waits for its receipt only while it is the last one, so
\* taking the last epoch for the missing one is right.
OnlyTheLastIsSingle ==
  \A e \in Epoch : Single(e) => e = config.last_epoch

\* The worker stops for what an operator has to mend, or says "not published"
\* of an epoch that is: a node that is behind answered, there is nothing to
\* mend and the next start goes on.  A lost answer, a late transaction or a
\* restart never makes it see somebody else's root or a state next_step calls
\* impossible; only a clock that is more than a day fast makes the program
\* refuse it.
StopsForCause ==
  worker.pc = "exited" =>
     \/ worker.why \in {"NoHandoff", "EpochSlipExceeded", "ReceiptUnreadable",
                        "AttachRefused", "BudgetExhausted", "Crashed"}
     \/ worker.why = "NotPublished" /\ Checkpointed(worker.epoch)
     \/ worker.why = "Refused" /\ skew > EpochSeconds + PublishOffset

\* M-08: whatever the batcher may write today for the next epoch, a worker
\* with nothing else to do publishes today.
WritableIsPublishable ==
  LET next == config.last_epoch + 1
      idle == [Observe EXCEPT !.awaiting_attach = None, !.last_submitted = config.last_epoch]
  IN  RefuseToWrite(next, Now, Absent, Torn) = "Ok" =>
        NextStep(idle).kind \in {"Wait", "Publish"}

\* reconcile-anchor-cycle: the handoff, the receipt and the account of an
\* epoch agree.
Reconciles(e) ==
  /\ Verifies(handoff[e])
  /\ receipt[e] \notin {Absent, Torn}
  /\ receipt[e].root = RootFor(e) /\ receipt[e].bitcoin
  /\ Checkpointed(e)
  /\ CheckpointOf(e).root = RootFor(e)
  /\ CheckpointOf(e).receipt_digest = receipt[e]
  /\ Dual(e)
  /\ e \in config.start_epoch .. config.last_epoch

\* What the runbook's "resolved when reconcile returns clean" relies on: an
\* epoch the chain calls dual reconciles, through lost answers, late
\* attachments and second stamps, unless one of its files was torn or mislaid.
DualReconciles ==
  \A e \in Epoch : Dual(e) =>
     \/ Reconciles(e)
     \/ handoff[e] = Torn
     \/ \E r \in mislaid : r.epoch = e

\* The worker completed an observation in this step.
Looks ==
  /\ worker.pc = "observe"
  /\ \/ worker'.pc \in {"asleep", "perform"}
     \/ worker'.pc = "exited" /\ worker'.why = "EpochSlipExceeded"

Overdue(e) == Now - PublicationTime(e) > PublicationGrace
OverBudget(e) == Now - PublicationTime(e) > ReceiptBudget

\* alert.rs, H-90 and H-108: no look passes over an epoch that is overdue, or
\* that has waited too long for Bitcoin, whatever has become of its receipt;
\* and the worker never gives up a backlog without having said so, although
\* the alert and the slip barrier count the days on their own.
OperatorIsTold ==
  [][Looks =>
       /\ Overdue(config.last_epoch + 1) => "PublicationMissed" \in raised'
       /\ \A e \in Epoch : Single(e) /\ OverBudget(e) => "ReceiptUnconfirmed" \in raised'
       /\ worker'.pc = "exited" => {"PublicationMissed", "SequenceLag"} \subseteq raised']_vars

\* H-90, H-95: the log never stands still in silence.  A log that is overdue,
\* or a receipt over its budget, is mended, or the worker's alerts say so, or
\* the unit has failed and the operator is paged; whether the worker waits,
\* retries for ever, or dies and is started again.
StallsAreHeard ==
  /\ Overdue(config.last_epoch + 1) ~>
       \/ ~Overdue(config.last_epoch + 1)
       \/ "PublicationMissed" \in raised \/ worker = Failed
  /\ (\E e \in Singles : OverBudget(e)) ~>
       \/ \A e \in Singles : ~OverBudget(e)
       \/ "ReceiptUnconfirmed" \in raised \/ worker = Failed

\* Every published epoch gets its receipt, unless a file was torn and nobody
\* mended it.
AnchoredInTheEnd ==
  \A e \in Epoch :
     \/ <>[](handoff[e] = Torn \/ receipt[e] = Torn)
     \/ Single(e) ~> Dual(e)
=============================================================================
