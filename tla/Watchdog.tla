----------------------------- MODULE Watchdog ------------------------------
(***************************************************************************)
(* The worker as a supervised process, in seconds: its start and the pin   *)
(* of the OpenTimestamps client (ots.rs), the notifications of notify.rs,  *)
(* the retry policy of worker.rs with the time every request and every     *)
(* delay may take, the unit's watchdog, and systemd's start limit.         *)
(*                                                                         *)
(* AnchorCycle says what the worker does in a cycle; here a cycle is an    *)
(* observation, request by request, and a step that succeeds, fails or     *)
(* refuses.  A request takes any time up to its timeout and a nap up to    *)
(* one poll interval.  A publication sends up to three transactions and    *)
(* waits for each, and the client runs without a timeout: these steps take *)
(* any time at all, and one that outlasts the watchdog is killed.          *)
(***************************************************************************)
EXTENDS Integers

CONSTANTS
  RpcTimeout, PollInterval, PartitionRetryLimit, RetryInitial, RetryMax,
                         \* WorkerPolicy
  WatchdogSec, StartLimitIntervalSec, StartLimitBurst, RestartSec,
                         \* the unit
  Sockets,               \* what NOTIFY_SOCKET may name
  RequestTimes,          \* how long a request may take
  StepTimes,             \* how long a step may take
  MaxEpochs,             \* the log grows up to here
  MaxChanges             \* changes to the client's installation

ASSUME WatchdogAssumption ==
  /\ RpcTimeout \in Nat /\ PollInterval \in Nat /\ PartitionRetryLimit \in Nat
  /\ RetryInitial \in Nat /\ RetryMax \in Nat
  /\ WatchdogSec \in Nat /\ StartLimitIntervalSec \in Nat \ {0}
  /\ StartLimitBurst \in Nat \ {0} /\ RestartSec \in Nat \ {0}
  /\ RequestTimes \subseteq 0 .. RpcTimeout /\ StepTimes \subseteq Nat
  /\ Sockets \subseteq {"unset", "abstract", "gone", "path"}
  /\ MaxEpochs \in Nat /\ MaxChanges \in Nat

VARIABLES
  socket,   \* what NOTIFY_SOCKET names
  epochs,   \* how many epochs the log has published
  worker,   \* the process
  ready,    \* READY=1 arrived, and the watchdog runs
  quiet,    \* how long the watchdog was not fed
  spent,    \* how much of that the step since the last look took
  age,      \* how long ago the process was started
  window,   \* what the start limit counts: starts, and since when
  install,  \* the client's virtual environment
  streak,   \* processes that ended one after another soon after their start
  changes   \* changes so far

vars == <<socket, epochs, worker, ready, quiet, spent, age, window, install, streak, changes>>

----------------------------------------------------------------------------
(* worker.rs: WorkerPolicy. *)

\* partition_retry_delay, for the failures within the budget.
Delay[k \in 1 .. PartitionRetryLimit] ==
  IF k = 1 THEN RetryInitial
  ELSE IF 2 * Delay[k - 1] > RetryMax THEN RetryMax ELSE 2 * Delay[k - 1]

Backoff[k \in 0 .. PartitionRetryLimit] == IF k = 0 THEN 0 ELSE Backoff[k - 1] + Delay[k]

\* longest_quiet_cycle, which counts one request for an attempt.
LongestQuietCycle ==
  PollInterval + RpcTimeout * (PartitionRetryLimit + 1) + Backoff[PartitionRetryLimit]

\* observe: one request for the configuration and one for every epoch of the log.
Requests == epochs + 1

----------------------------------------------------------------------------
(* ots.rs: ReferenceClient. *)

\* What the two checks can tell apart of an installation: the sources the
\* manifest lists, a file beside them, the entry point and its first line, and
\* what --version writes to stdout.
Pinned == [sources |-> "pinned", beside |-> "nothing", shim |-> "pinned",
           interpreter |-> "pinned", report |-> "pinned"]

\* check_fingerprint: the listed sources hash to what the manifest says; a
\* file that is not listed is seen if it is a .py outside __pycache__; the
\* entry point contains the import and its first line the path of the virtual
\* environment, whatever else they say.
CheckFingerprint(client) ==
  /\ client.sources = "pinned"
  /\ client.beside \in {"nothing", "cache"}
  /\ client.shim \in {"pinned", "more"}
  /\ client.interpreter \in {"pinned", "more"}

\* check_version: exactly the pinned bytes on stdout.
CheckVersion(client) == client.report = "pinned"

----------------------------------------------------------------------------
(* notify.rs *)

\* socket_from and send_to.
Notify ==
  CASE socket = "unset" -> "NotSupervised"
    [] socket = "abstract" -> "AbstractSocket"
    [] socket = "gone" -> "Unwritable"
    [] socket = "path" -> "Ok"

----------------------------------------------------------------------------
(* Time. *)

\* The watchdog leaves the process d seconds more.
InTime(d) == ready => quiet + d <= WatchdogSec

\* Longer than the start limit looks back is all the same to it.
Capped(t) == IF t > StartLimitIntervalSec THEN StartLimitIntervalSec + 1 ELSE t

Passes(d) ==
  /\ age' = Capped(age + d)
  /\ window' = [window EXCEPT !.age = Capped(@ + d)]

\* d seconds pass in the process, and the watchdog is fed or not.
Elapse(d, fed) ==
  /\ quiet' = IF fed \/ ~ready THEN 0 ELSE quiet + d
  /\ Passes(d)

\* d seconds pass in a step.
Steps(d) ==
  /\ Elapse(d, FALSE)
  /\ spent' = IF ready THEN spent + d ELSE 0

\* A process that ends this soon, and is started again, leaves room for
\* StartLimitBurst like it in the interval.
Soon(d) == StartLimitBurst * (age + d + RestartSec) < StartLimitIntervalSec

Down == [pc |-> "down"]
Failed == [pc |-> "failed"]
Observing(failures) == [pc |-> "observe", asked |-> 0, failures |-> failures]

\* The process exits non-zero or is killed, after d seconds.
Ends(d) ==
  /\ worker' = Down
  /\ ready' = FALSE
  /\ quiet' = 0
  /\ spent' = 0
  /\ Passes(d)
  /\ streak' = IF Soon(d) THEN streak + 1 ELSE 0

Init ==
  /\ socket \in Sockets
  /\ epochs = 0
  /\ worker = [pc |-> "start"]
  /\ ready = FALSE
  /\ quiet = 0
  /\ spent = 0
  /\ age = 0
  /\ window = [age |-> 0, starts |-> 1]
  /\ install = Pinned
  /\ streak = 0
  /\ changes = 0

----------------------------------------------------------------------------
(* The process: run() of bin/anchor-b-worker.rs. *)

\* The client is what was pinned, as far as the checks see: only then is the
\* service manager told that the worker is ready.
StartOk ==
  /\ worker.pc = "start"
  /\ CheckVersion(install) /\ CheckFingerprint(install)
  /\ worker' = Observing(0)
  /\ ready' = (Notify = "Ok")
  /\ quiet' = 0 /\ spent' = 0
  /\ UNCHANGED <<socket, epochs, age, window, install, streak, changes>>

StartRefused ==
  /\ worker.pc = "start"
  /\ ~(CheckVersion(install) /\ CheckFingerprint(install))
  /\ Ends(0)
  /\ UNCHANGED <<socket, epochs, install, changes>>

\* One request of the observation is answered.
Answered(d) ==
  /\ worker.pc = "observe" /\ InTime(d)
  /\ worker.asked + 1 < Requests
  /\ worker' = [worker EXCEPT !.asked = @ + 1]
  /\ Elapse(d, FALSE)
  /\ UNCHANGED <<socket, epochs, ready, spent, install, streak, changes>>

\* And the last one: the failures are forgotten and the watchdog is fed.
Observed(d) ==
  /\ worker.pc = "observe" /\ InTime(d)
  /\ worker.asked + 1 = Requests
  /\ worker' = [pc |-> "step"]
  /\ Elapse(d, Notify = "Ok")
  /\ spent' = 0
  /\ UNCHANGED <<socket, epochs, ready, install, streak, changes>>

\* Mutant: a failure is not counted against the budget.
RetryPartitionUncounted(failures, d, stepped) ==
  IF failures >= PartitionRetryLimit
  THEN InTime(d) /\ Ends(d)
  ELSE /\ InTime(d + Delay[failures + 1])
       /\ worker' = Observing(failures)
       /\ Elapse(d + Delay[failures + 1], FALSE)
       /\ spent' = IF ready THEN spent + stepped ELSE 0
       /\ UNCHANGED <<ready, streak>>

\* retry_partition, after d seconds of which some were a step's: sleep and look
\* again, or stop.
RetryPartition(failures, d, stepped) ==
  IF failures >= PartitionRetryLimit
  THEN InTime(d) /\ Ends(d)
  ELSE /\ InTime(d + Delay[failures + 1])
       /\ worker' = Observing(failures + 1)
       /\ Elapse(d + Delay[failures + 1], FALSE)
       /\ spent' = IF ready THEN spent + stepped ELSE 0
       /\ UNCHANGED <<ready, streak>>

\* One request of the observation fails, after its timeout or at once.
ObserveFails(d) ==
  /\ worker.pc = "observe"
  /\ RetryPartition(worker.failures, d, 0)
  /\ UNCHANGED <<socket, epochs, install, changes>>

\* Step::Wait sleeps for a poll interval at most.
Naps(d) ==
  /\ worker.pc = "step" /\ d <= PollInterval /\ InTime(d)
  /\ worker' = Observing(0)
  /\ Steps(d)
  /\ UNCHANGED <<socket, epochs, ready, install, streak, changes>>

\* A step that is done: a publication, an attachment, or a submission that
\* finds the epoch stamped.
StepDone(d, published) ==
  /\ worker.pc = "step" /\ InTime(d)
  /\ worker' = Observing(0)
  /\ published => epochs < MaxEpochs
  /\ epochs' = IF published THEN epochs + 1 ELSE epochs
  /\ Steps(d)
  /\ UNCHANGED <<socket, ready, install, streak, changes>>

\* A publication, submission, upgrade or attachment that did not settle.
StepFails(d) ==
  /\ worker.pc = "step"
  /\ RetryPartition(0, d, d)
  /\ UNCHANGED <<socket, epochs, install, changes>>

\* Step::Refuse, a file an operator has to restore, or an answer of the chain
\* that no retry mends.
StepRefuses(d) ==
  /\ worker.pc = "step" /\ InTime(d)
  /\ Ends(d)
  /\ UNCHANGED <<socket, epochs, install, changes>>

\* submit and upgrade ask the client for its version, and then run it: two
\* processes, between which somebody may upgrade it.
ClientAsked(d) ==
  /\ worker.pc = "step"
  /\ IF CheckVersion(install)
     THEN /\ InTime(d)
          /\ worker' = [pc |-> "client"]
          /\ Steps(d)
          /\ UNCHANGED <<ready, streak>>
     ELSE RetryPartition(0, d, d)
  /\ UNCHANGED <<socket, epochs, install, changes>>

\* A stamp, or an upgrade with the sleep after one that Bitcoin has not
\* confirmed.
ClientRuns(d) ==
  /\ worker.pc = "client" /\ InTime(d)
  /\ worker' = Observing(0)
  /\ Steps(d)
  /\ UNCHANGED <<socket, epochs, ready, install, streak, changes>>

----------------------------------------------------------------------------
(* systemd, and the operator. *)

\* How long what the process is at may take, with the pause before the next
\* look if it fails.
Durations ==
  LET times == IF worker.pc = "observe" THEN RequestTimes ELSE StepTimes
      failures == IF worker.pc = "observe" THEN worker.failures ELSE 0
  IN  times \cup (IF failures < PartitionRetryLimit
                  THEN {t + Delay[failures + 1] : t \in times} ELSE {})

\* The process is killed the moment the watchdog runs out.
WatchdogFires ==
  /\ worker.pc \in {"observe", "step", "client"}
  /\ \E d \in Durations : ~InTime(d)
  /\ Ends(WatchdogSec - quiet)
  /\ UNCHANGED <<socket, epochs, install, changes>>

\* Mutant: one start more than the burst.
RestartOnceMore ==
  LET waited == window.age + RestartSec
  IN  /\ worker.pc = "down"
      /\ age' = 0
      /\ \/ /\ waited > StartLimitIntervalSec
            /\ worker' = [pc |-> "start"]
            /\ window' = [age |-> 0, starts |-> 1]
         \/ /\ waited <= StartLimitIntervalSec /\ window.starts <= StartLimitBurst
            /\ worker' = [pc |-> "start"]
            /\ window' = [age |-> waited, starts |-> window.starts + 1]
         \/ /\ waited <= StartLimitIntervalSec /\ window.starts > StartLimitBurst
            /\ worker' = Failed
            /\ UNCHANGED window
      /\ UNCHANGED <<socket, epochs, ready, quiet, spent, install, streak, changes>>

\* Restart=on-failure, RestartSec later.  The start limit's interval begins
\* with a start and is not moved until a start comes after it has passed; of
\* the starts within it StartLimitBurst are let through.
Restart ==
  LET waited == window.age + RestartSec
  IN  /\ worker.pc = "down"
      /\ age' = 0
      /\ \/ /\ waited > StartLimitIntervalSec
            /\ worker' = [pc |-> "start"]
            /\ window' = [age |-> 0, starts |-> 1]
         \/ /\ waited <= StartLimitIntervalSec /\ window.starts < StartLimitBurst
            /\ worker' = [pc |-> "start"]
            /\ window' = [age |-> waited, starts |-> window.starts + 1]
         \/ /\ waited <= StartLimitIntervalSec /\ window.starts >= StartLimitBurst
            /\ worker' = Failed
            /\ UNCHANGED window
      /\ UNCHANGED <<socket, epochs, ready, quiet, spent, install, streak, changes>>

\* The alert unit has paged; the operator resets the unit, which clears the
\* limit, and starts it.
OperatorStarts ==
  /\ worker.pc = "failed"
  /\ worker' = [pc |-> "start"]
  /\ age' = 0
  /\ window' = [age |-> 0, starts |-> 1]
  /\ streak' = 0
  /\ UNCHANGED <<socket, epochs, ready, quiet, spent, install, changes>>

\* One part of the installation is changed.  An upgrade changes what the
\* client says as well; a file in a cache, and an entry point that does more
\* than import the client, are changes no check sees.
InstallChanges ==
  /\ changes < MaxChanges
  /\ changes' = changes + 1
  /\ install' \in {[install EXCEPT !.sources = "edited", !.report = "other"],
                  [install EXCEPT !.sources = "edited"],
                  [install EXCEPT !.beside = "module"],
                  [install EXCEPT !.beside = "cache"],
                  [install EXCEPT !.shim = "other"],
                  [install EXCEPT !.shim = "more"],
                  [install EXCEPT !.interpreter = "other"],
                  [install EXCEPT !.interpreter = "more"],
                  Pinned}
  /\ UNCHANGED <<socket, epochs, worker, ready, quiet, spent, age, window, streak>>

Next ==
  \/ StartOk \/ StartRefused
  \/ \E d \in RequestTimes : Answered(d) \/ Observed(d) \/ ObserveFails(d)
  \/ \E d \in StepTimes :
       \/ Naps(d)
       \/ \E published \in BOOLEAN : StepDone(d, published)
       \/ StepFails(d) \/ StepRefuses(d) \/ ClientAsked(d) \/ ClientRuns(d)
  \/ WatchdogFires \/ Restart \/ OperatorStarts
  \/ InstallChanges

Spec == Init /\ [][Next]_vars

----------------------------------------------------------------------------
(* Properties. *)

\* What a worker that recovers may use up: every attempt of the budget asks
\* for the whole log, and waits after it failed.
RecoveryBound ==
  RpcTimeout * (PartitionRetryLimit + 1) * Requests + Backoff[PartitionRetryLimit]

\* H-98: after whatever mix of answers and timeouts, and whether its step or
\* its looks failed, a worker has gone unfed no longer than its last step took
\* and the bound for the log it looks at.  Of the step nothing is assumed: a
\* nap takes a poll interval at most, the client and a publication what they
\* take.
FedInTime == ready => quiet <= spent + RecoveryBound

\* RepeatedRefusal: the worker is never started again after 2 * StartLimitBurst
\* - 1 processes in a row that each ended soon after their start.  It is not
\* StartLimitBurst: an interval that an older start opened may run out in the
\* middle of such a run, and the count starts over.
QuickRefusalsPage ==
  worker.pc \notin {"down", "failed"} => streak < 2 * StartLimitBurst - 1
=============================================================================
