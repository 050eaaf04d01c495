\* A log of at most one epoch under a watchdog that outlasts the bound before
\* its publication and not after it, requests that are prompt or time out, steps
\* that take no time, a poll interval or longer than the watchdog allows, and a
\* client that is changed once.
CONSTANTS
  RpcTimeout = 1
  PollInterval = 2
  PartitionRetryLimit = 2
  RetryInitial = 1
  RetryMax = 2
  WatchdogSec = 9
  StartLimitIntervalSec = 16
  StartLimitBurst = 2
  RestartSec = 1
  Sockets = {"abstract", "path"}
  RequestTimes = {0, 1}
  StepTimes = {0, 2, 10}
  MaxEpochs = 1
  MaxChanges = 1
SPECIFICATION Spec
INVARIANTS
  FedInTime
  QuickRefusalsPage
