# Verification of the CertiMining Anchored Log

TLA+ models of the log's running parts, the TLC runs that check them on small
instances, and TLAPS proofs for every value of the constants. Definitions keep
the source's names; `PROJECT.json` maps each one to its lines.

## The system

A batcher collects leaf digests from submitters, signs each a promise naming
the epoch (a UTC day) its leaf will be sealed in, and seals one Merkle tree per
epoch. The root goes to a worker as a signed handoff file. The worker publishes
it on Solana through the checkpoint program (anchor A), has it timestamped into
Bitcoin through OpenTimestamps, and attaches the receipt's digest to the
checkpoint (anchor B). Clients, in Rust and again in TypeScript, verify
inclusion, promises, disclosure packages and anchors.

| Component | State | Operations | Talks to | Correct when |
|---|---|---|---|---|
| batcher (`certimining-log/batcher.rs`) | epoch, counter, pending leaves, overflow queue, snapshot | start, submit, seal, snapshot, resume | submitters, signer, the service persisting it | promises are kept across crashes; snapshots resume; refusals are forced |
| epoch tree, proofs (`tree.rs`, `proof.rs`, `ts/src/tree.ts`) | none | build, prove, verify | batcher, clients | proofs exist for exactly the sealed leaves; both implementations agree |
| promises (`promise.rs`, `promise_receipt.rs`, `ts/src/promise.ts`) | none | verify_promise, promise_kept, judging a promise passed on with a receipt | submitters, those they pass promises to | a promise is found kept exactly when it was; its deadline is bounded |
| checkpoint program (`programs/certimining-checkpoint`) | config account, one account per epoch | initialize, publish_checkpoint, attach_anchor_receipt | worker, every reader | contiguous, one root per epoch, write-once, on the calendar |
| schedule, worker decision (`schedule.rs`, `worker.rs`) | none | publication_time, next_step | worker loop | never early, attach before submit before publish |
| handoff (`handoff.rs`, `bin/batcher-handoff.rs`) | `<epoch>.handoff` | refuse_to_write, write, verify | batcher, worker | what is published is what was handed over |
| worker loop (`bin/anchor-b-worker.rs`, `observe.rs`, `publish.rs`) | consecutive_failures | observe, publish, submit, attach, retry, exit | cluster, calendars, files | survives lost answers, restarts and late transactions |
| alerts (`alert.rs`), units (`systemd/`) | none; the unit's start count | alerts over one observation; restart, give up, page | worker, operator | no stall is silent |
| cluster and OTS clients (`cluster.rs`, `ots.rs`) | receipt files, transactions in flight | publish, settle, attach; submit, upgrade, verify_receipt | Solana, calendars | outcomes read from the chain, never assumed |
| fetch, lineage (`fetch.rs`, `anchor.rs`, `ts/src/solana`) | none | root_for_epoch, sequence_lag, status_of, provenance, fetchCheckpoint | RPC nodes | an answer is about the epoch asked, and about one chain |
| Bitcoin headers (`bitcoin.rs`, `bin/confirm-anchor-b.rs`) | a checkpoint and a file of headers | verify_chain, confirm | holders of receipts | accepts exactly what its rules allow; confirmed stays confirmed |
| asset chain (`certimining-core/state.rs`, `ts/src/chain.ts`) | head, sequence, flags per asset | start, apply, snapshot, resume | issuers, clients | a head decides everything; dates, flags and numbers follow the history |
| keys and signers (`separation.rs`, `crypto/signer.rs`, `bin/anchoring-preflight.rs`) | key files and public manifests of three hosts | preflight, connect, sign | every host, an external key provider | no key serves two roles; a signature is the pinned authority's |
| supervision (`notify.rs`, `WorkerPolicy`, `ots.rs`' fingerprint, `systemd/`) | what systemd counts; the client's installation | READY, WATCHDOG, start, restart, page | systemd, operator | fed in time; refusals in a row page; nothing starts on a client that the checks can tell from the pinned one |
| disclosure (`ts/src/disclosure.ts`) | none | verify a package, report a position and flags | readers of a package | genuine packages accepted, accepted ones were filed |

Hard behaviours: crashes between an operation and its save, signer failure in
the middle of a submission, promises made epochs ahead of a queue, two addresses
for one epoch, a publication whose answer is lost and that lands later, an
observation gone stale before it is acted on, files torn or lost, two writers of
one file, a service manager that gives up, forks and stale replicas behind one
endpoint, Bitcoin's reorganisations and retargets, clocks that disagree, budgets
and counters at their limit. `PROJECT.json` lists them under `hazards` at their
lines, with the properties meant to catch them.

## Modules

| Module | Models | |
|---|---|---|
| `PromiseLedger` | what a batcher promises its submitters | abstract |
| `Batcher` | the batcher, its snapshot and the service around it | implements `PromiseLedger` |
| `PublicLog` | what the program promises every reader | abstract |
| `Checkpoint` | the on-chain program, the chain's clock, funded addresses | implements `PublicLog` |
| `Schedule`, `Worker`, `Handoff`, `Alerts` | publication times; `next_step`; `refuse_to_write`; `alerts` | operators only |
| `AnchorCycle` | batcher-handoff, worker loop, units, both clients, Bitcoin, with `Checkpoint` as the chain | composition |
| `AssetChain` | `state.rs` and `chain.ts` side by side, an issuer that crashes and a reader | |
| `Preimage`, `EpochTree`, `Promise` | hashes and signatures; trees and proofs, twice; promises, twice | operators only |
| `Disclosure` | an asset's records, a batcher sealing epochs, packages released and altered, `disclosure.ts` | composition |
| `Headers` | `bitcoin.rs` | operators only |
| `BitcoinAnchor` | a growing and reorganising Bitcoin, `confirm-anchor-b`, receipts, promises passed on | composition |
| `ChainViews` | a forking chain, readers and a publisher's retry path | |
| `Custody` | three hosts, their key files and manifests, the preflight, processes, a signer in front of a provider | |
| `Watchdog` | the worker as a supervised process, in seconds: start, notifications, retries, start limit, the client's pin | |
| `AuthorityProofs` | theorems about `Checkpoint` and `Custody` | |
| other `...Proofs` | theorems about the module of that name | 7 modules |
| `MC...` | the instances TLC checks | |

An operator whose comment begins "Mutant" is not part of the model: it is a
plausible bug in the definition after it, which some property must catch.

### Batcher

`batcher` is the struct in memory, `disk` the saved `BatcherSnapshot`; both are
the same record. `Submit`, `RefuseSubmit`, `SignerFails`, `Seal`, `RefuseSeal`
act on memory and leave an answer in `reply`; `Commit` saves and hands the
answer out in one step, which the code demands of its service ("atomically and
without reverting"); `CrashRestart` drops what was not committed and goes
through `ResumeAccepts`. The tree of a sealed epoch is the set of leaves it
commits to. `promises` and `sealed` record what left the service. A service
whose storage reverts could resume from an older snapshot; a snapshot cannot
tell, and the model assumes storage that does not.

### Checkpoint

Every instruction has a verdict operator (the first check that fails, in the
code's order) and an action enabled at "Ok". An epoch's address is a pair of
epoch and bump, since the program takes the bump from the caller. `Fund` is
anybody sending lamports. `CreationFails` follows the two ways the program
creates an account; the system program's refusal is `CreateAccountRefuses`.

### AnchorCycle

One action per outcome of each call the worker loop makes. The worker's record
says where it is: observing, performing a step, sending a publication with
attempts left, attaching, asleep, exited, failed. Between observing and
performing anything else may happen. A transaction whose answer was lost is
`inflight` until it lands or expires. A receipt stands for its bytes: root,
stamp, and whether it carries Bitcoin's attestation. The log starts initialised
at `StartEpoch`. What was just written may be read back from a node that has not
seen it: `publish` and `attach` then say `NotPublished`, which ends the process
although there is nothing to mend (`PublishReadBackFails`, `AttachReadFails`).

A run of batcher-handoff is `BeginRun` (which reads the file and decides),
`OpenFile` (which truncates it) and `WriteFile`, and may crash in between;
`ConcurrentRuns` says how many there may be at once. `raised` holds the alerts
of the worker's last look. `Restart` counts starts against the unit's
`StartLimitBurst`; beyond it the unit fails, the operator is paged and
`OperatorStarts` begins again. `WorkerCrashes` stands for a crash and for the
watchdog's kill. The hosts' clocks are ahead of the chain's by `skew`, one of
`HostSkews`. `Reconciles` is `reconcile-anchor-cycle`.

Abstractions: the wait between polls is shorter than a tick; all starts the
limit counts fall into its interval; the `.root` file beside a receipt is part
of the receipt; `observe`'s reads of the chain are one step, which a stale
observation subsumes (`ChainViews` takes reads apart); a run of batcher-handoff
reads the file as it is, where `bin/batcher-handoff.rs:249` also takes a file it
cannot read for none.

### AssetChain

One asset at schema 1. `chain` is the `AssetChain` of the issuer's process,
`stored` the snapshot it would resume from, `reader` the `ChainState` of somebody
replaying records through `chain.ts`; `answer` and `verdict` are what `apply` and
`applyRecord` returned last. A head is the sequence of leaves it commits to.
`Arriving` is what may be handed to an engine: right or wrong in each of the
things the checks look at, in any combination. `CrashResume` forgets what was
applied since the last `Store`, so the issuer may then grow another branch: the
engine has nothing to tell a fork from a retry, and the model claims nothing
about it. The engines verify with different libraries, and "Ed25519 (RFC 8032)"
does not settle every signature (`ts/SPEC-DEFECTS.md`, SD-07, open): a signature
carries the libraries that take it, both when it was made over these bytes,
neither when over others, and any of the two when it is left open. Left out: several assets, schema versions other than 1 (both engines
refuse to start), and the pure accessor `leaf`.

### Preimage, EpochTree, Promise, Disclosure

A digest is its tagged preimage, so Keccak is injective and tags keep kinds
apart. No property reads a tag, but several rest on them: that a node or a
filler never passes for a leaf (`ProvesExactlyWhatIsThere`), and that no step of
a chain is a genesis head (`WalkToChain`). A signature is the pair of key and
message, or one that RFC 8032 leaves open and that the libraries named in it take
(`VerifyStrict`, `Ed25519Verify`). The tree's only use of a
hash as a number, the first two bytes of a slot seed, is the function `low`,
chosen freely: every collision and every wrap of the probe happens. Trees,
proofs, `verify`, `verify_promise` and `promise_kept` are there twice, once
from Rust and once from TypeScript. `Proof` is asked for identifiers the tree
holds; `SubmissionNotInEpoch` for any other is left out.

`Disclosure` has an asset's chain of records and one more signed record beside
it (`aside`): at a taken sequence number, at number zero, of an unknown category
or of another asset. `Submit` gives any of them the next identifier; `Seal`
closes an epoch, up to three, without the submissions the batcher leaves out,
and settles `low` for the others. `Release` makes a package of a record from the
first epoch, with a segment over leaves of the chain, one of which may be
invented, since `walkSegment` takes any 32 bytes for a leaf; `Replace` alters up
to `MaxReplaced` parts of it, its heads and leaves among them. The promises and
records are honestly signed, so SD-07 has no case here. A caller verifies
with or without a configured height, an expected head or a trusted head.

### Headers, BitcoinAnchor

`Headers` is `bitcoin.rs` with smaller numbers: digits of base 4, targets of
three, mantissas of two, a retarget every second block, a median of three, one
header above to confirm. `VerifyChain` is the walk; `StatedRules` states
the rules of one block over the whole range without a walk, and the two are
compared. They are the rules `bitcoin.rs` gives itself, and not all of Bitcoin's:
timestamps have no bound above (lines 52-56 and 548-554), of the version floors
there is the last one, and a range over a boundary whose period began before
the checkpoint is refused (536-540). The median of a span is stated as the time that stands in its middle,
not as a sort, and powers of the base as a recursive function (`Weight`). The checkpoint comes from the environment, well formed or not.
Bitcoin offers headers that follow the rules and headers that break one, and
`Reorganise` replaces up to `ConfirmationDepth` blocks. `ConfirmAnchorB` and
`Transfer` keep what the tool once confirmed or judged, so that later states can
contradict it.

### ChainViews

A slot has one block at most, with a parent; a view is a block with its
ancestors. Each request is answered from any view. `sequence_lag` asks in
batches that carry the configuration; `fetchCheckpoint` asks twice;
`Cluster::publish` settles, finds out who wrote, refers. An endpoint may also
hand back a strange account: another epoch's, or another program's. A block is
produced on some parent and then executes transactions one at a time, in any
order. Blocks are built before a question is asked: an answer may come from any
view, so a chain that grows in between is a question asked of the longer one.

### Custody

Three hosts, each with the public identities of its manifest and the files its
private variables name. They begin as the runbook describes and are then
changed: a file copied, lost, garbled or opened to others, an identity edited, a
variable left set, the batcher pointed at the authority's own file, the key
behind the provider's alias exchanged, challenge and proof made anew.
`PreflightVerdict` is the preflight's first refusal in the code's order.
`Preflight` and `StartCleared` are the two programs that
`scripts/devnet-anchoring-cycle.sh` runs one after the other: the identities are
the script's environment and pass from the one to the other (`cleared`), the key
files are read twice and may have changed. `held` names the roles whose key is
still the one the preflight opened; of the others the preflight says nothing,
because the process compares its keys with nothing. `Start` is the worker's
unit, which runs no preflight, and `TrySignMessage`
the signer that verifies what its provider returns. No action sees two hosts at
once, which is what makes separation between hosts a question.

### Watchdog

`worker` is the process: starting (which verifies the client's pin), observing
(with what it has asked and how often it failed), in a step, running the client,
down, failed. A request takes any time in `RequestTimes`, up to its timeout, and
a step any in `StepTimes`. A nap ends within a poll interval; a publication sends
and confirms up to three times (`cluster.rs:76`) and the client runs without a
timeout (`ots.rs:390`), so nothing bounds those, and one that outlasts the
watchdog is killed. `quiet` is how long the watchdog was not fed and `spent` how
much of that the step since the last look took; `age` is how long ago the process
was started. `window` is what the start limit counts: an interval that begins
with a start, stays where it is, and begins anew with the first start after it
has passed. `streak` is how many processes ended one after another soon after
their start. `AnchorCycle` counts ticks and every start; `Watchdog` counts
seconds.

`CheckFingerprint` is what `ots.rs` tests and no more: a file in `__pycache__` or
one that is not a `.py` is not looked at (line 337), the entry point need only
contain the import and its first line the path of the virtual environment (line
330). That the pinned client and no other runs is therefore not claimed.

## Runs

| Run | Bounds | Shows |
|---|---|---|
| `batcher` | 1 leaf value, capacity 2, merge delay 2, u64 up to 7, fair | promises kept; own snapshots resume; implements `PromiseLedger`; every promise sealed in the end |
| `checkpoint` | 2 keys, 1 root, 2 receipts, 2 bumps, 4 days, fair | one root per epoch; implements `PublicLog`; catches up whatever is funded |
| `anchor_cycle` | 3 epochs and a day, 3 ticks a day, 2 roots, slip 1, 3 starts, any 2 faults | the chain carries what was handed over, with Bitcoin's receipt; one epoch single at a time; a dual epoch reconciles; stops for cause or at a node that is behind; slip allowances agree; no look passes over what is overdue |
| `anchor_cycle_live` | 1 root, hosts right or 2 days fast, slip 2, 2 starts, any 2 faults, fair | nothing early by either clock; every published epoch gets its receipt unless a file stays torn; a log that stands still is heard of |
| `asset_chain` | 3 records, categories 0, 2, 4 and the unknown 5, 2 dates, 1 signing key | state follows the head; Rust and TypeScript answer alike but for a signature their libraries differ on |
| `inclusion` | 3 identifiers, heights 1 and 2, 3 epochs, 1 part replaced | proofs for exactly the real leaves; one set, one tree; implementations agree; promises found kept exactly when they are; genuine packages accepted, accepted ones filed, established positions recompute |
| `bitcoin` | 2 retargets, 3 times of day, 1 reorganisation | the walk accepts what the stated rules accept; confirmed survives; judgments stand; deadlines bounded |
| `views` | 2 slots, up to 2 transactions each of 6, a scan of 3 requests | lag is one observation and accuses nobody; roots are the epoch's; missing epochs classified; the writer recovered; bound references are of one chain |
| `custody` | 3 hosts, any 2 changes, 2 processes, 1 signature | no seed under two roles among processes cleared on one manifest, for keys still those the preflight opened; an admitted signature is the pinned authority's over what was asked |
| `watchdog` | requests that are prompt or time out, steps that take no time, a poll or longer than the watchdog, 2 retries, burst 2, 1 epoch, 1 change to the client | unfed no longer than the last step and the bound of the code's requests and delays; quick refusals in a row page |

The bounds reach what matters. Identifiers tell submissions apart and no
operation looks into a leaf, so one leaf value is enough for TLC; the program
never reads the root; the theorems hold for any set of either. The queue fills
twice over and the counter runs out (`batcher`); a log falls two days behind and
two addresses compete for an epoch (`checkpoint`); a publication is lost,
retried and lands late across a restart, a receipt is lost, stamped again and
put back, a handoff is torn and rewritten (`anchor_cycle`); the unit gives up
and is started again (`anchor_cycle_live`); the third record needs what only the
first one said, the newest date is the last date, the oldest is i64::MIN and the
chain runs into u64::MAX (`asset_chain`); three submissions collide at the end
of four slots (`inclusion`); a retarget is clamped, loses digits to the encoding
and is followed by another (`bitcoin`); two forks carry a transaction in the
same slot, once failed and once not (`views`). `MaxFaults` is one budget for
lost answers, crashes, unreachable nodes, failed stamps, mislaid receipts, a fast
host, rewritten handoffs, and a tick inside a cycle. Production values are
capacity 2^height with heights 4 to 16, a day of 86400 s, publication offset
3600 s, lead 600 s, 3 attempts, 5 retries, slip 1, 3 starts, alert thresholds of
1800 s, 7200 s, 1 epoch and 259200 s, retarget 2016, median 11, request timeout
30 s, poll 300 s, watchdog 1800 s, 3 starts in 3600 s. The watchdog of the
`watchdog` run lasts longer than an empty log's quiet and less than that of a
log of one epoch or a long step, so that it fires in both; two changes suffice for `custody` because a
collision takes one file and one identity, and the theorems take any number.

Where a cfg does not check deadlock, nothing obliges anyone to act once the
explored clock, blocks, epochs, changes or processes are used up. The type
invariants and the safety properties `Contiguous`, `NeverAheadOfCalendar`,
`WriteOnce`, `FundingNeverBlocks`, `RepublishIsToldApart`, `SealedAsPromised`,
`RefusesOnlyWhenFull`, `HeadsAreLawful`, `FlagsFollowHistory`, `AlwaysContinues`
and `PassedHostsAgree` are proved for every value of the constants and not run.

### Fairness

- `batcher`: the service answers; the caller, who owns the calendar, seals
  the current epoch again and again however busy intake is (strong fairness,
  since a pending answer disables it), and crashes do not for ever come between
  a seal and its commit.
- `checkpoint`: the clock runs and the authority keeps publishing.
- `anchor_cycle_live`: the worker loop, the batcher's runs, Bitcoin and the
  clock keep going, and an operator who is paged starts the unit again; faults
  are finite because `MaxFaults` bounds them. The loop restarts because its unit
  has `Restart=on-failure`; nothing forces files to be mended or transactions to
  land.

### Findings

Each is a run that TLC refutes; the model does what the code does, the property
says what the repository says.

- `anchor_cycle_two_writers`: a handoff once written is not replaced by another
  root; two runs of batcher-handoff that both found no file do replace it, also
  after the first root was published.
- `disclosure_position`: an established position is the head at seq - 1; with a
  trusted head, the segment's length is never compared with the sequence number.

Other disagreements met while modelling, where the model follows the code:

- `programs/certimining-checkpoint/src/lib.rs:200` says the epoch must be the
  chain's day or the day before; line 225 accepts any day not ahead. The
  mutant `PublishVerdictRecent` does what the comment says and never catches up.
- `docs/RUNBOOK-DEVNET-ANCHORING.md:60` says five retries, then stop; a failing
  step between successful observations is retried without end
  (`bin/anchor-b-worker.rs:331` resets the count).
- `bin/anchor-b-worker.rs:461` says an epoch is not submitted again; it is when
  the last epoch's receipt was lost.
- `handoff.rs:235` says an exact re-run "writes nothing"; it truncates and
  rewrites the file.
- `promise_receipt.rs:31` says an accusation still forms when the receipt lags;
  `verify_promise` refuses one that is more than an epoch behind.
- `worker.rs:110` and the unit file speak of one status call per epoch that
  carries a receipt; `observe.rs:91` makes one for every epoch of the log.
- INV-ANCH-01 gives each epoch a publication time "set by the schedule alone";
  `worker.rs:362` attaches first, so an epoch waits while its predecessor waits
  for Bitcoin.
- `anchor.rs:104` says that a failed transaction is not provenance;
  `cluster.rs:332` does not read the status's error, so a submission that failed
  beside its retry, in the slot the account records, is bound to what the retry
  wrote.
- `worker.rs:110` says that `longest_quiet_cycle` is how long a worker without a
  backlog may be quiet; it counts one request per attempt, and `observe.rs:93`
  makes one per epoch, and it counts a nap where a publication or the client may
  take longer. What holds is the last step and `RecoveryBound`, which together
  are `longest_quiet_cycle` for an empty log after a nap
  (`EmptyLogIsFedAsPromised`).
- `certimining-alert@.service:12` pages on the third refusal. The unit counts
  starts in an interval that does not slide, so slow refusals never add up, and
  of quick ones the interval may run out in the middle: up to
  2 * `StartLimitBurst` - 2 in a row may be followed by another start
  (`QuickRefusalsPage`), four with the deployed burst of 3. A worker that the
  watchdog kills again and again has lived 1800 s each time and is started 60 s
  later, so an interval of 3600 s never holds a third start and nobody is paged.
- `ts/SPEC-DEFECTS.md` SD-07 says that the specification does not settle which
  signatures verify; `verify.rs:43` and `hash.ts:30` use libraries that may
  differ, and the engines then part (`EnginesAgree`, `PromiseVerdictsAgree`).
- The recovery runbook dates `ReceiptUnconfirmed` by the receipt file;
  `alert.rs:235` dates it by the publication time.

## Proofs

The proof modules assume only what the modules' `ASSUME`s say: capacity, merge
delay and day length are positive, `StartEpoch` fits the counter, `NoDigest` is
a digest, some category is known, no date is before i64::MIN, durations are
naturals and requests end by their timeout, heights, times and encodings are
unsigned and blocks commit well-formed promises, a mantissa has at least two
digits, `PowLimit` leaves the sign bit of the largest exponent clear (as 0x1d00ffff
does), the hash an operator configures is the checkpoint block's, a tree has at least one level, sequence
numbers and seeds are unsigned, the values that stand for "nothing" are no
accounts, roots, files or signatures. TLC evaluates them in every run. Three theorems
about `AnchorCycle` and one more have a hypothesis of their own, named below.

`AuthorityProofs`, the program. `Contiguous` and `OneRootPerEpoch` are not inductive: a
second account at another bump is excluded only because `last_epoch` bounds
every account. `Inv` adds that nothing exists before the log opens, that the
range has begun by the calendar (`RangeHasBegun`), that accounts lie in it
(`InRange`) and fill it (`NoGap`). From `Inv` follow `TypeOK`, `Contiguous`,
`OneRootPerEpoch`, `NeverAheadOfCalendar`, `FundingNeverBlocks`,
`RepublishIsToldApart`, `WriteOnce`, and that every step of the program is a
step of `PublicLog` or a stutter.

`BatcherProofs`. `WellFormed` says of a snapshot that the queue stands behind a
full epoch and identifiers run without a hole up to the counter; submit and seal
keep it and resume accepts it. `EntriesPromised` and `PromisesPlaced` tie
promises to places: place i of the queue leads to epoch + 1 + (i - 1) div
capacity, and a seal moves every place forward by exactly one epoch.
`FollowsDisk` says memory is the disk or one accepted operation ahead, so a
crash loses only what nobody was told. From `Inv` follow `TypeOK`,
`PromisesKept`, `SealedAsPromised`, `ResumesItsOwn`, `RefusesOnlyWhenFull`, and
the refinement of `PromiseLedger`.

`AssetChainProofs`. No property of the chain is inductive alone: the date check
compares with one remembered date, so that a whole history is ordered needs
`StateFollowsHead`, and so do the flags. `Sound` joins type, summary and lawful
history; `Extension` shows once that any record either engine takes keeps it,
and `SameHeadSameState` that two sound chains at one head differ only in what
stands for no date, which gives `EnginesAgree`: the engines make their checks in
another order, and only a signature that one library takes and the other does not
parts them.

`AnchorCycleProofs`. What the worker does was decided from an observation that
may be old by the time it acts, so every property needs to say what is still
true of an old decision. `LogInv`: accounts fill the range from `StartEpoch` to
`last_epoch`, one each, and the last was due. `PublishingInv`: an epoch that is
decided on, being sent or in flight is due, and every checkpoint but the last has
its receipt. `ReceiptInv`: a receipt in a file, mislaid, attached or in flight
claims of Bitcoin only what is so. `StampInv`: every stamp after an epoch's first
cost a fault. `HandoffInv` (with one run of batcher-handoff at a time): a root on
chain, in flight or being sent is the one in the handoff or the one being written
there again, and there is one such root. `AttachInv`: an epoch being attached has its
checkpoint, and a checkpoint stays, so a node that denies one is behind. From these follow `TypeOK`,
`NeverEarly`, `OnlyTheLastIsSingle`, `AttachedIsBitcoins`,
`WritableIsPublishable` and the action property `OperatorIsTold`, and under
`ConcurrentRuns = 1` also `PublishedAsHandedOff`, `DualReconciles` and
`StopsForCause`: the finding `anchor_cycle_two_writers` shows that they need it.
`OperatorIsTold` needs the thresholds to leave room, as the deployed ones do:
`PublicationGrace + PublishOffset < MaxEpochSlip * EpochSeconds` and
`SequenceLagLimit <= MaxEpochSlip`.

`WatchdogProofs`. `FedInTime` bounds one number at all times, so `FedInv` says
how much of the bound each point of a cycle may have used: what the step took, so
many requests of this attempt, all those of the failed attempts and the delays
after them. `RecoveringIsNotKilled` follows: the watchdog kills a worker that is
looking at the chain only if it is shorter than that. `StreakInv` relates a
streak of quick refusals to the start limit's interval: one that goes back to the
interval's first start has kept the interval short, so that it cannot run out;
an interval that does run out therefore leaves a streak shorter than its count,
at most a burst less one, and the next interval adds at most a burst.
`Delay` and `Backoff` are recursive functions; that a delay never exceeds the
longest one and a sum of delays grows is proved by the least counterexample
(`SetInduction`), with no induction theorem.

`AuthorityProofs`, the keys. `CustodyInv` says of a host that is cleared
what its preflight established, and of every process what is left of that for
the keys it found again (`held`): they are the secret halves of its manifest's
identities and the identities differ; and a signature that was admitted is by the
key it was pinned to. Two processes of one manifest then have different keys
under different roles without any host having seen both: `KeysAreSeparate`,
`SignedAsAsked`, `PassedHostsAgree`, `CustodyTypeOK`.

`ChainViewsProofs`. `ChainInv` says of every block of every fork, not only of
the one that wins, that its accounts fill its range, that each was written by a
transaction of its ancestry, and that a slot has one block. `ReaderInv` and
`ScanInv` say of an unfinished question that each answer so far is a fact of one
block. They give `LagIsOneObservation`, `PlacedIsTheEpochs`,
`MissingIsClassified`, `RecoveredIsTheWriter` and `BoundIsOneChain` for any
number of slots, forks, transactions and requests.

`BitcoinAnchorProofs`. What the tool said concerns the chain of an earlier file.
`FileInv` says that no range that verifies is longer than the longest there has
been (`best`), so a reorganisation of at most `ConfirmationDepth` blocks never
reaches a block with that many above it (`Buried`); `ConfirmedInv` and
`EstablishedInv` say that a confirmation, and a judgment on a promise passed on,
is about such a block, and that what the walk established of it holds of the
file. `WalkAccepts` shows of the recursive walk that it accepts a range only if
it accepted each header of it, by the least header that it did not; `MedianIs`
that whoever is later than the median is later than more than half of the span.
They give `ConfirmedSurvives`, `JudgmentStands` and `DeadlineIsBounded` for every
depth, span, digit base and number of blocks. `PromiseVerdictsAgree` is about
operators: `verify_promise` in Rust and in TypeScript answer every promise alike,
or part over its signature alone.

`AcceptsExactlyTheRules` compares a walk with rules that are stated without one,
so most of its proof is arithmetic, in any even digit base. Expanding an encoding
and finding a mantissa are each one quotient by a power (`Value`, `Mantissa`).
`bits_from_target` encodes every target up to the limit (`CompactExists`), rounds
it down no further than it must (`CompactIsLargest`), and gives the canonical one
of a target's encodings (`CanonicalIs`). Hence `retarget_in` returns the largest target a
header can carry that the period and the limit allow (`RetargetIs`). Comparing
reversed digits from the top is comparing numbers (`WorkIs`), and the middle of the
sorted times is below a time just when more than half of the span is (`MedianIs`).
`Carries` says what the walk holds before each header: the target in force there,
the hash below, and the beginning of the period where it is known. `TurnIs` shows
that one turn keeps that and accepts what the rules accept, `CheckpointVerdictIs`
that what is settled before the walk is whether every boundary's period is known,
and `WalkIsTheRules` joins them. `FileInv` supplies that the file holds headers
(`IsHeader`) and `CheckpointIs` that the checkpoint is one the walk can start from.

`DisclosureProofs`. Trees, paths and walks are recursive functions, so the facts
about them come first, each by the least number at which it fails. A path is
determined from the top: tagged digests are injective, so siblings that reach the
root of a tree are that tree's, whatever they are made of, and the leaf below
them is the one in the slot (`PathIsSound`, `PathIsComplete`, which give
`TreeProves` and `OnlyTheTreeProves`). The order of building is the rank of an
identifier in the set (`OrderedOfSet`), a probe finds a free slot while there is
one, and both implementations of the probe find the same (`ProbesAgree`), so a
tree is a function of its set (`BuildOfSet`) and of neither implementation
(`BuildsAgree`); `VerifiersAgree` says the same of the two verifiers, on every
proof. A walk of heads can be undone from its end (`WalkBack`), so a walk that
ends at the head before record n has at most n - 1 steps, and begins at the
genesis head if it has as many (`WalkToChain`). `IInv` says that every sealed
epoch is such a tree, that the newest is the one that the seeds known now give,
and of a package what nobody can make up: its signature is over bytes somebody
signed, and one that was not touched
is what the releaser wrote. Of a segment nothing is assumed but that it is a
sequence of leaves and heads: `PositionIsAnchored` holds whatever the leaves are,
because it follows from the links that `walkSegment` recomputes. From it follow `ProvesExactlyWhatIsThere`,
`TreeIsItsSet`, `ImplementationsAgree`, `KeptMeansIncluded`, `AcceptedIsFiled`,
`PositionIsAnchored` and `GenuineAccepted`, for every height up to 16, every set
of identifiers and seeds, every chain of records and every number of epochs and
replaced parts.

Only model-checked: liveness (`EventuallySealed`, `CatchesUp`,
`AnchoredInTheEnd`, `StallsAreHeard`), which is out of the prover's reach. Every
safety invariant and action property of the passing runs is stated by a theorem.

## Plan

Done: batcher, checkpoint program, the daily cycle with its units and alerts, the
worker under supervision, keys and signers, the asset chain, trees, promises and
disclosure in Rust and TypeScript, Bitcoin's headers, readers of a forking chain,
and proofs about all of these. What is left is under "Not modelled".

## Not modelled

Byte layouts and decoding (hashes are used as injective, signatures as
unforgeable), transaction assembly and RPC, the OpenTimestamps receipt's
operations, the canonical JSON, base58 and address derivation of `ts/src`,
`findAssetCommitment`, `slot_at_least`, systemd's own start timeout for a unit
whose READY never arrives, the provider's adapter and the tool that deploys
(neither is in the repository), and everything in `xtask`, `fuzz`, `benches`,
`demo`, `vectors` and `anchors` and the other `scripts`, which is not part of the
running system.
