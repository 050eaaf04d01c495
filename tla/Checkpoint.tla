----------------------------- MODULE Checkpoint -----------------------------
(***************************************************************************)
(* The on-chain program of programs/certimining-checkpoint/src/lib.rs: one *)
(* configuration account, one checkpoint account per epoch, and the three  *)
(* instructions initialize, publish_checkpoint, attach_anchor_receipt.     *)
(*                                                                         *)
(* An instruction runs alone and entirely or not at all, so an instruction *)
(* that is refused changes nothing: each has a Verdict operator giving the *)
(* code of the first check that fails, in the order the code makes them,   *)
(* and an action enabled when the verdict is "Ok".                         *)
(*                                                                         *)
(* A checkpoint account lives at an address derived from its epoch and a   *)
(* bump.  The program takes the bump from the instruction and does not     *)
(* check that it is the canonical one, so an epoch has several addresses.  *)
(* Anyone may send lamports to any of them; nobody but the program can put *)
(* data there.                                                             *)
(***************************************************************************)
EXTENDS Integers

CONSTANTS
  Key,            \* public keys: whoever may sign a transaction
  Root,           \* roots an epoch may carry
  Digest,         \* receipt digests, NoDigest among them
  NoDigest,       \* the all-zero digest: no receipt attached
  Bump,           \* the bumps that give a valid address for an epoch
  SecondsPerDay,  \* SECONDS_PER_DAY
  MaxClock        \* the chain's clock is explored up to here

ASSUME CheckpointAssumption ==
  /\ NoDigest \in Digest
  /\ SecondsPerDay \in Nat \ {0}
  /\ MaxClock \in Nat

VARIABLES
  clock,       \* Clock::unix_timestamp
  config,      \* the LogConfig account, or NoConfig
  checkpoints, \* the CheckpointAccount accounts
  funded       \* addresses holding lamports and no data: <<epoch, bump>>

vars == <<clock, config, checkpoints, funded>>

----------------------------------------------------------------------------
(* Accounts. *)

SchemaVersion == 1
TreeHeight == 4 .. 16
OpenTimestamps == 1   \* ANCHOR_KIND_OPENTIMESTAMPS

NoConfig == [schema_version |-> 0]

LogConfig ==
  [schema_version : {SchemaVersion}, authority : Key, last_epoch : Nat,
   tree_height : TreeHeight, start_epoch : Nat]

CheckpointAccount ==
  [schema_version : {SchemaVersion}, epoch : Nat, root : Root, published_unix : Nat,
   receipt_digest : Digest, anchor_kind : {0, OpenTimestamps}, bump : Bump]

ChainDay == clock \div SecondsPerDay

Initialized == config # NoConfig

\* This program owns the account at the address and it holds data.
Written(epoch, bump) == \E c \in checkpoints : c.epoch = epoch /\ c.bump = bump

Init ==
  /\ clock = 0
  /\ config = NoConfig
  /\ checkpoints = {}
  /\ funded = {}

----------------------------------------------------------------------------
(* initialize: whoever calls first owns the log. *)

\* Mutant: the account is created if needed rather than created.
InitializeVerdictTwice(tree_height, start_epoch) ==
  IF tree_height \notin TreeHeight THEN "MalformedPayload"
  ELSE IF start_epoch # ChainDay THEN "MalformedPayload"
  ELSE IF start_epoch < 1 THEN "ArithmeticOverflow"
  ELSE "Ok"

InitializeVerdict(tree_height, start_epoch) ==
  IF Initialized THEN "AccountInUse"
  ELSE IF tree_height \notin TreeHeight THEN "MalformedPayload"
  ELSE IF start_epoch # ChainDay THEN "MalformedPayload"
  ELSE IF start_epoch < 1 THEN "ArithmeticOverflow"
  ELSE "Ok"

Initialize(authority, tree_height, start_epoch) ==
  /\ InitializeVerdict(tree_height, start_epoch) = "Ok"
  /\ config' = [schema_version |-> SchemaVersion, authority |-> authority,
                last_epoch |-> start_epoch - 1, tree_height |-> tree_height,
                start_epoch |-> start_epoch]
  /\ UNCHANGED <<clock, checkpoints, funded>>

----------------------------------------------------------------------------
(* publish_checkpoint: existence first, then monotonicity, then calendar. *)

\* The system program refuses to create an account that holds lamports.
CreateAccountRefuses(epoch, bump) == <<epoch, bump>> \in funded

\* An empty address is created in one call; one that somebody funded is
\* topped up, allocated and assigned instead, which nothing refuses.
CreationFails(epoch, bump) ==
  <<epoch, bump>> \notin funded /\ CreateAccountRefuses(epoch, bump)

\* Mutant: existence alone guards an epoch.
PublishVerdictAnyEpoch(signer, epoch, bump) ==
  IF ~Initialized THEN "AccountNotInitialized"
  ELSE IF signer # config.authority THEN "ConstraintHasOne"
  ELSE IF config.schema_version # SchemaVersion THEN "UnsupportedSchemaVersion"
  ELSE IF Written(epoch, bump) THEN "CheckpointAlreadyWritten"
  ELSE IF epoch > ChainDay THEN "EpochOutOfOrder"
  ELSE IF CreationFails(epoch, bump) THEN "AccountInUse"
  ELSE "Ok"

\* Mutant: monotonicity before existence.
PublishVerdictOrder(signer, epoch, bump) ==
  IF ~Initialized THEN "AccountNotInitialized"
  ELSE IF signer # config.authority THEN "ConstraintHasOne"
  ELSE IF config.schema_version # SchemaVersion THEN "UnsupportedSchemaVersion"
  ELSE IF epoch # config.last_epoch + 1 THEN "EpochOutOfOrder"
  ELSE IF Written(epoch, bump) THEN "CheckpointAlreadyWritten"
  ELSE IF epoch > ChainDay THEN "EpochOutOfOrder"
  ELSE IF CreationFails(epoch, bump) THEN "AccountInUse"
  ELSE "Ok"

\* Mutant: the calendar check as its comment words it, so that a log two
\* days behind never catches up.
PublishVerdictRecent(signer, epoch, bump) ==
  IF ~Initialized THEN "AccountNotInitialized"
  ELSE IF signer # config.authority THEN "ConstraintHasOne"
  ELSE IF config.schema_version # SchemaVersion THEN "UnsupportedSchemaVersion"
  ELSE IF Written(epoch, bump) THEN "CheckpointAlreadyWritten"
  ELSE IF epoch # config.last_epoch + 1 THEN "EpochOutOfOrder"
  ELSE IF epoch > ChainDay \/ epoch + 1 < ChainDay THEN "EpochOutOfOrder"
  ELSE IF CreationFails(epoch, bump) THEN "AccountInUse"
  ELSE "Ok"

PublishVerdict(signer, epoch, bump) ==
  IF ~Initialized THEN "AccountNotInitialized"
  ELSE IF signer # config.authority THEN "ConstraintHasOne"
  ELSE IF config.schema_version # SchemaVersion THEN "UnsupportedSchemaVersion"
  ELSE IF Written(epoch, bump) THEN "CheckpointAlreadyWritten"
  ELSE IF epoch # config.last_epoch + 1 THEN "EpochOutOfOrder"
  ELSE IF epoch > ChainDay THEN "EpochOutOfOrder"
  ELSE IF CreationFails(epoch, bump) THEN "AccountInUse"
  ELSE "Ok"

Publish(signer, epoch, root, bump) ==
  /\ PublishVerdict(signer, epoch, bump) = "Ok"
  /\ checkpoints' = checkpoints \cup
       {[schema_version |-> SchemaVersion, epoch |-> epoch, root |-> root,
         published_unix |-> clock, receipt_digest |-> NoDigest,
         anchor_kind |-> 0, bump |-> bump]}
  /\ funded' = funded \ {<<epoch, bump>>}
  /\ config' = [config EXCEPT !.last_epoch = epoch]
  /\ UNCHANGED clock

----------------------------------------------------------------------------
(* attach_anchor_receipt: zero to a value, once. *)

AttachVerdict(signer, c, epoch, digest, kind) ==
  IF signer # config.authority THEN "ConstraintHasOne"
  ELSE IF config.schema_version # SchemaVersion THEN "UnsupportedSchemaVersion"
  ELSE IF kind # OpenTimestamps THEN "MalformedPayload"
  ELSE IF digest = NoDigest THEN "MalformedPayload"
  ELSE IF c.epoch # epoch THEN "EpochOutOfOrder"
  ELSE IF c.receipt_digest # NoDigest THEN "ReceiptAlreadyAttached"
  ELSE "Ok"

Attach(signer, c, epoch, digest, kind) ==
  /\ Initialized
  /\ c \in checkpoints
  /\ AttachVerdict(signer, c, epoch, digest, kind) = "Ok"
  /\ checkpoints' = (checkpoints \ {c}) \cup
       {[c EXCEPT !.receipt_digest = digest, !.anchor_kind = kind]}
  /\ UNCHANGED <<clock, config, funded>>

----------------------------------------------------------------------------
(* The chain around the program. *)

\* Anyone may send lamports to an address; only an empty one is told apart.
Fund(epoch, bump) ==
  /\ ~Written(epoch, bump)
  /\ funded' = funded \cup {<<epoch, bump>>}
  /\ UNCHANGED <<clock, config, checkpoints>>

Tick ==
  /\ clock < MaxClock
  /\ clock' = clock + 1
  /\ UNCHANGED <<config, checkpoints, funded>>

Day == 0 .. MaxClock \div SecondsPerDay

Next ==
  \/ \E key \in Key, height \in {3, 4, 17}, day \in Day : Initialize(key, height, day)
  \/ \E key \in Key, day \in Day, root \in Root, bump \in Bump : Publish(key, day, root, bump)
  \/ \E key \in Key, c \in checkpoints, day \in Day, digest \in Digest, kind \in 0 .. 2 :
        Attach(key, c, day, digest, kind)
  \/ \E day \in Day, bump \in Bump : Fund(day, bump)
  \/ Tick

Spec == Init /\ [][Next]_vars

\* The authority keeps publishing, and the chain's clock keeps running.
Fairness ==
  /\ WF_vars(Tick)
  /\ WF_vars(\E key \in Key, day \in Day, root \in Root, bump \in Bump :
               Publish(key, day, root, bump))

FairSpec == Spec /\ Fairness

----------------------------------------------------------------------------
(* Properties. *)

\* Every account is well-formed.
TypeOK ==
  /\ clock \in 0 .. MaxClock
  /\ config \in LogConfig \cup {NoConfig}
  /\ checkpoints \subseteq CheckpointAccount
  /\ funded \subseteq Nat \X Bump

\* INV-ANCH-02: publish_checkpoint leaves no gap and nothing outside the
\* range the configuration reports.
Contiguous ==
  \A day \in Day :
     (\E c \in checkpoints : c.epoch = day) <=>
        Initialized /\ day \in config.start_epoch .. config.last_epoch

\* INV-ANCH-06: one root per epoch, although the program takes any bump and
\* so could write one epoch at several addresses.
OneRootPerEpoch ==
  \A c, d \in checkpoints : c.epoch = d.epoch => c = d

\* H-11: the log never runs ahead of the chain's calendar, and an epoch is
\* not published before its day began.
NeverAheadOfCalendar ==
  /\ Initialized => config.last_epoch <= ChainDay
  /\ \A c \in checkpoints : c.epoch <= c.published_unix \div SecondsPerDay

\* One step as INV-ANCH-03 allows it.
OnlyTheReceipt ==
  /\ \A c \in checkpoints : \E d \in checkpoints' :
       /\ [c EXCEPT !.receipt_digest = NoDigest, !.anchor_kind = 0] =
          [d EXCEPT !.receipt_digest = NoDigest, !.anchor_kind = 0]
       /\ c.receipt_digest \in {NoDigest, d.receipt_digest}
  /\ Initialized => config' \in {config, [config EXCEPT !.last_epoch = @ + 1]}

\* INV-ANCH-03: once written, an account only ever changes by its receipt
\* going from zero to a value, and the configuration only by its last epoch
\* going up by one.
WriteOnce == [][OnlyTheReceipt]_vars

\* D-104: sending lamports to checkpoint addresses stops nobody.  Whatever is
\* funded, the authority can publish the next epoch as soon as its day begins.
FundingNeverBlocks ==
  Initialized /\ config.last_epoch + 1 <= ChainDay =>
     \A bump \in Bump :
        PublishVerdict(config.authority, config.last_epoch + 1, bump) = "Ok"

\* D-80: publishing again at the address an epoch is written at is told apart
\* from publishing out of order, which is what a publisher's retry relies on.
RepublishIsToldApart ==
  \A c \in checkpoints :
     PublishVerdict(config.authority, c.epoch, c.bump) = "CheckpointAlreadyWritten"

\* The program implements the public log.
Log == INSTANCE PublicLog WITH
  next      <- IF Initialized THEN config.last_epoch + 1 ELSE -1,
  published <- {[epoch |-> c.epoch, root |-> c.root] : c \in checkpoints},
  receipts  <- {[epoch |-> c.epoch, digest |-> c.receipt_digest] :
                  c \in {d \in checkpoints : d.receipt_digest # NoDigest}}

ImplementsPublicLog == Log!Spec

\* A log whose authority keeps publishing catches up with the calendar.
CatchesUp == \A day \in Day : Initialized /\ day <= ChainDay ~> Initialized /\ config.last_epoch >= day
=============================================================================
