--------------------------- MODULE AuthorityProofs ---------------------------
(***************************************************************************)
(* The checkpoint authority's two ends: what the program that obeys its    *)
(* key keeps, and who comes to hold that key and the others.  The two      *)
(* specifications are proved about separately.                             *)
(*                                                                         *)
(* The program, for every set of keys, roots, digests and bumps, and every *)
(* length of a day.  Contiguous and OneRootPerEpoch are not inductive:     *)
(* that a second account for an epoch cannot appear at another bump        *)
(* follows only from the configuration's last_epoch bounding every         *)
(* account.  Inv says so.                                                  *)
(*                                                                         *)
(* The keys, for every set of spare seeds and messages and for every       *)
(* number of changes, processes and signatures.  What a passed preflight   *)
(* saw of files and manifest (Cleared) becomes a fact about the process    *)
(* that starts after it, for the keys it finds as the preflight did        *)
(* (Checked), and no later change to the deployment can disturb it.  Two   *)
(* processes on one manifest then hold keys whose public halves are        *)
(* entries of that manifest, and its entries are pairwise distinct.        *)
(***************************************************************************)
EXTENDS Checkpoint, Custody, TLAPS

----------------------------------------------------------------------------
(* Days. *)

\* The day of a clock reading is a natural number.
LEMMA DayIsNat ==
  ASSUME NEW t \in Nat, NEW d \in Nat \ {0}
  PROVE  t \div d \in Nat
  OBVIOUS

\* A later reading of the clock is not on an earlier day.
LEMMA DaysGoOn ==
  ASSUME NEW t \in Nat, NEW d \in Nat \ {0}
  PROVE  t \div d <= (t + 1) \div d
  OBVIOUS

----------------------------------------------------------------------------
(* The inductive invariant. *)

\* Before initialize there is no checkpoint.
NothingBeforeOpening == ~Initialized => checkpoints = {}

\* The configuration's range is a range of days that have begun.
RangeHasBegun ==
  Initialized =>
    /\ config.start_epoch >= 1
    /\ config.start_epoch <= config.last_epoch + 1
    /\ config.last_epoch <= ChainDay

\* Every account is of an epoch of the range.
InRange ==
  \A c \in checkpoints : config.start_epoch <= c.epoch /\ c.epoch <= config.last_epoch

\* Every epoch of the range has an account.
NoGap ==
  Initialized =>
    \A e \in config.start_epoch .. config.last_epoch : \E c \in checkpoints : c.epoch = e

\* Every account was written on its day or after.
NotBeforeItsDay == \A c \in checkpoints : c.epoch <= c.published_unix \div SecondsPerDay

Inv ==
  /\ TypeOK
  /\ NothingBeforeOpening
  /\ RangeHasBegun
  /\ InRange
  /\ NoGap
  /\ OneRootPerEpoch
  /\ NotBeforeItsDay

\* The empty chain satisfies the invariant.
LEMMA InitInv == Init => Inv
  BY CheckpointAssumption
  DEF Init, Inv, TypeOK, NothingBeforeOpening, RangeHasBegun, InRange, NoGap,
      OneRootPerEpoch, NotBeforeItsDay, Initialized, NoConfig

\* A configuration account is never mistaken for an absent one.
LEMMA ConfigIsNotAbsent == ASSUME NEW c \in LogConfig PROVE c # NoConfig
  BY DEF LogConfig, NoConfig, SchemaVersion

\* initialize keeps the invariant: it opens an empty range ending yesterday.
LEMMA InitializeInv ==
  ASSUME Inv, NEW key \in Key, NEW height, NEW day \in Day, Initialize(key, height, day)
  PROVE  Inv'
<1>1. ~Initialized /\ height \in TreeHeight /\ day = ChainDay /\ ~(day < 1)
  BY DEF Initialize, InitializeVerdict
<1>2. day \in Nat /\ day >= 1 /\ day - 1 \in Nat
  BY <1>1, DayIsNat, CheckpointAssumption DEF ChainDay, Inv, TypeOK
<1>3. config' \in LogConfig /\ config'.start_epoch = day /\ config'.last_epoch = day - 1
  BY <1>1, <1>2 DEF Initialize, LogConfig
<1>4. Initialized' /\ checkpoints' = {} /\ ChainDay' = ChainDay
  BY <1>1, <1>3, ConfigIsNotAbsent DEF Initialize, Inv, NothingBeforeOpening, Initialized, ChainDay
<1>5. TypeOK'
  BY <1>3, <1>4 DEF Initialize, Inv, TypeOK
<1>6. RangeHasBegun' /\ NoGap'
  BY <1>1, <1>2, <1>3, <1>4 DEF RangeHasBegun, NoGap
<1> QED
  BY <1>4, <1>5, <1>6 DEF Inv, NothingBeforeOpening, InRange, OneRootPerEpoch, NotBeforeItsDay

\* publish_checkpoint keeps the invariant: the new account extends the range
\* by one, and no account of that epoch existed at any bump.
LEMMA PublishInv ==
  ASSUME Inv, NEW key \in Key, NEW day \in Day, NEW root \in Root, NEW bump \in Bump,
         Publish(key, day, root, bump)
  PROVE  Inv'
<1> DEFINE new == [schema_version |-> SchemaVersion, epoch |-> day, root |-> root,
                   published_unix |-> clock, receipt_digest |-> NoDigest,
                   anchor_kind |-> 0, bump |-> bump]
<1>1. /\ Initialized /\ config \in LogConfig
      /\ day = config.last_epoch + 1 /\ ~(day > ChainDay)
  BY DEF Publish, PublishVerdict, Inv, TypeOK, Initialized
<1>2. /\ checkpoints' = checkpoints \cup {new}
      /\ config' = [config EXCEPT !.last_epoch = day]
      /\ clock' = clock
      /\ funded' = funded \ {<<day, bump>>}
  BY DEF Publish
<1>3. /\ config' \in LogConfig /\ config'.start_epoch = config.start_epoch
      /\ config'.last_epoch = config.last_epoch + 1
      /\ config.last_epoch \in Nat /\ config.start_epoch \in Nat
  BY <1>1, <1>2 DEF LogConfig
<1>4. clock \in Nat /\ ChainDay \in Nat /\ ChainDay' = ChainDay /\ day \in Nat
  BY <1>1, <1>2, <1>3, DayIsNat, CheckpointAssumption DEF ChainDay, Inv, TypeOK
<1>5. new \in CheckpointAccount
  BY <1>4, CheckpointAssumption DEF CheckpointAccount
<1>6. \A c \in checkpoints : c.epoch \in Nat
  BY DEF Inv, TypeOK, CheckpointAccount
<1>7. Initialized'
  BY <1>3, ConfigIsNotAbsent DEF Initialized
<1>8. TypeOK'
  BY <1>2, <1>3, <1>5 DEF Inv, TypeOK
<1>9. RangeHasBegun'
  BY <1>1, <1>3, <1>4 DEF Inv, RangeHasBegun
<1>10. InRange'
  <2>1. \A c \in checkpoints : c.epoch <= config.last_epoch /\ config.start_epoch <= c.epoch
    BY DEF Inv, InRange
  <2>2. new.epoch = config.last_epoch + 1 /\ config.start_epoch <= config.last_epoch + 1
    BY <1>1 DEF Inv, RangeHasBegun
  <2> QED  BY <1>2, <1>3, <1>6, <2>1, <2>2 DEF InRange
<1>11. NoGap'
  <2> SUFFICES ASSUME NEW e \in config.start_epoch .. config.last_epoch + 1
               PROVE  \E c \in checkpoints' : c.epoch = e
    BY <1>3 DEF NoGap
  <2>1. CASE e = config.last_epoch + 1
    <3>1. new \in checkpoints' /\ new.epoch = e
      BY <2>1, <1>1, <1>2
    <3> QED  BY <3>1
  <2>2. CASE e \in config.start_epoch .. config.last_epoch
    BY <2>2, <1>1, <1>2 DEF Inv, NoGap
  <2> QED  BY <2>1, <2>2, <1>3
<1>12. OneRootPerEpoch'
  <2>1. \A c \in checkpoints : c.epoch # new.epoch
    BY <1>1, <1>3, <1>6 DEF Inv, InRange
  <2> QED  BY <1>2, <2>1 DEF Inv, OneRootPerEpoch
<1>13. NotBeforeItsDay'
  BY <1>1, <1>2, <1>4 DEF Inv, NotBeforeItsDay, ChainDay
<1> QED
  BY <1>7, <1>8, <1>9, <1>10, <1>11, <1>12, <1>13 DEF Inv, NothingBeforeOpening

\* What an accepted attach_anchor_receipt does to its account.
LEMMA AttachEffect ==
  ASSUME Inv, NEW key, NEW c \in checkpoints, NEW day, NEW digest \in Digest, NEW kind,
         Attach(key, c, day, digest, kind),
         NEW d, d = [c EXCEPT !.receipt_digest = digest, !.anchor_kind = kind]
  PROVE  /\ checkpoints' = (checkpoints \ {c}) \cup {d}
         /\ c \in CheckpointAccount /\ d \in CheckpointAccount
         /\ d.epoch = c.epoch /\ d.root = c.root /\ d.published_unix = c.published_unix
         /\ d.receipt_digest = digest
         /\ c.receipt_digest = NoDigest /\ digest # NoDigest
<1>1. kind = OpenTimestamps /\ digest # NoDigest /\ c.receipt_digest = NoDigest
  BY DEF Attach, AttachVerdict
<1>2. c \in CheckpointAccount
  BY DEF Inv, TypeOK
<1>3. d \in CheckpointAccount
  BY <1>1, <1>2 DEF CheckpointAccount
<1> QED
  BY <1>1, <1>2, <1>3 DEF Attach, CheckpointAccount

\* attach_anchor_receipt keeps the invariant: no epoch, root or time moves.
LEMMA AttachInv ==
  ASSUME Inv, NEW key \in Key, NEW c \in checkpoints, NEW day \in Day, NEW digest \in Digest,
         NEW kind \in 0 .. 2, Attach(key, c, day, digest, kind)
  PROVE  Inv'
<1> DEFINE d == [c EXCEPT !.receipt_digest = digest, !.anchor_kind = kind]
<1>1. /\ checkpoints' = (checkpoints \ {c}) \cup {d}
      /\ c \in CheckpointAccount /\ d \in CheckpointAccount
      /\ d.epoch = c.epoch /\ d.published_unix = c.published_unix
  BY AttachEffect
<1>2. clock' = clock /\ config' = config /\ funded' = funded
  BY DEF Attach
<1> HIDE DEF d
<1>3. TypeOK'
  BY <1>1, <1>2 DEF Inv, TypeOK
<1>4. NothingBeforeOpening' /\ RangeHasBegun'
  BY <1>2 DEF Inv, NothingBeforeOpening, RangeHasBegun, Initialized, ChainDay, Attach
<1>5. InRange' /\ NotBeforeItsDay'
  BY <1>1, <1>2 DEF Inv, InRange, NotBeforeItsDay
<1>6. NoGap'
  <2> SUFFICES ASSUME Initialized, NEW e \in config.start_epoch .. config.last_epoch
               PROVE  \E x \in checkpoints' : x.epoch = e
    BY <1>2 DEF NoGap, Initialized
  <2>1. PICK x \in checkpoints : x.epoch = e
    BY DEF Inv, NoGap
  <2> QED  BY <2>1, <1>1
<1>7. OneRootPerEpoch'
  BY <1>1 DEF Inv, OneRootPerEpoch
<1> QED
  BY <1>3, <1>4, <1>5, <1>6, <1>7 DEF Inv

\* Lamports sent to an address that holds no data disturb nothing.
LEMMA FundInv ==
  ASSUME Inv, NEW day \in Day, NEW bump \in Bump, Fund(day, bump)
  PROVE  Inv'
<1>1. day \in Nat
  BY CheckpointAssumption DEF Day
<1> QED
  BY <1>1 DEF Fund, Inv, TypeOK, NothingBeforeOpening, RangeHasBegun, InRange, NoGap,
              OneRootPerEpoch, NotBeforeItsDay, Initialized, ChainDay

\* The clock moving on takes no day back.
LEMMA TickInv == ASSUME Inv, Tick PROVE Inv'
<1>1. clock \in Nat /\ clock' = clock + 1 /\ clock' \in 0 .. MaxClock
  BY CheckpointAssumption DEF Tick, Inv, TypeOK
<1>2. ChainDay \in Nat /\ ChainDay' \in Nat /\ ChainDay <= ChainDay'
  BY <1>1, DayIsNat, DaysGoOn, CheckpointAssumption DEF ChainDay
<1>3. /\ config' = config /\ checkpoints' = checkpoints /\ funded' = funded
      /\ Initialized' = Initialized
  BY DEF Tick, Initialized
<1>4. RangeHasBegun'
  <2> SUFFICES ASSUME Initialized PROVE config.last_epoch <= ChainDay'
    BY <1>3 DEF Inv, RangeHasBegun
  <2>1. config.last_epoch \in Nat /\ config.last_epoch <= ChainDay
    BY DEF Inv, TypeOK, RangeHasBegun, Initialized, LogConfig
  <2> QED  BY <1>2, <2>1
<1> QED
  BY <1>1, <1>3, <1>4
  DEF Inv, TypeOK, NothingBeforeOpening, InRange, NoGap, OneRootPerEpoch, NotBeforeItsDay

\* Every step keeps the invariant.
LEMMA NextInv == Inv /\ [Next]_vars => Inv'
<1> SUFFICES ASSUME Inv, [Next]_vars PROVE Inv'
  OBVIOUS
<1>1. CASE \E key \in Key, height \in {3, 4, 17}, day \in Day : Initialize(key, height, day)
  BY <1>1, InitializeInv
<1>2. CASE \E key \in Key, day \in Day, root \in Root, bump \in Bump :
              Publish(key, day, root, bump)
  BY <1>2, PublishInv
<1>3. CASE \E key \in Key, c \in checkpoints, day \in Day, digest \in Digest, kind \in 0 .. 2 :
              Attach(key, c, day, digest, kind)
  BY <1>3, AttachInv
<1>4. CASE \E day \in Day, bump \in Bump : Fund(day, bump)
  BY <1>4, FundInv
<1>5. CASE Tick
  BY <1>5, TickInv
<1>6. CASE UNCHANGED vars
  BY <1>6 DEF vars, Inv, TypeOK, NothingBeforeOpening, RangeHasBegun, InRange, NoGap,
              OneRootPerEpoch, NotBeforeItsDay, Initialized, ChainDay
<1> QED
  BY <1>1, <1>2, <1>3, <1>4, <1>5, <1>6 DEF Next

\* The inductive invariant holds throughout.
THEOREM Invariance == Spec => []Inv
  BY InitInv, NextInv, PTL DEF Spec

----------------------------------------------------------------------------
(* The safety properties. *)

\* Every account the program holds is well-formed.
THEOREM TypeCorrect == Spec => []TypeOK
  BY Invariance, PTL DEF Inv

\* INV-ANCH-06: publish_checkpoint gives an epoch one account and so one
\* root, although the caller chooses the bump its address is derived from.
THEOREM OneRoot == Spec => []OneRootPerEpoch
  BY Invariance, PTL DEF Inv

\* INV-ANCH-02: the accounts are of exactly the epochs the configuration
\* reports.
THEOREM NoGapNoExtra == Spec => []Contiguous
<1>1. Inv => Contiguous
  <2> SUFFICES ASSUME Inv, NEW day \in Day
               PROVE  (\E c \in checkpoints : c.epoch = day) <=>
                         Initialized /\ day \in config.start_epoch .. config.last_epoch
    BY DEF Contiguous
  <2>1. ASSUME NEW c \in checkpoints, c.epoch = day
        PROVE  Initialized /\ day \in config.start_epoch .. config.last_epoch
    <3>1. Initialized /\ config \in LogConfig /\ c \in CheckpointAccount
      BY DEF Inv, NothingBeforeOpening, TypeOK, Initialized
    <3> QED  BY <3>1, <2>1 DEF Inv, InRange, LogConfig, CheckpointAccount
  <2>2. ASSUME Initialized, day \in config.start_epoch .. config.last_epoch
        PROVE  \E c \in checkpoints : c.epoch = day
    BY <2>2 DEF Inv, NoGap
  <2> QED  BY <2>1, <2>2
<1> QED  BY <1>1, Invariance, PTL

\* H-11: nothing is published ahead of the chain's calendar.
THEOREM CalendarKept == Spec => []NeverAheadOfCalendar
<1>1. Inv => NeverAheadOfCalendar
  BY DEF Inv, NeverAheadOfCalendar, RangeHasBegun, NotBeforeItsDay
<1> QED  BY <1>1, Invariance, PTL

\* D-104: whatever addresses are funded, publish_checkpoint accepts the next
\* epoch from its day on, at every bump.
THEOREM NeverBlocked == Spec => []FundingNeverBlocks
<1>1. Inv => FundingNeverBlocks
  <2> SUFFICES ASSUME Inv, Initialized, config.last_epoch + 1 <= ChainDay, NEW bump \in Bump
               PROVE  PublishVerdict(config.authority, config.last_epoch + 1, bump) = "Ok"
    BY DEF FundingNeverBlocks
  <2>1. config \in LogConfig
    BY DEF Inv, TypeOK, Initialized
  <2>2. config.last_epoch \in Nat /\ config.schema_version = SchemaVersion
    BY <2>1 DEF LogConfig
  <2>3. ChainDay \in Nat
    BY DayIsNat, CheckpointAssumption DEF ChainDay, Inv, TypeOK
  <2>4. ~Written(config.last_epoch + 1, bump)
    BY <2>2 DEF Written, Inv, InRange, TypeOK, CheckpointAccount
  <2>5. ~CreationFails(config.last_epoch + 1, bump)
    BY DEF CreationFails, CreateAccountRefuses
  <2> QED  BY <2>2, <2>3, <2>4, <2>5 DEF PublishVerdict
<1> QED  BY <1>1, Invariance, PTL

\* D-80: a second publication at a written address is always answered as
\* such, never as an epoch out of order.
THEOREM RetryIsAnswered == Spec => []RepublishIsToldApart
<1>1. Inv => RepublishIsToldApart
  <2> SUFFICES ASSUME Inv, NEW c \in checkpoints
               PROVE  PublishVerdict(config.authority, c.epoch, c.bump) = "CheckpointAlreadyWritten"
    BY DEF RepublishIsToldApart
  <2>1. Initialized /\ config \in LogConfig
    BY DEF Inv, NothingBeforeOpening, TypeOK, Initialized
  <2>2. config.schema_version = SchemaVersion
    BY <2>1 DEF LogConfig
  <2>3. Written(c.epoch, c.bump)
    BY DEF Written
  <2> QED  BY <2>1, <2>2, <2>3 DEF PublishVerdict
<1> QED  BY <1>1, Invariance, PTL

\* INV-ANCH-03: a written account changes only by its receipt going from
\* zero to a value, and an open log's configuration only by one epoch.
THEOREM NothingIsRewritten == Spec => WriteOnce
<1>1. ASSUME Inv, Next PROVE OnlyTheReceipt
  <2>1. CASE \E key \in Key, height \in {3, 4, 17}, day \in Day : Initialize(key, height, day)
    BY <2>1 DEF Initialize, InitializeVerdict, OnlyTheReceipt
  <2>2. ASSUME NEW key \in Key, NEW day \in Day, NEW root \in Root, NEW bump \in Bump,
               Publish(key, day, root, bump)
        PROVE  OnlyTheReceipt
    <3>1. day = config.last_epoch + 1 /\ config' = [config EXCEPT !.last_epoch = day]
      BY <2>2 DEF Publish, PublishVerdict
    <3>2. checkpoints \subseteq checkpoints'
      BY <2>2 DEF Publish
    <3> QED  BY <3>1, <3>2 DEF OnlyTheReceipt
  <2>3. ASSUME NEW key \in Key, NEW c \in checkpoints, NEW day \in Day, NEW digest \in Digest,
               NEW kind \in 0 .. 2, Attach(key, c, day, digest, kind)
        PROVE  OnlyTheReceipt
    <3> DEFINE d == [c EXCEPT !.receipt_digest = digest, !.anchor_kind = kind]
    <3>1. /\ checkpoints' = (checkpoints \ {c}) \cup {d}
          /\ c \in CheckpointAccount /\ c.receipt_digest = NoDigest
      BY <1>1, <2>3, AttachEffect
    <3>2. c = [schema_version |-> c.schema_version, epoch |-> c.epoch, root |-> c.root,
               published_unix |-> c.published_unix, receipt_digest |-> c.receipt_digest,
               anchor_kind |-> c.anchor_kind, bump |-> c.bump]
      BY <3>1 DEF CheckpointAccount
    <3>3. [c EXCEPT !.receipt_digest = NoDigest, !.anchor_kind = 0] =
          [d EXCEPT !.receipt_digest = NoDigest, !.anchor_kind = 0]
      BY <3>2
    <3>4. config' = config
      BY <2>3 DEF Attach
    <3> HIDE DEF d
    <3> QED  BY <3>1, <3>3, <3>4 DEF OnlyTheReceipt
  <2>4. CASE \E day \in Day, bump \in Bump : Fund(day, bump)
    BY <2>4 DEF Fund, OnlyTheReceipt
  <2>5. CASE Tick
    BY <2>5 DEF Tick, OnlyTheReceipt
  <2> QED  BY <1>1, <2>1, <2>2, <2>3, <2>4, <2>5 DEF Next
<1>2. Inv /\ [Next]_vars => [OnlyTheReceipt]_vars
  BY <1>1
<1> QED  BY <1>2, Invariance, PTL DEF Spec, WriteOnce

----------------------------------------------------------------------------
(* Refinement. *)

\* initialize opens the public log.
LEMMA InitializeOpens ==
  ASSUME Inv, NEW key \in Key, NEW height, NEW day \in Day, Initialize(key, height, day)
  PROVE  Log!Open(day)
<1>1. ~Initialized /\ day = ChainDay /\ ~(day < 1)
  BY DEF Initialize, InitializeVerdict
<1>2. day \in Nat
  BY <1>1, DayIsNat, CheckpointAssumption DEF ChainDay, Inv, TypeOK
<1>3. Inv' /\ config'.schema_version = 1 /\ config'.last_epoch = day - 1
  BY InitializeInv DEF Initialize, SchemaVersion
<1>4. Initialized'
  BY <1>3 DEF Initialized, NoConfig
<1> QED
  BY <1>1, <1>2, <1>3, <1>4 DEF Log!Open, Initialize

\* publish_checkpoint appends to it.
LEMMA PublishAppends ==
  ASSUME Inv, NEW key \in Key, NEW day \in Day, NEW root \in Root, NEW bump \in Bump,
         Publish(key, day, root, bump)
  PROVE  Log!Append(root)
<1> DEFINE new == [schema_version |-> SchemaVersion, epoch |-> day, root |-> root,
                   published_unix |-> clock, receipt_digest |-> NoDigest,
                   anchor_kind |-> 0, bump |-> bump]
<1>1. Initialized /\ config \in LogConfig /\ day = config.last_epoch + 1
  BY DEF Publish, PublishVerdict, Inv, TypeOK, Initialized
<1>2. config.last_epoch \in Nat /\ config' \in LogConfig /\ config'.last_epoch = day
  BY <1>1 DEF Publish, LogConfig
<1>3. Initialized'
  BY <1>2, ConfigIsNotAbsent DEF Initialized
<1>4. checkpoints' = checkpoints \cup {new}
  BY DEF Publish
<1>5. new.epoch = day /\ new.root = root /\ new.receipt_digest = NoDigest
  OBVIOUS
<1> HIDE DEF new
<1>6. {[epoch |-> c.epoch, root |-> c.root] : c \in checkpoints'} =
      {[epoch |-> c.epoch, root |-> c.root] : c \in checkpoints}
        \cup {[epoch |-> day, root |-> root]}
  BY <1>4, <1>5
<1>7. {d \in checkpoints' : d.receipt_digest # NoDigest} =
      {d \in checkpoints : d.receipt_digest # NoDigest}
  BY <1>4, <1>5
<1> QED
  BY <1>1, <1>2, <1>3, <1>6, <1>7 DEF Log!Append

\* attach_anchor_receipt attests an epoch that has no receipt yet.
LEMMA AttachAttests ==
  ASSUME Inv, NEW key \in Key, NEW c \in checkpoints, NEW day \in Day, NEW digest \in Digest,
         NEW kind \in 0 .. 2, Attach(key, c, day, digest, kind)
  PROVE  Log!Attest(c.epoch, digest)
<1> DEFINE d == [c EXCEPT !.receipt_digest = digest, !.anchor_kind = kind]
           attested(S) == {x \in S : x.receipt_digest # NoDigest}
<1>1. /\ checkpoints' = (checkpoints \ {c}) \cup {d}
      /\ d.epoch = c.epoch /\ d.root = c.root
      /\ d.receipt_digest = digest /\ c.receipt_digest = NoDigest /\ digest # NoDigest
  BY AttachEffect
<1>2. config' = config
  BY DEF Attach
<1> HIDE DEF d
<1>3. {[epoch |-> x.epoch, root |-> x.root] : x \in checkpoints'} =
      {[epoch |-> x.epoch, root |-> x.root] : x \in checkpoints}
  BY <1>1
<1>4. attested(checkpoints') = attested(checkpoints) \cup {d}
  BY <1>1
<1>5. \A x \in attested(checkpoints) : x.epoch # c.epoch
  BY <1>1 DEF Inv, OneRootPerEpoch
<1>6. {[epoch |-> x.epoch, digest |-> x.receipt_digest] : x \in attested(checkpoints')} =
      {[epoch |-> x.epoch, digest |-> x.receipt_digest] : x \in attested(checkpoints)}
        \cup {[epoch |-> c.epoch, digest |-> digest]}
  <2> HIDE DEF attested
  <2> QED  BY <1>1, <1>4
<1>7. \E x \in {[epoch |-> y.epoch, root |-> y.root] : y \in checkpoints} : x.epoch = c.epoch
  BY [epoch |-> c.epoch, root |-> c.root] \in
       {[epoch |-> y.epoch, root |-> y.root] : y \in checkpoints}
<1>8. \A y \in {[epoch |-> x.epoch, digest |-> x.receipt_digest] : x \in attested(checkpoints)} :
         y.epoch # c.epoch
  <2> HIDE DEF attested
  <2> QED  BY <1>5
<1> QED
  BY <1>2, <1>3, <1>6, <1>7, <1>8 DEF Log!Attest, Initialized

\* The program implements the public log: it opens once, grows one epoch at
\* a time, and gives each epoch one root and at most one receipt.
THEOREM ProgramImplementsPublicLog == Spec => ImplementsPublicLog
<1>1. Init => Log!Init
  BY DEF Init, Log!Init, Initialized
<1>2. ASSUME Inv, [Next]_vars PROVE [Log!Next]_(Log!vars)
  <2>1. ASSUME NEW key \in Key, NEW height \in {3, 4, 17}, NEW day \in Day,
               Initialize(key, height, day)
        PROVE  Log!Next
    BY <1>2, <2>1, InitializeOpens DEF Log!Next
  <2>2. ASSUME NEW key \in Key, NEW day \in Day, NEW root \in Root, NEW bump \in Bump,
               Publish(key, day, root, bump)
        PROVE  Log!Next
    BY <1>2, <2>2, PublishAppends DEF Log!Next
  <2>3. ASSUME NEW key \in Key, NEW c \in checkpoints, NEW day \in Day, NEW digest \in Digest,
               NEW kind \in 0 .. 2, Attach(key, c, day, digest, kind)
        PROVE  Log!Next
    <3>1. Log!Attest(c.epoch, digest)
      BY <1>2, <2>3, AttachAttests
    <3>2. PICK x \in {[epoch |-> y.epoch, root |-> y.root] : y \in checkpoints} :
             x.epoch = c.epoch
      BY [epoch |-> c.epoch, root |-> c.root] \in
           {[epoch |-> y.epoch, root |-> y.root] : y \in checkpoints}
    <3> QED  BY <3>1, <3>2 DEF Log!Next
  <2>4. ASSUME UNCHANGED <<config, checkpoints>>
        PROVE  UNCHANGED Log!vars
    BY <2>4 DEF Log!vars, Initialized
  <2> QED
    BY <1>2, <2>1, <2>2, <2>3, <2>4 DEF Next, Fund, Tick, vars
<1> QED
  BY <1>1, <1>2, Invariance, PTL DEF Spec, ImplementsPublicLog, Log!Spec

----------------------------------------------------------------------------
(* The keys: what is known of a process and of a signature. *)

\* What is known of a preflight that passed: the entries of its manifest
\* differ from one another, the keys it opened are its entries' and differ too.
Cleared(h, c) ==
  c # NoManifest =>
    /\ \A r, s \in PublicRole : r # s => c.manifest[r] # c.manifest[s]
    /\ \A r \in Allowed(h) : r \in PublicRole => PublicKey(c.keys[r]) = c.manifest[r]
    /\ \A r, s \in Allowed(h) : r # s => c.keys[r] # c.keys[s]

\* What is known of every process: the keys it opened are the ones its host
\* may hold, and for a process whose host had passed, the keys it found as
\* the preflight did match its manifest, whose entries differ from one
\* another, as those keys do.
Read(p) ==
  /\ p.host \in Host
  /\ DOMAIN p.keys = Allowed(p.host)
  /\ p.held \subseteq DOMAIN p.keys

Checked(p) ==
  p.manifest # NoManifest =>
    /\ \A r, s \in PublicRole : r # s => p.manifest[r] # p.manifest[s]
    /\ \A r \in p.held : r \in PublicRole => PublicKey(p.keys[r]) = p.manifest[r]
    /\ \A r, s \in p.held : r # s => p.keys[r] # p.keys[s]
    /\ p.host = "worker" => /\ p.trusts = p.manifest["BatcherSigning"]
                            /\ p.pinned = p.manifest["CheckpointAuthority"]

\* What is known of every signature: a process in front of a provider asked
\* for it, and it is the pinned key's over the message that was asked.
Admitted(s) ==
  /\ VerifyWithKey(s.pinned, s.asked, s.signature)
  /\ hsm
  /\ s.manifest # NoManifest =>
       /\ \A r, q \in PublicRole : r # q => s.manifest[r] # s.manifest[q]
       /\ s.pinned = s.manifest["CheckpointAuthority"]

CustodyInv ==
  /\ hsm \in BOOLEAN
  /\ DOMAIN cleared = Host /\ \A h \in Host : Cleared(h, cleared[h])
  /\ \A p \in ran : Read(p) /\ Checked(p)
  /\ \A s \in signed : Admitted(s)

----------------------------------------------------------------------------
(* Facts about the operators. *)

\* A role is held on a host that may hold it.
LEMMA AllowedRoles ==
  ASSUME NEW h \in Host
  PROVE  /\ Allowed(h) \subseteq KeyRole
         /\ h = "worker" /\ "CheckpointAuthority" \notin Allowed(h) /\ hsm \in BOOLEAN => hsm
         /\ hsm \in BOOLEAN /\ hsm => "CheckpointAuthority" \notin Allowed(h)
         /\ h = "batcher" => "BatcherSigning" \in Allowed(h)
BY DEF Host, Allowed, KeyRole, PublicRole

\* A public key determines its seed.
LEMMA SeedOfKey ==
  ASSUME NEW a, NEW b, PublicKey(a) = PublicKey(b)
  PROVE  a = b
BY DEF PublicKey

\* What a passed preflight establishes (run of anchoring-preflight.rs).
LEMMA PassedPreflight ==
  ASSUME NEW h \in Host, manifest \in [Host -> Manifest], PreflightVerdict(h) = "Ok"
  PROVE  /\ \A r, s \in PublicRole : r # s => manifest[h][r] # manifest[h][s]
         /\ \A r \in Allowed(h) : r \in PublicRole =>
              PublicKey(private[h][r].seed) = manifest[h][r]
         /\ \A r, s \in Allowed(h) : r # s => private[h][r].seed # private[h][s].seed
<1>1. ~Collides(manifest[h]) /\ DOMAIN manifest[h] = PublicRole
  BY DEF PreflightVerdict, Manifest
<1>2. ~\E r \in Allowed(h) \cap PublicRole : PublicKey(private[h][r].seed) # manifest[h][r]
  BY DEF PreflightVerdict
<1>3. ~Collides(Opened(h)) /\ DOMAIN Opened(h) = Allowed(h)
  BY DEF PreflightVerdict, Opened
<1>4. \A r \in Allowed(h) : Opened(h)[r] = private[h][r].seed
  BY DEF Opened
<1> QED
  BY <1>1, <1>2, <1>3, <1>4 DEF Collides

----------------------------------------------------------------------------
(* Type correctness. *)

\* A step of CustodyNext never leaves the types.
LEMMA TypeStep == CustodyTypeOK /\ [CustodyNext]_custodyVars => CustodyTypeOK'
<1> SUFFICES ASSUME CustodyTypeOK, [CustodyNext]_custodyVars PROVE CustodyTypeOK'
  OBVIOUS
<1> USE CustodyAssumption
<1>p. ASSUME NEW h \in Host, Preflight(h) PROVE CustodyTypeOK'
  BY <1>p DEF Preflight, CustodyTypeOK, environment
<1>r. ASSUME NEW h \in Host, NEW given, NEW identities, NEW held,
             Run(h, given, identities, held)
      PROVE  CustodyTypeOK'
  <2>1. DOMAIN Opened(h) \subseteq KeyRole
    BY AllowedRoles DEF Opened
  <2> QED
    BY <1>r, <2>1 DEF Run, CustodyTypeOK, environment
<1>1. ASSUME NEW h \in Host, StartCleared(h) PROVE CustodyTypeOK'
  BY <1>1, <1>r DEF StartCleared
<1>s. CASE Start
  BY <1>s, <1>r DEF Start, Host
<1>2. ASSUME NEW p \in ran, NEW m \in Message, TrySignMessage(p, m) PROVE CustodyTypeOK'
  BY <1>2 DEF TrySignMessage, CustodyTypeOK, environment
<1>3. ASSUME NEW h \in Host, NEW r \in KeyRole,
             NEW f \in Files(h, r), Configure(h, r, f)
      PROVE  CustodyTypeOK'
  <2>1. f \in File
    <3>1. \A seed \in Seed \cup {Garbled} : Kept(seed) \in KeyFile
      BY DEF KeyFile, Kept
    <3>2. r \in Seed
      BY DEF Seed
    <3> QED
      BY <3>1, <3>2 DEF File, Files
  <2>2. private' \in [Host -> [KeyRole -> File]]
    BY <1>3, <2>1 DEF Configure, CustodyTypeOK
  <2> QED
    BY <1>3, <2>2 DEF Configure, ReadAtStart, Change, CustodyTypeOK
<1>4. ASSUME NEW h \in Host, NEW r \in KeyRole, OpenToOthers(h, r) PROVE CustodyTypeOK'
  <2>1. private[h][r] \in KeyFile
    BY <1>4 DEF OpenToOthers, Readable, CustodyTypeOK, File
  <2>2. [private[h][r] EXCEPT !.owner_only = FALSE] \in File
    BY <2>1 DEF File, KeyFile
  <2>3. private' \in [Host -> [KeyRole -> File]]
    BY <1>4, <2>2 DEF OpenToOthers, CustodyTypeOK
  <2> QED
    BY <1>4, <2>3 DEF OpenToOthers, ReadAtStart, Change, CustodyTypeOK
<1>5. ASSUME NEW h \in Host, NEW r \in PublicRole, NEW i \in Identity \cup {Unset},
             Identify(h, r, i)
      PROVE  CustodyTypeOK'
  <2>1. manifest' \in [Host -> Manifest]
    BY <1>5 DEF Identify, CustodyTypeOK, Manifest
  <2> QED
    BY <1>5, <2>1 DEF Identify, ReadAtStart, Change, CustodyTypeOK
<1>6. CASE LinkToAuthority
  <2>1. Kept("CheckpointAuthority") \in File
    BY DEF File, KeyFile, Kept, Seed, KeyRole, PublicRole
  <2>2. "batcher" \in Host /\ "BatcherSigning" \in KeyRole
    BY DEF Host, KeyRole, PublicRole
  <2>3. private' \in [Host -> [KeyRole -> File]]
    BY <1>6, <2>1, <2>2 DEF LinkToAuthority, CustodyTypeOK
  <2> QED
    BY <1>6, <2>3 DEF LinkToAuthority, ReadAtStart, Change, CustodyTypeOK
<1>7. ASSUME NEW seed \in Seed \cup {Missing}, ProviderChanges(seed) PROVE CustodyTypeOK'
  BY <1>7 DEF ProviderChanges, Change, CustodyTypeOK
<1>8. ASSUME NEW f, ChallengeChanges(f) PROVE CustodyTypeOK'
  BY <1>8 DEF ChallengeChanges, ReadAtStart, Change, CustodyTypeOK
<1>9. CASE ProofChanges
  BY <1>9 DEF ProofChanges, ReadAtStart, Change, CustodyTypeOK
<1>10. CASE UNCHANGED custodyVars
  BY <1>10 DEF custodyVars, environment, CustodyTypeOK
<1> QED
  BY <1>p, <1>1, <1>s, <1>2, <1>3, <1>4, <1>5, <1>6, <1>7, <1>8, <1>9, <1>10 DEF CustodyNext

\* The deployment begins as the runbook describes it.
LEMMA TypeInit == CustodyInit => CustodyTypeOK
<1> SUFFICES ASSUME CustodyInit PROVE CustodyTypeOK
  OBVIOUS
<1>1. \A r \in KeyRole : Kept(r) \in File
  BY DEF File, KeyFile, Kept, Seed
<1>2. private \in [Host -> [KeyRole -> File]]
  BY <1>1 DEF CustodyInit, File
<1>3. manifest \in [Host -> Manifest]
  <2>1. \A r \in PublicRole : PublicKey(r) \in Identity
    BY DEF Identity, Seed, KeyRole
  <2> QED
    BY <2>1 DEF CustodyInit, Manifest
<1>4. hsm \in BOOLEAN /\ linked \in BOOLEAN /\ ran = {}
  BY DEF CustodyInit
<1>5. provider \in Seed \cup {Missing}
  BY DEF CustodyInit, Seed, KeyRole, PublicRole
<1>6. changes \in 0 .. MaxChanges
  BY CustodyAssumption DEF CustodyInit
<1> QED
  BY <1>2, <1>3, <1>4, <1>5, <1>6 DEF CustodyTypeOK

\* Every file, manifest and process stays well-formed.
THEOREM CustodyTypeCorrect == CustodySpec => []CustodyTypeOK
BY TypeInit, TypeStep, PTL DEF CustodySpec

----------------------------------------------------------------------------
(* The invariant. *)

\* Nothing has run or signed at first.
LEMMA InvInit == CustodyInit => CustodyInv
BY DEF CustodyInit, CustodyInv, Cleared

\* A preflight that passes leaves what it saw; a process enters with as much of
\* that as it finds again; a signature enters with what the local verification
\* showed; nothing else touches any of them.
LEMMA InvStep == CustodyTypeOK /\ CustodyInv /\ [CustodyNext]_custodyVars => CustodyInv'
<1> SUFFICES ASSUME CustodyTypeOK, CustodyInv, [CustodyNext]_custodyVars PROVE CustodyInv'
  OBVIOUS
<1>c. ASSUME hsm' = hsm, DOMAIN cleared' = Host,
             \A h \in Host : Cleared(h, cleared'[h]),
             \A p \in ran' : Read(p) /\ Checked(p),
             \A s \in signed' : Admitted(s)
      PROVE  CustodyInv'
  <2>1. \A h : Allowed(h)' = Allowed(h)
    BY <1>c DEF Allowed
  <2>2. \A h \in Host : Cleared(h, cleared[h])'
    BY <1>c, <2>1 DEF Cleared
  <2>3. \A p \in ran' : Read(p)' /\ Checked(p)'
    BY <1>c, <2>1 DEF Read, Checked
  <2>4. \A s \in signed' : Admitted(s)'
    BY <1>c DEF Admitted, VerifyWithKey
  <2> QED
    BY <1>c, <2>2, <2>3, <2>4 DEF CustodyInv
<1>a. ASSUME UNCHANGED <<hsm, cleared, ran, signed>> PROVE CustodyInv'
  BY <1>a, <1>c DEF CustodyInv
<1>p. ASSUME NEW h \in Host, Preflight(h) PROVE CustodyInv'
  <2> DEFINE c == [manifest |-> manifest[h], keys |-> Opened(h)]
  <2>1. /\ cleared' = [cleared EXCEPT ![h] = c]
        /\ hsm' = hsm /\ ran' = ran /\ signed' = signed
    BY <1>p DEF Preflight, environment
  <2>2. Cleared(h, c)
    <3>1. \A r \in Allowed(h) : c.keys[r] = private[h][r].seed
      BY DEF Opened
    <3>2. PreflightVerdict(h) = "Ok"
      BY <1>p DEF Preflight
    <3> QED
      BY <3>1, <3>2, PassedPreflight DEF Cleared, CustodyTypeOK
  <2>3. DOMAIN cleared' = Host /\ \A g \in Host : Cleared(g, cleared'[g])
    BY <2>1, <2>2 DEF CustodyInv
  <2> QED
    BY <1>c, <2>1, <2>3 DEF CustodyInv
<1>r. ASSUME NEW h \in Host, NEW given, NEW identities, NEW held \in SUBSET Allowed(h),
             Run(h, given, identities, held),
             given # NoManifest =>
               /\ given = identities
               /\ \A r, s \in PublicRole : r # s => given[r] # given[s]
               /\ \A r \in held : r \in PublicRole => PublicKey(private[h][r].seed) = given[r]
               /\ \A r, s \in held : r # s => private[h][r].seed # private[h][s].seed
      PROVE  hsm' = hsm /\ signed' = signed /\ \A p \in ran' : Read(p) /\ Checked(p)
  <2> DEFINE new == [host     |-> h,
                     manifest |-> given,
                     keys     |-> Opened(h),
                     held     |-> held,
                     trusts   |-> IF h = "worker" THEN identities["BatcherSigning"] ELSE Unset,
                     pinned   |-> IF h = "worker" THEN identities["CheckpointAuthority"]
                                  ELSE Unset]
  <2>1. ran' = ran \cup {new} /\ hsm' = hsm /\ signed' = signed
    BY <1>r DEF Run, environment
  <2>2. DOMAIN new.keys = Allowed(h) /\ \A r \in Allowed(h) : new.keys[r] = private[h][r].seed
    BY DEF Opened
  <2>3. Read(new)
    BY <2>2 DEF Read
  <2>4. Checked(new)
    <3> SUFFICES ASSUME given # NoManifest PROVE Checked(new)
      BY DEF Checked
    <3>1. \A r \in held : new.keys[r] = private[h][r].seed
      BY <2>2
    <3> QED
      BY <1>r, <3>1 DEF Checked
  <2>5. \A p \in ran' : Read(p) /\ Checked(p)
    BY <2>1, <2>3, <2>4 DEF CustodyInv
  <2> QED
    BY <2>1, <2>5
<1>1. ASSUME NEW h \in Host, StartCleared(h) PROVE CustodyInv'
  <2> DEFINE c == cleared[h]
             held == {r \in Allowed(h) : private[h][r].seed = c.keys[r]}
  <2>1. /\ c # NoManifest /\ Run(h, c.manifest, c.manifest, held)
        /\ cleared' = [cleared EXCEPT ![h] = NoManifest]
    BY <1>1 DEF StartCleared
  <2>2. Cleared(h, c)
    BY DEF CustodyInv
  <2>3. hsm' = hsm /\ signed' = signed /\ \A p \in ran' : Read(p) /\ Checked(p)
    <3>1. /\ \A r, s \in PublicRole : r # s => c.manifest[r] # c.manifest[s]
          /\ \A r \in held : r \in PublicRole => PublicKey(private[h][r].seed) = c.manifest[r]
          /\ \A r, s \in held : r # s => private[h][r].seed # private[h][s].seed
      BY <2>1, <2>2 DEF Cleared
    <3> HIDE DEF c
    <3>2. held \in SUBSET Allowed(h)
      OBVIOUS
    <3> HIDE DEF held
    <3> QED
      BY <1>r, <2>1, <3>1, <3>2
  <2>4. DOMAIN cleared' = Host /\ \A g \in Host : Cleared(g, cleared'[g])
    BY <2>1 DEF CustodyInv, Cleared
  <2> QED
    BY <1>c, <2>3, <2>4 DEF CustodyInv
<1>s. CASE Start
  <2>1. /\ Run("worker", NoManifest, manifest["worker"], {})
        /\ cleared' = cleared
    BY <1>s DEF Start
  <2>2. "worker" \in Host /\ {} \in SUBSET Allowed("worker")
    BY DEF Host
  <2>3. hsm' = hsm /\ signed' = signed /\ \A p \in ran' : Read(p) /\ Checked(p)
    BY <1>r, <2>1, <2>2
  <2> QED
    BY <1>c, <2>1, <2>3 DEF CustodyInv
<1>2. ASSUME NEW p \in ran, NEW m \in Message, TrySignMessage(p, m) PROVE CustodyInv'
  <2>1. PICK signature \in Answers(m) :
          /\ VerifyWithKey(p.pinned, m, signature)
          /\ signed' = signed \cup {[pinned |-> p.pinned, manifest |-> p.manifest,
                                     asked |-> m, signature |-> signature]}
    BY <1>2 DEF TrySignMessage
  <2>2. hsm' = hsm /\ ran' = ran /\ cleared' = cleared
    BY <1>2 DEF TrySignMessage, environment
  <2>3. Read(p) /\ Checked(p) /\ p.host = "worker" /\ "CheckpointAuthority" \notin Allowed(p.host)
    BY <1>2 DEF TrySignMessage, CustodyInv, Read
  <2>4. hsm
    BY <2>3, AllowedRoles DEF Read, CustodyInv
  <2>5. Admitted([pinned |-> p.pinned, manifest |-> p.manifest,
                  asked |-> m, signature |-> signature])
    BY <2>1, <2>3, <2>4 DEF Admitted, Checked
  <2> QED
    <3>1. \A s \in signed' : Admitted(s)
      BY <2>1, <2>5 DEF CustodyInv
    <3> QED
      BY <1>c, <2>2, <3>1 DEF CustodyInv
<1>3. ASSUME NEW h \in Host, NEW r \in KeyRole, NEW f, Configure(h, r, f) PROVE CustodyInv'
  BY <1>3, <1>a DEF Configure
<1>4. ASSUME NEW h \in Host, NEW r \in KeyRole, OpenToOthers(h, r) PROVE CustodyInv'
  BY <1>4, <1>a DEF OpenToOthers
<1>5. ASSUME NEW h \in Host, NEW r \in PublicRole, NEW i, Identify(h, r, i) PROVE CustodyInv'
  BY <1>5, <1>a DEF Identify
<1>6. CASE LinkToAuthority
  BY <1>6, <1>a DEF LinkToAuthority
<1>7. ASSUME NEW seed, ProviderChanges(seed) PROVE CustodyInv'
  BY <1>7, <1>a DEF ProviderChanges
<1>8. ASSUME NEW f, ChallengeChanges(f) PROVE CustodyInv'
  BY <1>8, <1>a DEF ChallengeChanges
<1>9. CASE ProofChanges
  BY <1>9, <1>a DEF ProofChanges
<1>10. CASE UNCHANGED custodyVars
  BY <1>10, <1>a DEF custodyVars, environment
<1> QED
  BY <1>p, <1>1, <1>s, <1>2, <1>3, <1>4, <1>5, <1>6, <1>7, <1>8, <1>9, <1>10 DEF CustodyNext

\* The invariant holds throughout.
THEOREM CustodyInvariant == CustodySpec => []CustodyInv
BY TypeInit, TypeStep, InvInit, InvStep, PTL DEF CustodySpec

----------------------------------------------------------------------------
(* What follows from it. *)

\* D-143, for every deployment: the separation that the preflights of
\* different hosts established at different times holds between the processes
\* that started after them, for the keys that are still the ones a preflight
\* opened, although no preflight ever saw another host's key.
THEOREM SeparationHolds == CustodySpec => []KeysAreSeparate
<1>1. CustodyInv => KeysAreSeparate
  <2> SUFFICES ASSUME CustodyInv, NEW p \in ran, NEW q \in ran,
                      p.manifest = q.manifest, p.manifest # NoManifest,
                      NEW r \in p.held, NEW s \in q.held,
                      r # s, p = q \/ "MasterKey" \notin {r, s}
               PROVE  p.keys[r] # q.keys[s]
    BY DEF KeysAreSeparate
  <2>1. Read(p) /\ Checked(p) /\ Read(q) /\ Checked(q)
    BY DEF CustodyInv
  <2>2. CASE p = q
    BY <2>1, <2>2 DEF Checked
  <2>3. CASE "MasterKey" \notin {r, s}
    <3>1. r \in PublicRole /\ s \in PublicRole
      BY <2>1, <2>3, AllowedRoles DEF Read, KeyRole
    <3>2. PublicKey(p.keys[r]) = p.manifest[r] /\ PublicKey(q.keys[s]) = p.manifest[s]
      BY <2>1, <3>1 DEF Checked
    <3>3. p.manifest[r] # p.manifest[s]
      BY <2>1, <3>1 DEF Checked
    <3> QED
      BY <3>2, <3>3
  <2> QED
    BY <2>2, <2>3
<1> QED
  BY <1>1, CustodyInvariant, PTL

\* RUNBOOK-HSM-KEY-MANAGEMENT 7, for every provider behaviour: an admitted
\* signature is the pinned authority's over what was asked, and its seed is in
\* no file that a preflight on the same manifest and then its process opened
\* for a public role.
THEOREM SignaturesAreThePinned == CustodySpec => []SignedAsAsked
<1>1. CustodyInv => SignedAsAsked
  <2> SUFFICES ASSUME CustodyInv, NEW s \in signed
               PROVE  /\ s.signature.over = s.asked
                      /\ PublicKey(s.signature.by) = s.pinned
                      /\ s.manifest # NoManifest =>
                           \A p \in ran : p.manifest = s.manifest =>
                              \A r \in p.held \cap PublicRole :
                                 p.keys[r] # s.signature.by
    BY DEF SignedAsAsked
  <2>1. Admitted(s)
    BY DEF CustodyInv
  <2>2. s.signature.over = s.asked /\ PublicKey(s.signature.by) = s.pinned
    BY <2>1 DEF Admitted, VerifyWithKey
  <2>3. ASSUME s.manifest # NoManifest, NEW p \in ran, p.manifest = s.manifest,
               NEW r \in p.held \cap PublicRole
        PROVE  p.keys[r] # s.signature.by
    <3>1. Read(p) /\ Checked(p)
      BY DEF CustodyInv
    <3>2. r # "CheckpointAuthority"
      BY <2>1, <2>3, <3>1, AllowedRoles DEF Admitted, Read, CustodyInv
    <3>3. PublicKey(p.keys[r]) = s.manifest[r]
      BY <2>3, <3>1 DEF Checked
    <3>4. PublicKey(s.signature.by) = s.manifest["CheckpointAuthority"]
      BY <2>1, <2>2, <2>3 DEF Admitted
    <3>5. s.manifest[r] # s.manifest["CheckpointAuthority"]
      BY <2>1, <2>3, <3>2 DEF Admitted, PublicRole
    <3> QED
      BY <3>3, <3>4, <3>5
  <2> QED
    BY <2>2, <2>3
<1> QED
  BY <1>1, CustodyInvariant, PTL

\* D-139: a worker accepts what a batcher on the same manifest signs with the
\* key that its preflight opened.
THEOREM PassedHostsAgreeOnTheBatcher == CustodySpec => []PassedHostsAgree
<1>1. CustodyInv => PassedHostsAgree
  <2> SUFFICES ASSUME CustodyInv, NEW b \in ran, NEW w \in ran,
                      b.host = "batcher", w.host = "worker",
                      b.manifest = w.manifest, b.manifest # NoManifest,
                      "BatcherSigning" \in b.held
               PROVE  w.trusts = PublicKey(b.keys["BatcherSigning"])
    BY DEF PassedHostsAgree
  <2>1. Read(b) /\ Checked(b) /\ Checked(w)
    BY DEF CustodyInv
  <2>2. "BatcherSigning" \in PublicRole
    BY DEF PublicRole
  <2> QED
    BY <2>1, <2>2 DEF Checked
<1> QED
  BY <1>1, CustodyInvariant, PTL
=============================================================================
