----------------------------- MODULE ChainViews -----------------------------
(***************************************************************************)
(* Reading a chain that forks, through an endpoint whose every answer may  *)
(* come from another view of it: fetch.rs, anchor.rs and cluster.rs of     *)
(* crates/certimining-client, and ts/src/solana/rpc.ts and accounts.ts.    *)
(*                                                                         *)
(* A slot has one leader and so one block at most; a view is a block with  *)
(* its ancestors.  A stale replica serves an old view, another fork serves *)
(* another branch, and a load balancer serves either to the next request.  *)
(* A view that could be served once can be served later, so the readers    *)
(* start when the chain of a behaviour is complete.                        *)
(***************************************************************************)
EXTENDS Integers, Sequences, FiniteSets

CONSTANTS
  StartEpoch,    \* LogConfig.start_epoch
  Tx,            \* the transactions that may be sent
  MaxSlot,       \* slots with a block
  MaxTxs,        \* transactions in a block
  First, Final,  \* the epochs a scan asks about
  OneViewLimit,  \* ONE_VIEW_LIMIT, the addresses of one request
  Nothing        \* no answer, no account, no signature

\* The accounts an endpoint may hand back: owner, length and discriminator, and
\* what the fields say.
Account ==
  [owner : {"program", "another"}, length : {"exact", "short"},
   discriminator : {"CheckpointAccount", "LogConfig"}, schema : {1, 2}, epoch : Nat,
   root : {tx.root : tx \in Tx} \cup {"forged", Nothing}, slot : Nat, receipt : BOOLEAN]

ASSUME ChainViewsAssumption ==
  /\ StartEpoch \in Nat \ {0} /\ First \in Nat /\ Final \in Nat
  /\ MaxSlot \in Nat /\ MaxTxs \in Nat
  /\ OneViewLimit \in Nat \ {0, 1}
  /\ \A tx \in Tx : tx.kind \in {"publish", "attach", "fund"} /\ tx.epoch \in Nat
  /\ \A tx, other \in Tx : tx.sig = other.sig => tx = other
  /\ Nothing \notin Int /\ Nothing \notin Account

VARIABLES
  block,   \* the blocks, by slot
  reader,  \* the client at work, or Nothing
  result   \* what it answered, or Nothing

vars == <<block, reader, result>>

Epochs == {tx.epoch : tx \in Tx} \cup First .. Final

----------------------------------------------------------------------------
(* The chain.  A block keeps the ledger after it, what touched what and the *)
(* slots of its chain.                                                      *)

Genesis == [ledger  |-> [last |-> StartEpoch - 1, checkpoint |-> <<>>],
            touched |-> {}, path |-> {0}]

Views == 0 .. Len(block)

View(v) == IF v = 0 THEN Genesis ELSE block[v]

Written(ledger, epoch) == epoch \in DOMAIN ledger.checkpoint

\* What the program does: publish_checkpoint takes last_epoch + 1 alone, writes
\* the account and advances; attach_anchor_receipt fills an empty receipt.  A
\* transfer to the address succeeds and writes nothing.
Succeeds(ledger, tx) ==
  CASE tx.kind = "publish" -> tx.epoch = ledger.last + 1
    [] tx.kind = "attach"  -> /\ Written(ledger, tx.epoch)
                              /\ ~ledger.checkpoint[tx.epoch].receipt
    [] tx.kind = "fund"    -> TRUE

Execute(ledger, tx, slot) ==
  IF ~Succeeds(ledger, tx) \/ tx.kind = "fund" THEN ledger
  ELSE IF tx.kind = "publish"
    THEN [last |-> tx.epoch,
          checkpoint |-> [e \in DOMAIN ledger.checkpoint \cup {tx.epoch} |->
                            IF e = tx.epoch
                            THEN [epoch |-> e, root |-> tx.root, slot |-> slot, receipt |-> FALSE]
                            ELSE ledger.checkpoint[e]]]
  ELSE [ledger EXCEPT !.checkpoint[tx.epoch].receipt = TRUE]

\* A leader builds on some block.
Produce(parent) ==
  /\ reader = Nothing /\ result = Nothing
  /\ Len(block) < MaxSlot
  /\ block' = Append(block, [View(parent) EXCEPT !.path = @ \cup {Len(block) + 1}])
  /\ UNCHANGED <<reader, result>>

\* What a block is once it has executed one more transaction.
Included(b, tx, slot) ==
  [ledger  |-> Execute(b.ledger, tx, slot),
   touched |-> b.touched \cup {[sig |-> tx.sig, epoch |-> tx.epoch, slot |-> slot,
                                succeeded |-> Succeeds(b.ledger, tx)]},
   path    |-> b.path]

\* And puts transactions in its block, one after the other.  A transaction is
\* in a chain once at most.
Include(tx) ==
  LET slot == Len(block)
  IN  /\ reader = Nothing /\ result = Nothing
      /\ slot > 0
      /\ \A t \in block[slot].touched : t.sig # tx.sig
      /\ Cardinality({t \in block[slot].touched : t.slot = slot}) < MaxTxs
      /\ block' = [block EXCEPT ![slot] = Included(block[slot], tx, slot)]
      /\ UNCHANGED <<reader, result>>

----------------------------------------------------------------------------
(* Accounts as a view holds them, and placing one before it is believed. *)

CheckpointAccount(c) ==
  [owner |-> "program", length |-> "exact", discriminator |-> "CheckpointAccount",
   schema |-> 1, epoch |-> c.epoch, root |-> c.root, slot |-> c.slot, receipt |-> c.receipt]

ConfigAccount(ledger) ==
  [owner |-> "program", length |-> "exact", discriminator |-> "LogConfig",
   schema |-> 1, epoch |-> ledger.last, root |-> Nothing, slot |-> 0, receipt |-> FALSE]

AccountAt(v, epoch) ==
  IF Written(View(v).ledger, epoch)
  THEN CheckpointAccount(View(v).ledger.checkpoint[epoch]) ELSE Nothing

\* What an endpoint may hand back for an epoch's address besides the account:
\* one of another address, or one that no view of this log holds.
Strange(v, epoch) ==
  LET Forged(owner, length, schema) ==
        [owner |-> owner, length |-> length, discriminator |-> "CheckpointAccount",
         schema |-> schema, epoch |-> epoch, root |-> "forged", slot |-> 0, receipt |-> FALSE]
  IN  {Forged("another", "exact", 1), Forged("program", "short", 1),
       Forged("program", "exact", 2), ConfigAccount(View(v).ledger)}
        \cup {AccountAt(v, e) : e \in {e \in Epochs : Written(View(v).ledger, e)}}

Answers(v, epoch) == {AccountAt(v, epoch)} \cup Strange(v, epoch)

\* Mutant: the account's own epoch is not asked for.
DecodeAnyEpoch(a, epoch) ==
  IF a.owner # "program" THEN "NotTheProgram"
  ELSE IF a.length = "short" THEN "TooShort"
  ELSE IF a.discriminator # "CheckpointAccount" THEN "WrongDiscriminator"
  ELSE IF a.schema # 1 THEN "UnsupportedSchema"
  ELSE "Placed"

\* decode_checkpoint.
Decode(a, epoch) ==
  IF a.owner # "program" THEN "NotTheProgram"
  ELSE IF a.length = "short" THEN "TooShort"
  ELSE IF a.discriminator # "CheckpointAccount" THEN "WrongDiscriminator"
  ELSE IF a.schema # 1 THEN "UnsupportedSchema"
  ELSE IF a.epoch # epoch THEN "WrongEpoch"
  ELSE "Placed"

\* root_for_epoch: what came back is placed, refused or absent.
Fetched(a, epoch) == IF a = Nothing THEN "Absent" ELSE Decode(a, epoch)

\* status_of.
StatusOf(a, epoch) ==
  IF Fetched(a, epoch) # "Placed" THEN "Pending"
  ELSE IF a.receipt THEN "Dual" ELSE "Single"

\* Cluster::status, over one answer.
Status(v, epoch, a) ==
  /\ reader = Nothing /\ result = Nothing
  /\ result' = [of |-> "status", epoch |-> epoch, view |-> v,
                fetched |-> Fetched(a, epoch), status |-> StatusOf(a, epoch),
                root |-> IF Fetched(a, epoch) = "Placed" THEN a.root ELSE Nothing]
  /\ UNCHANGED <<block, reader>>

----------------------------------------------------------------------------
(* sequence_lag: batches of epochs, each with the configuration beside it. *)

\* Mutant: the configuration is read by a request of its own.
TwoRequests(v, w) == w

\* The accounts of a batch come from the view its configuration came from.
OneRequest(v, w) == v

BeginScan ==
  /\ reader = Nothing /\ result = Nothing
  /\ reader' = [of |-> "lag", next |-> First, last |-> Nothing, before |-> {}, ahead |-> {},
                refused |-> {}, views |-> 0, moved |-> FALSE, first |-> Nothing, seen |-> {}]
  /\ UNCHANGED <<block, result>>

\* first_config against the bounds of every batch.
Moved(moved, first, last) == moved \/ (first # Nothing /\ first # last)

\* An empty range asks once.  The start of a log never changes, so the bounds
\* differ when last_epoch does.
ScanBatch(v, w, strange) ==
  LET last     == View(v).ledger.last
      batch    == {e \in First .. Final : reader.next <= e /\ e < reader.next + OneViewLimit - 1}
      inside   == {e \in batch : StartEpoch <= e /\ e <= last}
      Answer(e) == IF e = strange THEN [ConfigAccount(View(v).ledger) EXCEPT !.owner = "another"]
                   ELSE AccountAt(OneRequest(v, w), e)
      next     == reader.next + OneViewLimit - 1
      scanned  ==
        [of |-> "lag", next |-> next, last |-> last,
         before  |-> reader.before \cup {e \in batch : e < StartEpoch},
         ahead   |-> reader.ahead \cup {e \in batch : e > last},
         refused |-> reader.refused \cup
                       {e \in inside : Fetched(Answer(e), e) \notin {"Placed", "Absent"}},
         views   |-> reader.views + 1,
         moved   |-> Moved(reader.moved, reader.first, last),
         first   |-> IF reader.first = Nothing THEN last ELSE reader.first,
         seen    |-> reader.seen \cup {v}]
  IN  /\ reader # Nothing /\ reader.of = "lag"
      /\ IF \E e \in inside : Fetched(Answer(e), e) = "Absent"
         THEN result' = [of |-> "gap"] /\ reader' = Nothing
         ELSE IF next > Final
         THEN result' = scanned /\ reader' = Nothing
         ELSE reader' = scanned /\ UNCHANGED result
      /\ UNCHANGED block

\* Lag::epochs_behind, which never goes below zero.
EpochsBehind(lag) ==
  IF lag.ahead = {} THEN 0
  ELSE LET highest == CHOOSE e \in lag.ahead : \A f \in lag.ahead : f <= e
       IN  IF highest > lag.last THEN highest - lag.last ELSE 0

\* A request that fails, a list of another length, a refused configuration.
ScanUnreachable ==
  /\ reader # Nothing /\ reader.of = "lag"
  /\ reader' = Nothing /\ result' = [of |-> "unreachable"]
  /\ UNCHANGED block

----------------------------------------------------------------------------
(* fetchCheckpoint: an account, and for an absent one the configuration by a *)
(* request of its own or from the caller's hand.                             *)

\* checkAccount and the checks around it, in their order.
FetchedTs(a, epoch) ==
  IF a.owner # "program" \/ a.length # "exact" \/ a.discriminator # "CheckpointAccount"
    THEN "RootUnavailable"
  ELSE IF a.schema # 1 THEN "UnsupportedSchemaVersion"
  ELSE IF a.epoch # epoch THEN "RootEpochMismatch"
  ELSE "Placed"

FetchCheckpoint(v, epoch, a) ==
  /\ reader = Nothing /\ result = Nothing
  /\ IF a = Nothing
     THEN reader' = [of |-> "missing", epoch |-> epoch, view |-> v] /\ UNCHANGED result
     ELSE /\ result' = [of |-> "root", epoch |-> epoch, view |-> v, verdict |-> FetchedTs(a, epoch),
                        root |-> IF FetchedTs(a, epoch) = "Placed" THEN a.root ELSE Nothing]
          /\ UNCHANGED reader
  /\ UNCHANGED block

\* Mutant: the last epoch is taken for one still to come.
PlaceBelowTheLast(last, epoch) ==
  IF epoch < StartEpoch THEN "EpochBeforeLogStart"
  ELSE IF epoch < last THEN "InconsistentChainView"
  ELSE "CheckpointNotYetPublished"

\* placeEpoch, and the refusal each placement becomes.
PlaceEpoch(last, epoch) ==
  IF epoch < StartEpoch THEN "EpochBeforeLogStart"
  ELSE IF epoch <= last THEN "InconsistentChainView"
  ELSE "CheckpointNotYetPublished"

\* refuseMissingCheckpoint, with the configuration of any view: fetched now, or
\* RpcOptions.logConfig, which the caller fetched at some time.
RefuseMissing(w) ==
  /\ reader # Nothing /\ reader.of = "missing"
  /\ result' = [of |-> "refused", epoch |-> reader.epoch, views |-> {reader.view, w},
                last |-> View(w).ledger.last,
                verdict |-> PlaceEpoch(View(w).ledger.last, reader.epoch)]
  /\ reader' = Nothing
  /\ UNCHANGED block

\* The configuration could not be read either.
RefuseMissingBlind ==
  /\ reader # Nothing /\ reader.of = "missing"
  /\ result' = [of |-> "unreachable"] /\ reader' = Nothing
  /\ UNCHANGED block

----------------------------------------------------------------------------
(* Cluster::publish after a submission: what it refers its caller to. *)

TouchedAt(v, epoch) == {t \in View(v).touched : t.epoch = epoch}

\* What settles the call: a signature that a view confirmed, or AlreadyPublished.
Confirmed(v, tx) ==
  /\ reader = Nothing /\ result = Nothing
  /\ tx.kind = "publish"
  /\ \E t \in TouchedAt(v, tx.epoch) : t.sig = tx.sig /\ t.succeeded
  /\ reader' = [of |-> "reference", epoch |-> tx.epoch, root |-> tx.root, sig |-> tx.sig]
  /\ UNCHANGED <<block, result>>

AnsweredAlready(v, tx) ==
  /\ reader = Nothing /\ result = Nothing
  /\ tx.kind = "publish" /\ tx.epoch <= View(v).ledger.last
  /\ reader' = [of |-> "settle", epoch |-> tx.epoch, root |-> tx.root]
  /\ UNCHANGED <<block, result>>

NotPublished(why) == [of |-> "not published", why |-> why]

\* settle_against_chain, down to the settlement.
Settle(v) ==
  /\ reader # Nothing /\ reader.of = "settle"
  /\ \E a \in Answers(v, reader.epoch) :
       LET placed == Fetched(a, reader.epoch) = "Placed"
       IN  IF placed /\ a.root = reader.root
           THEN /\ reader' = [of |-> "wrote it", epoch |-> reader.epoch, root |-> a.root, slot |-> a.slot]
                /\ UNCHANGED result
           ELSE /\ result' = NotPublished(IF placed THEN "Equivocation" ELSE "Unwritten")
                /\ reader' = Nothing
  /\ UNCHANGED block

\* Mutant: any one of the transactions at the slot will do.
AnyAtTheSlot(slot, touched) ==
  LET there == {t \in touched : t.succeeded /\ t.slot = slot}
  IN  IF there # {} THEN (CHOOSE t \in there : TRUE).sig ELSE Nothing

\* provenance_in: exactly one, or none.
ProvenanceIn(slot, touched) ==
  LET there == {t \in touched : t.succeeded /\ t.slot = slot}
  IN  IF Cardinality(there) = 1 THEN (CHOOSE t \in there : TRUE).sig ELSE Nothing

Recovered(sig) ==
  /\ reader # Nothing /\ reader.of = "wrote it"
  /\ reader' = [of |-> "reference", epoch |-> reader.epoch, root |-> reader.root, sig |-> sig]
  /\ UNCHANGED <<block, result>>

\* wrote_it; a failure to ask leaves no signature, as an unnameable one does.
WroteIt(v) ==
  /\ reader # Nothing /\ reader.of = "wrote it"
  /\ Recovered(ProvenanceIn(reader.slot, TouchedAt(v, reader.epoch)))

WroteItUnasked == Recovered(Nothing)

\* Mutant: a slot at or before the account's will do.
LineageByOrder(slot, sig, landed) ==
  IF sig = Nothing THEN "NoSignature"
  ELSE IF landed = <<"NotAsked">> THEN "Unasked"
  ELSE IF landed = <<"NotFound">> THEN "Unknown"
  ELSE IF landed[2] <= slot THEN "AtItsSlot" ELSE "Disagreed"

LineageOf(slot, sig, landed) ==
  IF sig = Nothing THEN "NoSignature"
  ELSE IF landed = <<"NotAsked">> THEN "Unasked"
  ELSE IF landed = <<"NotFound">> THEN "Unknown"
  ELSE IF landed[2] = slot THEN "AtItsSlot" ELSE "Disagreed"

\* reference, down to the question where the signature landed.  Whether the
\* account carries the root that was sent is not asked here.
Reference(v) ==
  /\ reader # Nothing /\ reader.of = "reference"
  /\ \E a \in Answers(v, reader.epoch) :
       IF Fetched(a, reader.epoch) = "Placed"
       THEN /\ reader' = [of |-> "landed", epoch |-> reader.epoch, sig |-> reader.sig,
                          slot |-> a.slot, view |-> v]
            /\ UNCHANGED result
       ELSE result' = NotPublished("Unwritten") /\ reader' = Nothing
  /\ UNCHANGED block

\* where_it_landed over a view.  The endpoint keeps a status for a bounded
\* time, and a request may fail.
WhereItLanded(w, sig) ==
  {<<"NotAsked">>, <<"NotFound">>}
    \cup {<<"Slot", t.slot>> : t \in {t \in View(w).touched : t.sig = sig}}

\* The reference the caller gets.  Nothing is asked about an empty signature.
Refer(w, landed) ==
  /\ reader # Nothing /\ reader.of = "landed"
  /\ result' = [of |-> "reference", epoch |-> reader.epoch, sig |-> reader.sig,
                slot |-> reader.slot, view |-> reader.view, other |-> w,
                lineage |-> LineageOf(reader.slot, reader.sig, landed)]
  /\ reader' = Nothing
  /\ UNCHANGED block

ReferLanded(w) ==
  /\ reader # Nothing /\ reader.of = "landed"
  /\ IF reader.sig = Nothing THEN w = reader.view /\ Refer(w, <<"NotFound">>)
     ELSE \E landed \in WhereItLanded(w, reader.sig) : Refer(w, landed)

\* A read that the publisher cannot do without fails.
PublishUnreachable ==
  /\ reader # Nothing /\ reader.of \in {"settle", "reference"}
  /\ reader' = Nothing /\ result' = [of |-> "unreachable"]
  /\ UNCHANGED block

----------------------------------------------------------------------------
Init == block = <<>> /\ reader = Nothing /\ result = Nothing

Next ==
  \/ \E parent \in Views : Produce(parent)
  \/ \E tx \in Tx : Include(tx)
  \/ /\ Len(block) = MaxSlot
     /\ \/ BeginScan \/ ScanUnreachable \/ RefuseMissingBlind \/ PublishUnreachable
        \/ \E v \in Views :
             \/ \E w \in Views, strange \in (First .. Final) \cup {Nothing} :
                  ScanBatch(v, w, strange)
             \/ \E epoch \in Epochs : \E a \in Answers(v, epoch) :
                  Status(v, epoch, a) \/ FetchCheckpoint(v, epoch, a)
             \/ RefuseMissing(v)
             \/ \E tx \in Tx : Confirmed(v, tx) \/ AnsweredAlready(v, tx)
             \/ Settle(v) \/ WroteIt(v) \/ Reference(v) \/ ReferLanded(v)
        \/ WroteItUnasked

Spec == Init /\ [][Next]_vars

----------------------------------------------------------------------------
(* Properties. *)

TxOf(sig) == CHOOSE tx \in Tx : tx.sig = sig

\* What sequence_lag says is true of one view.  It calls an account missing
\* inside the published range evidence about the log, because configuration and
\* account came from one request: no log that the program wrote is accused of
\* it, through forks and stale replicas.  And a Lag whose configuration_moved
\* is false is one observation though its batches came from several views:
\* every view had the same bounds, each epoch is on the side of them it belongs
\* to, and epochs_behind is the distance to the last epoch asked about.
LagIsOneObservation ==
  result # Nothing =>
    /\ result.of # "gap"
    /\ result.of = "lag" /\ ~result.moved =>
         /\ \A v \in result.seen : View(v).ledger.last = result.last
         /\ result.before = {e \in First .. Final : e < StartEpoch}
         /\ result.ahead = {e \in First .. Final : e > result.last}
         /\ EpochsBehind(result) =
              IF First > Final THEN 0
              ELSE Cardinality({e \in StartEpoch .. Final : e > result.last})

\* A root placed by either client is the root that the view it was read from
\* records for the epoch asked about, whatever else the endpoint handed back,
\* and an epoch is Dual in no view without its receipt (status_of).
PlacedIsTheEpochs ==
  (result # Nothing /\ result.of \in {"status", "root"} /\ result.root # Nothing) =>
    LET ledger == View(result.view).ledger
    IN  /\ Written(ledger, result.epoch)
        /\ result.root = ledger.checkpoint[result.epoch].root
        /\ result.of = "status" =>
             (result.status = "Dual") = ledger.checkpoint[result.epoch].receipt

\* fetchCheckpoint reads an account and a configuration by two requests.  It
\* speaks of an inconsistent chain only when the two really were two views, and
\* of an epoch still to come only when the view that says so has not got it.
MissingIsClassified ==
  (result # Nothing /\ result.of = "refused") =>
    CASE result.verdict = "EpochBeforeLogStart" -> result.epoch < StartEpoch
      [] result.verdict = "InconsistentChainView" ->
           /\ \E v, w \in result.views : /\ Written(View(v).ledger, result.epoch)
                                         /\ ~Written(View(w).ledger, result.epoch)
      [] result.verdict = "CheckpointNotYetPublished" ->
           /\ StartEpoch <= result.epoch
           /\ \E v \in result.views : /\ View(v).ledger.last = result.last
                                      /\ ~Written(View(v).ledger, result.epoch)

\* A signature that the retry path recovers (provenance_in over the listing of a
\* view that may not be the one the slot came from) is of the transaction that
\* published this root, never of a transfer or a failed attempt beside it.
RecoveredIsTheWriter ==
  (reader # Nothing /\ reader.of = "reference" /\ reader.sig # Nothing) =>
    /\ TxOf(reader.sig).kind = "publish" /\ TxOf(reader.sig).root = reader.root
    /\ \E v \in Views : \E t \in TouchedAt(v, reader.epoch) : t.sig = reader.sig /\ t.succeeded

\* Lineage::AtItsSlot says that the account's slot and the signature's slot are
\* of one chain: the block at that slot is in both views, however many forks
\* there are and whichever of them each answer came from.
BoundIsOneChain ==
  (result # Nothing /\ result.of = "reference" /\ result.lineage = "AtItsSlot") =>
    result.slot \in View(result.view).path \cap View(result.other).path
=============================================================================
