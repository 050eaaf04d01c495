--------------------------- MODULE BitcoinAnchor ---------------------------
(***************************************************************************)
(* What a holder of a receipt learns from Bitcoin: the tool                *)
(* crates/certimining-client/src/bin/confirm-anchor-b.rs, verify_receipt   *)
(* of ots.rs, and promise_receipt.rs, which judges a promise passed on     *)
(* with a receipt over its own octets.                                     *)
(*                                                                         *)
(* The holder has a checkpoint, set in the environment, and a file of      *)
(* headers it fetches again as Bitcoin grows or reorganises.  Bitcoin is   *)
(* the environment: it offers headers that follow the rules and headers    *)
(* that break one, and it may replace up to ConfirmationDepth of its       *)
(* newest blocks.                                                          *)
(***************************************************************************)
EXTENDS Headers, Promise, Schedule, FiniteSets

CONSTANTS
  BlockHash,    \* the checkpoint block's hash
  Environment,  \* the settings of CERTIMINING_CHECKPOINT_* to consider
  Times,        \* timestamps a miner may choose
  Bits,         \* encodings a header may carry instead of the right one
  Stamp,        \* the promise each block commits, by its place in the range
  BatcherKey,   \* the key the holder expects
  MaxU32,       \* the largest height a receipt may name
  MaxForks      \* how often Bitcoin may reorganise

\* What a header holds of each: digits and a compact encoding.
Digits == [1 .. TargetDigits -> 0 .. DigitBase - 1]
Encoding == [exponent : Nat, mantissa : Nat]

\* Heights, times and encodings are unsigned, None is none of them and no
\* digest, the checkpoint is a block of Bitcoin's, and what blocks commit are
\* promises: records of the fields that are encoded.
ASSUME BitcoinAnchorAssumption ==
  /\ BlockHash \in Digits /\ Bits \subseteq Encoding /\ Nothing \notin Encoding
  /\ \A e \in Environment :
       /\ e.height \in Nat \cup {Nothing} /\ e.hash \in {Reverse(BlockHash), Nothing}
       /\ e.bits \in Encoding \cup {Nothing} /\ e.time \in Nat \cup {Nothing}
  /\ Times \subseteq Nat
  /\ Nothing \notin Nat /\ Nothing \notin Nat \X Nat
  /\ \A n \in DOMAIN Stamp :
       LET p == Stamp[n]
       IN  /\ p.accepted_epoch \in Nat /\ p.promised_epoch \in Nat
           /\ p = [leaf |-> p.leaf, id |-> p.id, accepted_epoch |-> p.accepted_epoch,
                   promised_epoch |-> p.promised_epoch, max_merge_delay |-> p.max_merge_delay,
                   batcher_key |-> p.batcher_key, signature |-> p.signature]

VARIABLES
  env,         \* the checkpoint settings
  headers,     \* the header file
  best,        \* the longest valid range Bitcoin has had
  fork,        \* how often it has reorganised
  confirmed,   \* the first confirmation confirm-anchor-b has reported
  established  \* the first promise verify_transferred_promise has judged good

vars == <<env, headers, best, fork, confirmed, established>>

----------------------------------------------------------------------------
(* The checkpoint from the environment *)

\* GENESIS, on a boundary, at the limit, with its own time.
Genesis == [height |-> 0, hash |-> BlockHash, target |-> PowLimit, time |-> 0]

\* hash_from_displayed: explorers write a hash last digit first.
HashFromDisplayed(text) == IF Len(text) # TargetDigits THEN Nothing ELSE Reverse(text)

\* checkpoint_target: no header carries it, or it is easier than the limit.
CheckpointTarget(bits) ==
  LET target == TargetFromBits(bits)
  IN  IF target = Nothing \/ target > PowLimit THEN Nothing ELSE target

\* checkpoint(): height, hash and bits together, or none of them and genesis.
CheckpointOf(e) ==
  LET given == {f \in {"height", "hash", "bits"} : e[f] # Nothing}
  IN  IF given = {} THEN Genesis
      ELSE IF Cardinality(given) < 3 THEN Nothing
      ELSE IF HashFromDisplayed(e.hash) = Nothing \/ CheckpointTarget(e.bits) = Nothing
        THEN Nothing
      ELSE [height |-> e.height, hash |-> HashFromDisplayed(e.hash),
            target |-> CheckpointTarget(e.bits), time |-> e.time]

checkpoint == CheckpointOf(env)

----------------------------------------------------------------------------
(* Receipts *)

\* The digest a receipt's operations reach: the merkle root of the block it
\* names if that block commits what was stamped, and nothing of use if not.
Reaches(start, height, branch) ==
  LET place == height - checkpoint.height
  IN  IF place \in DOMAIN Stamp /\ start = Encode(Stamp[place])
      THEN <<height, branch>> ELSE Nothing

Receipt(stamped, height, branch) ==
  [parses |-> TRUE, start |-> stamped, attests |-> height, output |-> Reaches(stamped, height, branch)]

\* verify_receipt: it parses, it timestamps these octets, and it carries a
\* Bitcoin attestation at a height Bitcoin can have.
VerifyReceipt(receipt, stamped) ==
  IF ~receipt.parses THEN Refused("Unparsable")
  ELSE IF receipt.start # stamped THEN Refused("WrongRoot")
  ELSE IF receipt.attests = Nothing THEN Refused("NotYetConfirmed")
  ELSE IF receipt.attests > MaxU32 THEN Refused("Unparsable")
  ELSE [kind |-> "Claim", height |-> receipt.attests, attested_digest |-> receipt.output]

\* run: confirm-anchor-b, from what it reads to the line it prints.  A file
\* with part of a header at its end, or with none, is refused.
RunWith(claim, trailing, at) ==
  IF trailing \/ headers = <<>> THEN Refused("Headers")
  ELSE IF at = Nothing THEN Refused("Checkpoint")
  ELSE IF claim.kind = "Refused" THEN claim
  ELSE Confirm(claim, at, headers)

Run(receipt, stamped, trailing) ==
  RunWith(VerifyReceipt(receipt, stamped), trailing, checkpoint)

\* Mutant: a block not yet buried is judged like one that is.
JudgedAt(confirmation) == confirmation.kind \in {"Confirmed", "Pending"}

\* verify_transferred_promise judges a Confirmed and nothing else.
Judged(confirmation) == confirmation.kind = "Confirmed"

\* judge_against_confirmation: the block's day stands in for the epoch the
\* holder did not observe.
JudgeAgainst(p, confirmation, time) ==
  IF confirmation.kind = "Refused" THEN confirmation
  ELSE IF ~Judged(confirmation) THEN Refused("NotYetBuriedDeepEnough")
  ELSE LET verdict == VerifyPromise(p, BatcherKey, DayIndex(time))
       IN  IF verdict # "Ok" THEN Refused(verdict)
           ELSE [kind |-> "Established", time |-> time, existed_by_epoch |-> DayIndex(time)]

\* verify_transferred_promise: the receipt covers this promise and its block
\* is buried.
JudgeClaim(p, claim, at) ==
  IF claim.kind = "Refused" THEN claim
  ELSE JudgeAgainst(p, Confirm(claim, at, headers), headers[claim.height - at.height].time)

Transferred(p, receipt) == JudgeClaim(p, VerifyReceipt(receipt, Encode(p)), checkpoint)

----------------------------------------------------------------------------
(* The rules the check is for, stated for every block at once.  They are   *)
(* those of Bitcoin's that bitcoin.rs claims: not the bound of two hours   *)
(* on how far a timestamp may be ahead, which needs a clock, and not the   *)
(* version floors before the last one.  A boundary whose period began      *)
(* before the checkpoint cannot be judged at all.                          *)

\* The encodings of a target: the shortest, and of those the smallest.
Encodings(target) ==
  {b \in [exponent : 0 .. TargetDigits, mantissa : 1 .. SignBit - 1] :
     target = IF b.exponent <= MantissaDigits
              THEN b.mantissa \div Weight[MantissaDigits - b.exponent]
              ELSE b.mantissa * Weight[b.exponent - MantissaDigits]}

Canonical(target, bits) ==
  /\ target > 0
  /\ bits \in Encodings(target)
  /\ \A b \in Encodings(target) :
       \/ bits.exponent < b.exponent
       \/ bits.exponent = b.exponent /\ bits.mantissa <= b.mantissa

\* The largest target a header can carry that is no easier than the period
\* that closed and the limit allow.
NextTarget(previous, timespan) ==
  LET span   == IF timespan * 4 < TargetTimespan THEN TargetTimespan \div 4
                ELSE IF timespan > TargetTimespan * 4 THEN TargetTimespan * 4 ELSE timespan
      fits   == {t \in 0 .. PowLimit : t * TargetTimespan <= previous * span
                                       /\ Encodings(t) # {}}
  IN  CHOOSE t \in fits : \A u \in fits : u <= t

BlockTime(c, hs, place) == IF place = 0 THEN c.time ELSE hs[place].time

\* The block that began the period the block at place n closes is known.
PeriodKnown(c, n) == n > RetargetInterval \/ (n = RetargetInterval /\ c.time # Nothing)

\* The target in force at each place, looked up by height.
TargetAt(c, hs) ==
  LET at[n \in 0 .. Len(hs)] ==
        IF n = 0 THEN c.target
        ELSE IF OnABoundary(c.height + n) /\ PeriodKnown(c, n)
          THEN NextTarget(at[n - 1],
                          BlockTime(c, hs, n - 1) - BlockTime(c, hs, n - RetargetInterval))
        ELSE at[n - 1]
  IN  at

HashValue(hash) ==
  LET sum[i \in 0 .. TargetDigits] ==
        IF i = 0 THEN 0 ELSE sum[i - 1] + hash[i] * Weight[i - 1]
  IN  sum[TargetDigits]

\* The places of the median's span that are earlier than a time.
EarlierBelow(hs, place, time) ==
  {i \in place - MedianTimeSpan .. place - 1 : hs[i].time < time}

\* What is asked of the header at place n of a range from a checkpoint: the
\* period it closes is known, it names the block before it, its version and its
\* time are allowed (the time where the median's span fits into the range), it
\* declares the target in force and its hash meets it.
StatedRules(c, hs, n) ==
  LET h      == hs[n]
      target == TargetAt(c, hs)[n]
  IN  /\ OnABoundary(c.height + n) => PeriodKnown(c, n)
      /\ h.prev = IF n = 1 THEN BlockHash ELSE hs[n - 1].hash
      /\ c.height + n >= VersionFloorFrom => h.version >= VersionFloor
      /\ n > MedianTimeSpan
           => Cardinality(EarlierBelow(hs, n, h.time)) * 2 > MedianTimeSpan
      /\ Canonical(target, h.bits)
      /\ HashValue(h.hash) <= target

----------------------------------------------------------------------------
(* Actions *)

\* A hash with a given value.
HashOf(value) == [i \in 1 .. TargetDigits |-> (value \div Weight[i - 1]) % DigitBase]

\* The headers a miner may offer next: at any time, just meeting the target
\* in force, or with one thing wrong: the link, the version, the encoding, or
\* a hash just above the target.
Offered ==
  LET n      == Len(headers) + 1
      prev   == IF n = 1 THEN BlockHash ELSE headers[n - 1].hash
      target == TargetAt(checkpoint, Append(headers, Nothing))[n]
      right  == {b \in Encodings(target) : Canonical(target, b)}
      built(prevs, versions, bits, hashes) ==
        [prev : prevs, version : versions, time : Times, bits : bits, hash : hashes,
         merkle : {<<checkpoint.height + n, fork>>}]
  IN       built({prev}, {VersionFloor - 1, VersionFloor}, right, {HashOf(target)})
      \cup built({prev}, {VersionFloor}, right, {HashOf(target + 1)})
      \cup built({prev}, {VersionFloor}, Bits, {HashOf(0)})
      \cup built({<<>>}, {VersionFloor}, right, {HashOf(0)})

\* The file is a range that verifies from a checkpoint the tool accepts.
Valid == checkpoint # Nothing /\ VerifyChain(checkpoint, headers) = "Ok"

\* The holder's file, so far valid, gains a header.
Extend(header) ==
  /\ headers' = Append(headers, header)
  /\ best' = IF /\ VerifyChain(checkpoint, Append(headers, header)) = "Ok"
                /\ Len(headers) >= best
             THEN Len(headers) + 1 ELSE best
  /\ UNCHANGED <<env, fork, confirmed, established>>

\* Bitcoin replaces its newest blocks, never more than ConfirmationDepth of
\* the longest range it has had.
Reorganise(n) ==
  /\ fork < MaxForks
  /\ n < Len(headers) /\ n >= best - ConfirmationDepth
  /\ headers' = SubSeq(headers, 1, n)
  /\ fork' = fork + 1
  /\ UNCHANGED <<env, best, confirmed, established>>

\* confirm-anchor-b, run on the file as it stands; only a confirmation is kept.
ConfirmAnchorB(stamped, height, branch, trailing) ==
  /\ confirmed = Nothing
  /\ \E answer \in {Run(Receipt(stamped, height, branch), stamped, trailing)} :
       answer.kind = "Confirmed" /\ confirmed' = answer
  /\ UNCHANGED <<env, headers, best, fork, established>>

\* A later holder judges a promise by its receipt.
Transfer(p, receipt) ==
  /\ established = Nothing
  /\ \E answer \in {Transferred(p, receipt)} :
       /\ answer.kind = "Established"
       /\ established' = [promise |-> p, receipt |-> receipt, answer |-> answer]
  /\ UNCHANGED <<env, headers, best, fork, confirmed>>

Init ==
  /\ env \in Environment
  /\ headers = <<>> /\ best = 0 /\ fork = 0
  /\ confirmed = Nothing /\ established = Nothing

Next ==
  /\ Valid
  /\ \/ Len(headers) < Len(Stamp) /\ \E h \in Offered : Extend(h)
     \/ \E n \in 0 .. Len(headers) : Reorganise(n)
     \/ \E p, q \in DOMAIN Stamp, branch \in 0 .. fork, trailing \in BOOLEAN :
          ConfirmAnchorB(Encode(Stamp[p]), checkpoint.height + q, branch, trailing)
     \/ \E p, q \in DOMAIN Stamp, branch \in 0 .. fork :
          \E stamped \in {Encode(Stamp[p]), Encode(Stamp[q])} :
            Transfer(Stamp[p], Receipt(stamped, checkpoint.height + q, branch))

Spec == Init /\ [][Next]_vars

----------------------------------------------------------------------------
(* Properties *)

\* verify_chain_in, one walk that carries the target and the period along,
\* accepts a range exactly when every block of it keeps the rules as they are
\* stated block by block, across retargets, at the edges of the compact
\* encoding and where the median's span first fits: the target declared and met
\* is the one the timestamps in the range put in force.  How true the
\* timestamps are is not judged, and a range over a boundary whose period began
\* before the checkpoint is refused, although Bitcoin has such ranges.
AcceptsExactlyTheRules ==
  checkpoint # Nothing =>
    ((VerifyChain(checkpoint, headers) = "Ok")
      <=> \A n \in DOMAIN headers : StatedRules(checkpoint, headers, n))

\* What confirm-anchor-b once called confirmed is still in the chain after
\* any reorganisation of ConfirmationDepth blocks or fewer, and the flag
\* checked_against_median_time_past still tells the truth: it is set exactly
\* when the rule could be applied, and then the time really is past the median.
ConfirmedSurvives ==
  confirmed # Nothing =>
    LET place == confirmed.height - checkpoint.height
    IN  /\ place \in DOMAIN headers
        /\ headers[place].merkle = confirmed.merkle
        /\ headers[place].time = confirmed.time
        /\ IF confirmed.checked_against_median_time_past
           THEN /\ place > MedianTimeSpan
                /\ 2 * Cardinality(EarlierBelow(headers, place, confirmed.time)) > MedianTimeSpan
           ELSE place <= MedianTimeSpan

\* A judgment on a transferred promise never has to be withdrawn: while the
\* file is a valid range, asking again gives the same answer, or says that
\* the block is not yet buried again.
JudgmentStands ==
  (Valid /\ established # Nothing) =>
    Transferred(established.promise, established.receipt)
      \in {established.answer, Refused("NotYetBuriedDeepEnough")}

\* A promise judged good carries a signature that verify_strict takes for the
\* batcher's, is committed by the block its receipt names, and is answerable no
\* later than two merge delays after the day it demonstrably existed.
DeadlineIsBounded ==
  established # Nothing =>
    LET p     == established.promise
        place == established.receipt.attests - checkpoint.height
    IN  /\ p = Stamp[place]
        /\ VerifyStrict(BatcherKey, PromiseDigest(p), p.signature)
        /\ p.promised_epoch + p.max_merge_delay
             <= DayIndex(headers[place].time) + 2 * MaxMergeDelay
=============================================================================
