------------------------------ MODULE Headers ------------------------------
(***************************************************************************)
(* The Bitcoin header check of crates/certimining-client/src/bitcoin.rs: a *)
(* range of headers is walked from a trusted checkpoint, and a block of it *)
(* confirms what a receipt claims.                                         *)
(*                                                                         *)
(* The numbers are Bitcoin's with smaller digits: a target has             *)
(* TargetDigits digits of base DigitBase instead of 32 bytes, a mantissa   *)
(* MantissaDigits instead of 3, and the sign bit is the upper half of its  *)
(* leading digit.  A hash is a sequence of digits, least significant       *)
(* first, as a header stores it.                                           *)
(***************************************************************************)
EXTENDS Integers, Sequences, SequencesExt

CONSTANTS
  DigitBase, MantissaDigits, TargetDigits,  \* 256, 3 and 32
  PowLimit,           \* POW_LIMIT
  RetargetInterval,   \* RETARGET_INTERVAL
  TargetTimespan,     \* TARGET_TIMESPAN
  MedianTimeSpan,     \* MEDIAN_TIME_SPAN
  VersionFloor, VersionFloorFrom,
  ConfirmationDepth,  \* CONFIRMATION_DEPTH
  Nothing             \* Option::None

\* DigitBase to the power of n.
Weight[n \in 0 .. TargetDigits] == IF n = 0 THEN 1 ELSE DigitBase * Weight[n - 1]

\* POW_LIMIT leaves the sign bit of the largest exponent clear.
ASSUME HeadersAssumption ==
  /\ DigitBase \in Nat /\ DigitBase > 1 /\ DigitBase % 2 = 0
  /\ MantissaDigits \in Nat \ {0, 1} /\ TargetDigits \in Nat /\ TargetDigits >= MantissaDigits
  /\ PowLimit \in Nat \ {0} /\ PowLimit < (DigitBase \div 2) * Weight[TargetDigits - 1]
  /\ VersionFloor \in Nat /\ VersionFloorFrom \in Nat
  /\ RetargetInterval \in Nat \ {0, 1} /\ TargetTimespan \in Nat \ {0}
  /\ MedianTimeSpan \in Nat /\ MedianTimeSpan % 2 = 1 /\ ConfirmationDepth \in Nat

SignBit == (DigitBase \div 2) * Weight[MantissaDigits - 1]

----------------------------------------------------------------------------
(* Numbers *)

\* target_from_bits: a set sign bit, a zero mantissa and a shift past the end
\* encode no target.
TargetFromBits(bits) ==
  IF bits.mantissa >= SignBit \/ bits.mantissa = 0 THEN Nothing
  ELSE IF bits.exponent <= MantissaDigits
    THEN bits.mantissa \div Weight[MantissaDigits - bits.exponent]
  ELSE IF bits.exponent > TargetDigits THEN Nothing
  ELSE bits.mantissa * Weight[bits.exponent - MantissaDigits]

\* bits_from_target: the leading digits, moved down by one when they would
\* set the sign bit.
BitsFromTarget(target) ==
  IF target = 0 THEN Nothing
  ELSE LET size    == CHOOSE n \in 1 .. TargetDigits :
                        Weight[n - 1] <= target /\ target < Weight[n]
           leading == (target * Weight[MantissaDigits]) \div Weight[size]
       IN  IF leading >= SignBit
           THEN [exponent |-> size + 1, mantissa |-> leading \div DigitBase]
           ELSE [exponent |-> size, mantissa |-> leading]

\* mul_div: the product is exact and only the quotient has to fit.
MulDiv(value, mul, div) ==
  LET quotient == (value * mul) \div div
  IN  IF quotient >= Weight[TargetDigits] THEN Nothing ELSE quotient

\* Mutant: a period that took no time at all is not clamped.
ClampedFromAbove(timespan) ==
  IF timespan > 4 * TargetTimespan THEN 4 * TargetTimespan
  ELSE IF timespan < 0 THEN 0 ELSE timespan

\* The factor of four either way of retarget_in.
Clamped(timespan) ==
  IF timespan > 4 * TargetTimespan THEN 4 * TargetTimespan
  ELSE IF timespan < TargetTimespan \div 4 THEN TargetTimespan \div 4
  ELSE timespan

Limited(scaled) == IF scaled = Nothing \/ scaled > PowLimit THEN PowLimit ELSE scaled

RoundTrip(bits) == IF bits = Nothing THEN Nothing ELSE TargetFromBits(bits)

\* retarget_in: the clamped ratio, the limit, and a round trip through the
\* encoding a header carries.
Retarget(previous, timespan) ==
  RoundTrip(BitsFromTarget(Limited(MulDiv(previous, Clamped(timespan), TargetTimespan))))

\* The digit of a target a big-endian array holds at place i.
TargetDigit(target, i) == (target \div Weight[TargetDigits - i]) % DigitBase

\* less_than_or_equal_reversed: the hash's last digit against the target's
\* first, and so on to the first that differ.
LessThanOrEqualReversed(hash, target) ==
  LET differ == {i \in 1 .. TargetDigits :
                   hash[TargetDigits + 1 - i] # TargetDigit(target, i)}
      first  == CHOOSE i \in differ : \A j \in differ : i <= j
  IN  differ = {} \/ hash[TargetDigits + 1 - first] < TargetDigit(target, first)

----------------------------------------------------------------------------
(* The walk *)

\* median_time_past of the header at place n: Nothing unless the whole span
\* below it is in the range, and otherwise the time that stands in the middle
\* once the span's times are sorted.
MedianTimePast(headers, n) ==
  LET span    == n - MedianTimeSpan .. n - 1
      half    == MedianTimeSpan \div 2
      UpTo(t) == {i \in span : headers[i].time <= t}
      Below(t) == {i \in span : headers[i].time < t}
  IN  IF n <= MedianTimeSpan THEN Nothing
      ELSE CHOOSE t \in {headers[i].time : i \in span} :
             Cardinality(Below(t)) <= half /\ Cardinality(UpTo(t)) > half

OnABoundary(height) == height % RetargetInterval = 0

\* What is settled before the walk: the checkpoint's own target, and whether
\* a range that leaves its period can be followed.
CheckpointVerdict(checkpoint, headers) ==
  LET tip == checkpoint.height + Len(headers)
  IN  IF checkpoint.target > PowLimit THEN "EasierThanThePowLimit"
      ELSE IF /\ tip \div RetargetInterval # checkpoint.height \div RetargetInterval
              /\ ~(OnABoundary(checkpoint.height) /\ checkpoint.time # Nothing)
        THEN "CrossesARetargetBoundary"
      ELSE "Ok"

\* What the walk carries from one header to the next.
WalkFrom(checkpoint, verdict) ==
  [verdict |-> verdict, previous |-> checkpoint.hash,
   in_force |-> checkpoint.target, period_began |-> checkpoint.time]

\* The timestamp of the current period's first block.
PeriodBegan(at, header, height) ==
  IF OnABoundary(height) THEN header.time ELSE at.period_began

\* The checks of one turn, in their order.
HeaderVerdict(header, at, n, height, median, target, crosses, in_force) ==
  IF header.prev # at.previous
    THEN IF n = 1 THEN "NotFromTheCheckpoint" ELSE "Broken"
  ELSE IF height >= VersionFloorFrom /\ header.version < VersionFloor
    THEN "VersionTooOld"
  ELSE IF median # Nothing /\ header.time <= median
    THEN "TimestampNotAfterMedianTimePast"
  ELSE IF target = Nothing THEN "MalformedTarget"
  ELSE IF target > PowLimit THEN "EasierThanThePowLimit"
  ELSE IF crosses THEN "CrossesARetargetBoundary"
  ELSE IF in_force = Nothing \/ target = 0 THEN "MalformedTarget"
  ELSE IF BitsFromTarget(target) # header.bits THEN "DifficultyNotCanonical"
  ELSE IF target # in_force THEN "TargetNotTheOneInForce"
  ELSE IF ~LessThanOrEqualReversed(header.hash, target) THEN "InsufficientWork"
  ELSE "Ok"

\* One turn of the loop of verify_chain_in: the header at place n against
\* what the walk carries.  A boundary computes the target of the period that
\* begins, from the block that began the one that closes and its last block.
WalkStep(checkpoint, headers, n, at) ==
  LET header   == headers[n]
      height   == checkpoint.height + n
      crosses  == OnABoundary(height) /\ (at.period_began = Nothing \/ n = 1)
      in_force == IF OnABoundary(height) /\ ~crosses
                  THEN Retarget(at.in_force, headers[n - 1].time - at.period_began)
                  ELSE at.in_force
  IN  [verdict  |-> HeaderVerdict(header, at, n, height, MedianTimePast(headers, n),
                                  TargetFromBits(header.bits), crosses, in_force),
       previous |-> header.hash, in_force |-> in_force,
       period_began |-> PeriodBegan(at, header, height)]

\* verify_chain_in: the walk stops at the first header it refuses.
VerifyChain(checkpoint, headers) ==
  LET start == WalkFrom(checkpoint, CheckpointVerdict(checkpoint, headers))
      walk[n \in 0 .. Len(headers)] ==
        IF n = 0 THEN start
        ELSE LET at == walk[n - 1]
             IN  IF at.verdict # "Ok" THEN at ELSE WalkStep(checkpoint, headers, n, at)
  IN  walk[Len(headers)].verdict

----------------------------------------------------------------------------
(* Confirming a claim *)

Refused(why) == [kind |-> "Refused", why |-> why]

\* offset_of and header_at_in: the place a height has in a range that
\* verifies, or why it has none.
PlaceIn(verdict, headers, place) ==
  IF verdict # "Ok" THEN Refused(verdict)
  ELSE IF place \notin 1 .. Len(headers) THEN Refused("HeightNotCovered")
  ELSE [kind |-> "At", place |-> place]

PlaceOf(checkpoint, headers, height) ==
  PlaceIn(VerifyChain(checkpoint, headers), headers, height - checkpoint.height)

\* Mutant: the attested block is counted as work built on top of it.
DepthWithTheBlock(headers, place) == Len(headers) - place + 1

\* How many headers of the range that verified sit above a block.
Depth(headers, place) == Len(headers) - place

\* Whether the walk held a header's own timestamp to the median.
CheckedAgainstMedian(headers, place) == MedianTimePast(headers, place) # Nothing

\* confirm_in: the block must commit the digest, and carry ConfirmationDepth
\* headers above it or the answer is Pending.
ConfirmAt(at, claim, headers) ==
  IF at.kind = "Refused" THEN at
  ELSE IF headers[at.place].merkle # claim.attested_digest
    THEN Refused("DigestNotInTheBlock")
  ELSE IF Depth(headers, at.place) < ConfirmationDepth
    THEN [kind |-> "Pending", height |-> claim.height, depth |-> Depth(headers, at.place)]
  ELSE [kind |-> "Confirmed", height |-> claim.height,
        merkle |-> headers[at.place].merkle, time |-> headers[at.place].time,
        checked_against_median_time_past |-> CheckedAgainstMedian(headers, at.place)]

Confirm(claim, checkpoint, headers) ==
  ConfirmAt(PlaceOf(checkpoint, headers, claim.height), claim, headers)
=============================================================================
