------------------------ MODULE BitcoinAnchorProofs ------------------------
(***************************************************************************)
(* verify_chain_in accepts exactly the ranges whose blocks keep the rules  *)
(* stated for them, and what a holder learned from Bitcoin stays true.     *)
(*                                                                         *)
(* The first rests on arithmetic: the compact encoding is a pair of        *)
(* quotients, a retarget is the largest number a header can carry below a  *)
(* bound, and comparing a hash with a target digit by digit compares the   *)
(* numbers.  The walk then carries at every place the target in force and  *)
(* the time the period began.                                              *)
(*                                                                         *)
(* The second does not look into targets and work: a range that verifies   *)
(* is never longer than the longest Bitcoin has had, a reorganisation      *)
(* replaces no more than ConfirmationDepth blocks of that one, and a       *)
(* confirmation had so many above it.                                      *)
(***************************************************************************)
EXTENDS BitcoinAnchor, FiniteSetTheorems, WellFoundedInduction, TLAPS

----------------------------------------------------------------------------
(* The inductive invariant. *)

\* What a checkpoint and a header are.
IsCheckpoint(c) ==
  /\ c.height \in Nat /\ c.hash = BlockHash
  /\ c.target \in 0 .. PowLimit /\ c.time \in Nat \cup {Nothing}

IsHeader(h) ==
  /\ h.time \in Nat /\ h.version \in Int /\ h.bits \in Encoding /\ h.hash \in Digits
  /\ h.merkle # Nothing

\* The file is a sequence of headers, and no valid range is longer than the
\* longest.
FileInv ==
  /\ env \in Environment
  /\ fork \in Nat /\ best \in Nat
  /\ \E S : headers \in Seq(S)
  /\ \A n \in 1 .. Len(headers) : IsHeader(headers[n])
  /\ Valid => Len(headers) <= best

\* A block that was once buried: it is in the file, and no reorganisation
\* reaches it.
Buried(place) ==
  /\ checkpoint # Nothing
  /\ place \in 1 .. Len(headers)
  /\ place + ConfirmationDepth <= best

\* The median rule held for a block, and the flag says whether there was one.
FlagIsTrue(flag, place, time) ==
  IF flag
  THEN /\ place > MedianTimeSpan
       /\ 2 * Cardinality(EarlierBelow(headers, place, time)) > MedianTimeSpan
  ELSE place <= MedianTimeSpan

\* A confirmation is about a buried block.
ConfirmedInv ==
  confirmed # Nothing =>
    LET place == confirmed.height - checkpoint.height
    IN  /\ Buried(place)
        /\ headers[place].merkle = confirmed.merkle
        /\ headers[place].time = confirmed.time
        /\ FlagIsTrue(confirmed.checked_against_median_time_past, place, confirmed.time)

\* A judgment is about a promise, its receipt and a buried block.
EstablishedInv ==
  established # Nothing =>
    LET p     == established.promise
        r     == established.receipt
        place == r.attests - checkpoint.height
    IN  /\ Buried(place)
        /\ r.parses /\ r.start = Encode(p)
        /\ r.attests # Nothing /\ ~(r.attests > MaxU32)
        /\ headers[place].merkle = r.output
        /\ p = Stamp[place] /\ place \in DOMAIN Stamp
        /\ VerifyPromise(p, BatcherKey, DayIndex(headers[place].time)) = "Ok"
        /\ established.answer =
             [kind |-> "Established", time |-> headers[place].time,
              existed_by_epoch |-> DayIndex(headers[place].time)]

AnchorInv == FileInv /\ ConfirmedInv /\ EstablishedInv

----------------------------------------------------------------------------
(* Induction over sets of numbers. *)

\* A set of naturals that holds zero and every successor holds them all.
LEMMA SetInduction ==
  ASSUME NEW S \in SUBSET Nat, 0 \in S, \A n \in S : n + 1 \in S
  PROVE  S = Nat
<1> DEFINE R == {ss \in Nat \X Nat : ss[1] < ss[2]}
           Rest == Nat \ S
<1>1. IsWellFoundedOn(R, Nat)
  BY NatLessThanWellFounded, Zenon DEF OpToRel
<1>2. Rest \subseteq Nat
  OBVIOUS
<1> HIDE DEF R, Rest
<1>3. ASSUME Rest # {} PROVE FALSE
  <2>1. PICK x \in Rest : \A y \in Rest : ~ (<<y, x>> \in R)
    BY <1>1, <1>2, <1>3, WFMin
  <2>2. x \in Nat /\ x \notin S /\ x # 0
    BY <1>2 DEF Rest
  <2>3. x - 1 \in Nat /\ x - 1 < x
    BY <2>2
  <2>4. <<x - 1, x>> \in R
    BY <2>2, <2>3 DEF R
  <2>5. x - 1 \in S
    BY <2>1, <2>3, <2>4 DEF Rest
  <2>6. (x - 1) + 1 \in S
    BY <2>5
  <2> QED
    BY <2>2, <2>6
<1> QED
  BY <1>3 DEF Rest

\* A set of naturals that is not empty has a least element.
LEMMA LeastOf ==
  ASSUME NEW S \in SUBSET Nat, S # {}
  PROVE  \E m \in S : \A x \in S : m <= x
<1> DEFINE Lower == {n \in Nat : \A x \in S : n <= x}
<1>1. ASSUME \A m \in S : \E x \in S : ~(m <= x) PROVE FALSE
  <2>1. 0 \in Lower
    OBVIOUS
  <2>2. ASSUME NEW n \in Lower PROVE n + 1 \in Lower
    <3>1. n \notin S
      BY <1>1
    <3> QED
      BY <3>1
  <2>3. Lower = Nat
    <3>1. Lower \in SUBSET Nat /\ 0 \in Lower /\ \A n \in Lower : n + 1 \in Lower
      BY <2>1, <2>2
    <3> HIDE DEF Lower
    <3> QED
      BY <3>1, SetInduction
  <2>4. PICK x \in S : TRUE
    OBVIOUS
  <2>5. x + 1 \in Nat
    BY <2>4
  <2>6. x + 1 \in Lower
    <3> HIDE DEF Lower
    <3> QED
      BY <2>3, <2>5
  <2> QED
    BY <2>4, <2>6
<1> QED
  BY <1>1

----------------------------------------------------------------------------
(* Products and quotients. *)

\* Products associate.
LEMMA TimesAssociates ==
  ASSUME NEW a \in Int, NEW b \in Int, NEW c \in Int
  PROVE  a * (b * c) = (a * b) * c
  BY Z3

\* Products commute.
LEMMA TimesCommutes ==
  ASSUME NEW a \in Int, NEW b \in Int
  PROVE  a * b = b * a
  BY Z3

\* Products distribute over sums and differences.
LEMMA TimesDistributes ==
  ASSUME NEW a \in Int, NEW b \in Int, NEW c \in Int
  PROVE  (a + b) * c = a * c + b * c /\ (a - b) * c = a * c - b * c
  BY Z3

\* A product of naturals is one.
LEMMA TimesNat ==
  ASSUME NEW a \in Nat, NEW b \in Nat
  PROVE  a * b \in Nat
  BY Z3

\* A product of positive numbers is positive.
LEMMA TimesPositive ==
  ASSUME NEW a \in Nat \ {0}, NEW b \in Nat \ {0}
  PROVE  a * b \in Nat \ {0}
  BY Z3

\* Products grow with a factor.
LEMMA TimesMonotone ==
  ASSUME NEW a \in Int, NEW b \in Int, NEW c \in Nat, a <= b
  PROVE  a * c <= b * c
  BY Z3

\* A positive factor does not change an order.
LEMMA TimesCancels ==
  ASSUME NEW a \in Int, NEW b \in Int, NEW c \in Nat \ {0}
  PROVE  a * c <= b * c <=> a <= b
<1>1. a * c <= b * c => a <= b
  BY Z3
<1>2. a <= b => a * c <= b * c
  BY TimesMonotone
<1> QED
  BY <1>1, <1>2

\* What a quotient is, between two multiples of the divisor.
LEMMA DivBounds ==
  ASSUME NEW a \in Nat, NEW d \in Nat \ {0}
  PROVE  a \div d \in Nat /\ (a \div d) * d <= a /\ a < (a \div d + 1) * d
  BY Z3

\* A quotient is the largest number whose product with the divisor fits.
LEMMA DivIsLargest ==
  ASSUME NEW a \in Nat, NEW d \in Nat \ {0}, NEW q \in Nat
  PROVE  q <= a \div d <=> q * d <= a
<1>1. PICK r \in Nat : r = a \div d
  BY DivBounds
<1>2. r * d <= a /\ a < (r + 1) * d /\ r * d \in Nat /\ q * d \in Nat /\ (r + 1) * d \in Nat
  BY <1>1, DivBounds, TimesNat
<1>3. ASSUME q <= r PROVE q * d <= a
  <2>1. q * d <= r * d
    BY <1>3, TimesMonotone
  <2> QED
    BY <1>2, <2>1
<1>4. ASSUME q * d <= a PROVE q <= r
  <2>1. ~((r + 1) * d <= q * d)
    BY <1>2, <1>4
  <2>2. ~(r + 1 <= q)
    BY <2>1, TimesMonotone
  <2> QED
    BY <2>2
<1> QED
  BY <1>1, <1>3, <1>4

\* A quotient and its remainder.
LEMMA RemainderIs ==
  ASSUME NEW a \in Nat, NEW d \in Nat \ {0}
  PROVE  /\ a \div d \in Nat /\ a % d \in Nat /\ a % d < d
         /\ a = (a \div d) * d + (a % d)
<1>1. a % d \in Nat /\ a % d < d /\ a = d * (a \div d) + (a % d)
  BY Z3
<1>2. a \div d \in Nat
  BY DivBounds
<1>3. d * (a \div d) = (a \div d) * d
  BY <1>2, TimesCommutes
<1> QED
  BY <1>1, <1>2, <1>3

\* A multiple leaves no remainder.
LEMMA MultipleIs ==
  ASSUME NEW k \in Nat, NEW d \in Nat \ {0}
  PROVE  (k * d) % d = 0
<1>1. PICK a \in Nat : a = k * d
  BY TimesNat
<1>2. PICK q, r \in Nat : q = a \div d /\ r = a % d /\ a = q * d + r
  BY RemainderIs
<1>3. k <= q
  BY <1>1, <1>2, DivIsLargest
<1>4. k * d <= q * d /\ q * d \in Nat
  BY <1>3, TimesMonotone, TimesNat
<1> QED
  BY <1>1, <1>2, <1>4

\* A common factor leaves a quotient alone.
LEMMA DivCommonFactor ==
  ASSUME NEW a \in Nat, NEW d \in Nat \ {0}, NEW f \in Nat \ {0}
  PROVE  (a * f) \div (d * f) = a \div d
<1> DEFINE p == a \div d
           q == (a * f) \div (d * f)
<1>1. /\ d * f \in Nat \ {0} /\ a * f \in Nat
  BY TimesNat, TimesPositive
<1>2. p \in Nat /\ q \in Nat
  BY <1>1, DivBounds
<1>3. ASSUME NEW n \in Nat PROVE n <= p <=> n <= q
  <2>1. n <= p <=> n * d <= a
    BY DivIsLargest
  <2>2. n * (d * f) = (n * d) * f /\ n * d \in Nat
    BY TimesAssociates, TimesNat
  <2>3. n * d <= a <=> (n * d) * f <= a * f
    BY <2>2, TimesCancels
  <2>4. n <= q <=> n * (d * f) <= a * f
    BY <1>1, DivIsLargest
  <2> QED
    BY <2>1, <2>2, <2>3, <2>4
<1> HIDE DEF p, q
<1>4. p <= q /\ q <= p
  BY <1>2, <1>3
<1>5. p = q
  BY <1>2, <1>4
<1> QED
  BY <1>5 DEF p, q

\* Dividing twice is dividing by the product.
LEMMA DivTwice ==
  ASSUME NEW a \in Nat, NEW d \in Nat \ {0}, NEW f \in Nat \ {0}
  PROVE  (a \div d) \div f = a \div (f * d)
<1> DEFINE p == (a \div d) \div f
           q == a \div (f * d)
<1>1. f * d \in Nat \ {0} /\ a \div d \in Nat
  BY TimesPositive, DivBounds
<1>2. p \in Nat /\ q \in Nat
  BY <1>1, DivBounds
<1>3. ASSUME NEW n \in Nat PROVE n <= p <=> n <= q
  <2>1. n <= p <=> n * f <= a \div d
    BY <1>1, DivIsLargest
  <2>2. n * (f * d) = (n * f) * d /\ n * f \in Nat
    BY TimesAssociates, TimesNat
  <2>3. n * f <= a \div d <=> (n * f) * d <= a
    BY <2>2, DivIsLargest
  <2>4. n <= q <=> n * (f * d) <= a
    BY <1>1, DivIsLargest
  <2> QED
    BY <2>1, <2>2, <2>3, <2>4
<1> HIDE DEF p, q
<1>4. p <= q /\ q <= p
  BY <1>2, <1>3
<1>5. p = q
  BY <1>2, <1>4
<1> QED
  BY <1>5 DEF p, q

----------------------------------------------------------------------------
(* Weights. *)

\* The recursion of Weight.
LEMMA WeightIs ==
  \A n \in 0 .. TargetDigits :
    Weight[n] = IF n = 0 THEN 1 ELSE DigitBase * Weight[n - 1]
<1> DEFINE D(f, k) == IF k = 0 THEN 1 ELSE DigitBase * f[k - 1]
           P(k) == \E f : f = [j \in 0 .. k |-> D(f, j)]
           Good == {k \in Nat : P(k)}
<1>0. TargetDigits \in Nat
  BY HeadersAssumption
<1>1. 0 \in Good
  <2> DEFINE f == [j \in 0 .. 0 |-> 1]
  <2>1. f = [j \in 0 .. 0 |-> D(f, j)]
    OBVIOUS
  <2>2. P(0)
    BY <2>1
  <2> HIDE DEF P
  <2> QED
    BY <2>2
<1>2. ASSUME NEW k \in Good PROVE k + 1 \in Good
  <2>0. k \in Nat /\ P(k)
    OBVIOUS
  <2>1. PICK f : f = [j \in 0 .. k |-> D(f, j)]
    BY <2>0
  <2> DEFINE g == [j \in 0 .. k + 1 |-> IF j <= k THEN f[j] ELSE D(f, k + 1)]
  <2>2. ASSUME NEW j \in 0 .. k + 1 PROVE g[j] = D(g, j)
    <3>1. j # 0 => g[j - 1] = f[j - 1]
      BY <2>0
    <3>2. D(g, j) = D(f, j)
      <4> HIDE DEF g
      <4> QED
        BY <3>1
    <3>3. CASE j <= k
      <4>1. j \in 0 .. k /\ g[j] = f[j]
        BY <2>0, <3>3
      <4>2. f[j] = D(f, j)
        BY <2>1, <4>1
      <4> HIDE DEF D, g
      <4> QED
        BY <3>2, <4>1, <4>2
    <3>4. CASE j = k + 1
      <4>1. g[j] = D(f, j)
        BY <2>0, <3>4
      <4> HIDE DEF D, g
      <4> QED
        BY <3>2, <4>1
    <3> QED
      BY <2>0, <3>3, <3>4
  <2>3. g = [j \in 0 .. k + 1 |-> D(g, j)]
    <3>1. g = [j \in 0 .. k + 1 |-> g[j]]
      OBVIOUS
    <3> HIDE DEF g, D
    <3> QED
      BY <2>2, <3>1
  <2>4. P(k + 1)
    <3> HIDE DEF g
    <3> QED
      BY <2>3
  <2> HIDE DEF P
  <2> QED
    BY <2>0, <2>4
<1>3. P(TargetDigits)
  <2>1. Good \in SUBSET Nat /\ \A k \in Good : k + 1 \in Good
    BY <1>2
  <2>2. Good = Nat
    <3> HIDE DEF Good
    <3> QED
      BY <1>1, <2>1, SetInduction
  <2>3. TargetDigits \in Good
    <3> HIDE DEF Good
    <3> QED
      BY <1>0, <2>2
  <2> HIDE DEF P
  <2> QED
    BY <2>3
<1>4. Weight = CHOOSE f : f = [j \in 0 .. TargetDigits |-> D(f, j)]
  BY Zenon DEF Weight
<1>5. Weight = [j \in 0 .. TargetDigits |-> D(Weight, j)]
  <2> HIDE DEF D
  <2> QED
    BY <1>3, <1>4
<1> QED
  BY <1>5

\* Weights are positive.
LEMMA WeightPositive == \A n \in 0 .. TargetDigits : Weight[n] \in Nat \ {0}
<1> DEFINE Good == {n \in Nat : n <= TargetDigits => Weight[n] \in Nat \ {0}}
<1>0. TargetDigits \in Nat /\ DigitBase \in Nat \ {0}
  BY HeadersAssumption
<1>1. 0 \in Good
  BY <1>0, WeightIs
<1>2. ASSUME NEW n \in Good PROVE n + 1 \in Good
  <2> SUFFICES ASSUME n + 1 <= TargetDigits PROVE Weight[n + 1] \in Nat \ {0}
    OBVIOUS
  <2>1. n \in Nat /\ Weight[n] \in Nat \ {0} /\ (n + 1) - 1 = n /\ n + 1 \in 0 .. TargetDigits
    BY <1>0
  <2>2. Weight[n + 1] = DigitBase * Weight[n]
    BY <2>1, WeightIs
  <2> QED
    BY <1>0, <2>1, <2>2, TimesPositive
<1>3. Good = Nat
  <2>1. Good \in SUBSET Nat /\ \A n \in Good : n + 1 \in Good
    BY <1>2
  <2> HIDE DEF Good
  <2> QED
    BY <1>1, <2>1, SetInduction
<1> QED
  BY <1>3

\* The weight of the next place.
LEMMA WeightNext ==
  ASSUME NEW n \in Nat, n + 1 <= TargetDigits
  PROVE  /\ Weight[n] \in Nat \ {0} /\ Weight[n + 1] \in Nat \ {0}
         /\ Weight[n + 1] = DigitBase * Weight[n]
<1>1. TargetDigits \in Nat /\ n \in 0 .. TargetDigits /\ n + 1 \in 0 .. TargetDigits /\ (n + 1) - 1 = n
  BY HeadersAssumption
<1> QED
  BY <1>1, WeightIs, WeightPositive

\* Weights multiply.
LEMMA WeightAdds ==
  ASSUME NEW a \in Nat, NEW b \in Nat, a + b <= TargetDigits
  PROVE  Weight[a + b] = Weight[a] * Weight[b]
<1> DEFINE Good == {n \in Nat : a + n <= TargetDigits => Weight[a + n] = Weight[a] * Weight[n]}
<1>0. TargetDigits \in Nat /\ DigitBase \in Nat
  BY HeadersAssumption
<1>1. 0 \in Good
  <2> SUFFICES ASSUME a + 0 <= TargetDigits PROVE Weight[a + 0] = Weight[a] * Weight[0]
    OBVIOUS
  <2>1. Weight[a] \in Nat /\ Weight[0] = 1 /\ a + 0 = a
    BY <1>0, WeightIs, WeightPositive
  <2> QED
    BY <2>1
<1>2. ASSUME NEW n \in Good PROVE n + 1 \in Good
  <2> SUFFICES ASSUME a + (n + 1) <= TargetDigits
               PROVE  Weight[a + (n + 1)] = Weight[a] * Weight[n + 1]
    OBVIOUS
  <2>1. n \in Nat /\ a + n \in Nat /\ (a + n) + 1 <= TargetDigits /\ n + 1 <= TargetDigits
        /\ a + (n + 1) = (a + n) + 1 /\ a + n <= TargetDigits /\ a \in 0 .. TargetDigits
    BY <1>0
  <2>2. PICK x, y, z \in Nat : x = Weight[a] /\ y = Weight[n] /\ z = Weight[a + n]
    BY <1>0, <2>1, WeightPositive
  <2>3. z = x * y
    BY <2>1, <2>2
  <2>4. Weight[(a + n) + 1] = DigitBase * z
    BY <2>1, <2>2, WeightNext
  <2>5. Weight[n + 1] = DigitBase * y
    BY <2>1, <2>2, WeightNext
  <2>6. DigitBase * (x * y) = x * (DigitBase * y)
    <3>1. DigitBase * (x * y) = (DigitBase * x) * y
      BY <1>0, TimesAssociates
    <3>2. DigitBase * x = x * DigitBase
      BY <1>0, TimesCommutes
    <3>3. (x * DigitBase) * y = x * (DigitBase * y)
      BY <1>0, TimesAssociates
    <3> QED
      BY <3>1, <3>2, <3>3
  <2> QED
    BY <2>1, <2>2, <2>3, <2>4, <2>5, <2>6
<1>3. Good = Nat
  <2>1. Good \in SUBSET Nat /\ \A n \in Good : n + 1 \in Good
    BY <1>2
  <2> HIDE DEF Good
  <2> QED
    BY <1>1, <2>1, SetInduction
<1> QED
  BY <1>3

\* Weights grow.
LEMMA WeightGrows ==
  ASSUME NEW a \in 0 .. TargetDigits, NEW b \in 0 .. TargetDigits, a <= b
  PROVE  Weight[a] <= Weight[b]
<1>0. TargetDigits \in Nat
  BY HeadersAssumption
<1>1. b - a \in Nat /\ a + (b - a) = b /\ b - a \in 0 .. TargetDigits /\ a \in Nat /\ b <= TargetDigits
  BY <1>0
<1>2. Weight[b] = Weight[a] * Weight[b - a]
  BY <1>1, WeightAdds
<1>3. PICK x, y \in Nat \ {0} : x = Weight[a] /\ y = Weight[b - a]
  BY <1>1, WeightPositive
<1>4. 1 * x <= y * x /\ y * x = x * y /\ 1 * x = x
  BY <1>3, TimesMonotone, TimesCommutes
<1> QED
  BY <1>2, <1>3, <1>4

----------------------------------------------------------------------------
(* The compact encoding. *)

Half == DigitBase \div 2

\* The least number of n + 1 digits with the sign bit set.
SignOf(n) == Half * Weight[n]

\* What an exponent and a mantissa encode, and the mantissa of a number for an
\* exponent, without a case for short numbers.
Value(e, k) == (k * Weight[e]) \div Weight[MantissaDigits]
Mantissa(t, x) == (t * Weight[MantissaDigits]) \div Weight[x]

\* The sizes of it all.
LEMMA Sizes ==
  /\ DigitBase \in Nat \ {0, 1} /\ Half \in Nat \ {0} /\ 2 * Half = DigitBase
  /\ MantissaDigits \in Nat /\ MantissaDigits >= 2
  /\ TargetDigits \in Nat /\ MantissaDigits <= TargetDigits
  /\ Weight[MantissaDigits] \in Nat \ {0} /\ SignBit \in Nat \ {0}
  /\ PowLimit \in Nat \ {0} /\ PowLimit < SignOf(TargetDigits - 1)
<1>1. /\ DigitBase \in Nat \ {0, 1} /\ Half \in Nat \ {0} /\ 2 * Half = DigitBase
  BY HeadersAssumption DEF Half
<1>2. /\ MantissaDigits \in Nat /\ MantissaDigits >= 2
      /\ TargetDigits \in Nat /\ MantissaDigits <= TargetDigits
      /\ PowLimit \in Nat \ {0} /\ PowLimit < SignOf(TargetDigits - 1)
  BY HeadersAssumption DEF SignOf, Half
<1>3. MantissaDigits \in 0 .. TargetDigits /\ MantissaDigits - 1 \in 0 .. TargetDigits
  BY <1>2
<1>4. Weight[MantissaDigits] \in Nat \ {0} /\ Weight[MantissaDigits - 1] \in Nat \ {0}
  BY <1>3, WeightPositive
<1>5. SignBit \in Nat \ {0}
  BY <1>1, <1>4, TimesPositive DEF SignBit, Half
<1> QED
  BY <1>1, <1>2, <1>4, <1>5

\* The sign bit is worth as much wherever the exponent moves it.
LEMMA SignMoves ==
  ASSUME NEW x \in 1 .. TargetDigits
  PROVE  /\ Weight[x] \in Nat \ {0} /\ SignOf(x - 1) \in Nat \ {0}
         /\ SignBit * Weight[x] = SignOf(x - 1) * Weight[MantissaDigits]
         /\ Weight[x - 1] <= SignOf(x - 1) /\ SignOf(x - 1) < Weight[x]
<1>1. /\ x - 1 \in Nat /\ (x - 1) + 1 = x /\ x <= TargetDigits
      /\ MantissaDigits - 1 \in Nat /\ (MantissaDigits - 1) + 1 = MantissaDigits
  BY Sizes
<1>2. PICK w, v \in Nat \ {0} : w = Weight[x - 1] /\ v = Weight[MantissaDigits - 1]
  BY <1>1, Sizes, WeightNext
<1>3. Weight[x] = DigitBase * w /\ Weight[x] \in Nat \ {0}
  BY <1>1, <1>2, WeightNext
<1>4. Weight[MantissaDigits] = DigitBase * v
  BY <1>1, <1>2, Sizes, WeightNext
<1>5. PICK h, b \in Nat \ {0} : h = Half /\ b = DigitBase /\ b = 2 * h
  BY Sizes
<1>6. SignOf(x - 1) = h * w /\ SignBit = h * v
  BY <1>2, <1>5 DEF SignOf, SignBit, Half
<1>7. (h * v) * (b * w) = (h * w) * (b * v)
  <2>1. (h * v) * (b * w) = h * (v * (b * w))
    <3>1. b * w \in Nat
      BY TimesNat
    <3> QED
      BY <3>1, TimesAssociates
  <2>2. (h * w) * (b * v) = h * (w * (b * v))
    <3>1. b * v \in Nat
      BY TimesNat
    <3> QED
      BY <3>1, TimesAssociates
  <2>3. v * (b * w) = (v * b) * w
    BY TimesAssociates
  <2>4. v * b = b * v /\ b * v \in Int
    BY TimesCommutes
  <2>5. (b * v) * w = w * (b * v)
    BY <2>4, TimesCommutes
  <2> QED
    BY <2>1, <2>2, <2>3, <2>4, <2>5
<1>8. h * w \in Nat \ {0} /\ 1 * w <= h * w /\ 1 * w = w
  BY TimesPositive, TimesMonotone
<1>9. h * w < b * w
  <2>1. b * w = h * w + h * w
    <3>1. (h + h) * w = h * w + h * w
      BY TimesDistributes
    <3> QED
      BY <1>5, <3>1
  <2> QED
    BY <1>8, <2>1
<1> QED
  BY <1>2, <1>3, <1>4, <1>5, <1>6, <1>7, <1>8, <1>9

\* It is worth more in a higher place.
LEMMA SignGrows ==
  ASSUME NEW a \in 0 .. TargetDigits, NEW b \in 0 .. TargetDigits, a <= b
  PROVE  SignOf(a) <= SignOf(b) /\ SignOf(a) \in Nat /\ SignOf(b) \in Nat
<1>1. PICK w, v, h \in Nat : w = Weight[a] /\ v = Weight[b] /\ h = Half /\ w <= v
  BY Sizes, WeightPositive, WeightGrows
<1>2. w * h <= v * h /\ h * w = w * h /\ h * v = v * h /\ h * w \in Nat /\ h * v \in Nat
  BY <1>1, TimesMonotone, TimesCommutes, TimesNat
<1> QED
  BY <1>1, <1>2 DEF SignOf

\* The two cases of target_from_bits are one quotient.
LEMMA ValueIs ==
  ASSUME NEW e \in 0 .. TargetDigits, NEW k \in Nat
  PROVE  /\ Value(e, k) \in Nat
         /\ Value(e, k) = IF e <= MantissaDigits
                          THEN k \div Weight[MantissaDigits - e]
                          ELSE k * Weight[e - MantissaDigits]
<1>0. Weight[e] \in Nat \ {0} /\ k * Weight[e] \in Nat
  BY WeightPositive, TimesNat
<1>1. Value(e, k) \in Nat
  BY <1>0, Sizes, DivBounds DEF Value
<1>2. CASE e <= MantissaDigits
  <2>1. MantissaDigits - e \in Nat /\ e \in Nat /\ (MantissaDigits - e) + e = MantissaDigits
        /\ MantissaDigits - e \in 0 .. TargetDigits
    BY <1>2, Sizes
  <2>2. Weight[MantissaDigits] = Weight[MantissaDigits - e] * Weight[e]
    BY <2>1, Sizes, WeightAdds
  <2>3. Weight[MantissaDigits - e] \in Nat \ {0}
    BY <2>1, WeightPositive
  <2>4. (k * Weight[e]) \div (Weight[MantissaDigits - e] * Weight[e]) = k \div Weight[MantissaDigits - e]
    BY <1>0, <2>3, DivCommonFactor
  <2> QED
    BY <1>1, <1>2, <2>2, <2>4 DEF Value
<1>3. CASE e > MantissaDigits
  <2>1. e - MantissaDigits \in Nat /\ (e - MantissaDigits) + MantissaDigits = e
        /\ e - MantissaDigits \in 0 .. TargetDigits /\ e <= TargetDigits
    BY <1>3, Sizes
  <2>2. PICK g, m \in Nat \ {0} : g = Weight[e - MantissaDigits] /\ m = Weight[MantissaDigits]
    BY <2>1, Sizes, WeightPositive
  <2>3. Weight[e] = g * m
    BY <2>1, <2>2, Sizes, WeightAdds
  <2>4. k * (g * m) = (k * g) * m /\ k * g \in Nat
    BY TimesAssociates, TimesNat
  <2>5. ((k * g) * m) \div (1 * m) = (k * g) \div 1
    BY <2>4, DivCommonFactor
  <2>6. 1 * m = m /\ (k * g) \div 1 = k * g
    BY <2>4
  <2>7. Value(e, k) = k * g
    BY <2>2, <2>3, <2>4, <2>5, <2>6 DEF Value
  <2>8. ~(e <= MantissaDigits)
    BY <1>3, Sizes
  <2> QED
    BY <1>1, <2>2, <2>7, <2>8
<1>4. e <= MantissaDigits \/ e > MantissaDigits
  BY Sizes
<1> QED
  BY <1>2, <1>3, <1>4

\* A mantissa without the sign bit encodes less than it.
LEMMA ValueBound ==
  ASSUME NEW e \in 0 .. TargetDigits, NEW k \in Nat, k < SignBit
  PROVE  /\ e = 0 => Value(e, k) = 0
         /\ e > 0 => Value(e, k) < SignOf(e - 1)
<1>0. Value(e, k) \in Nat /\ Weight[e] \in Nat \ {0} /\ k * Weight[e] \in Nat
  BY ValueIs, WeightPositive, TimesNat
<1>1. CASE e > 0
  <2>1. e \in 1 .. TargetDigits
    BY <1>1, Sizes
  <2>2. /\ SignOf(e - 1) \in Nat
        /\ SignBit * Weight[e] = SignOf(e - 1) * Weight[MantissaDigits]
    BY <2>1, SignMoves
  <2>3. SignOf(e - 1) <= Value(e, k) <=> SignOf(e - 1) * Weight[MantissaDigits] <= k * Weight[e]
    BY <1>0, <2>2, Sizes, DivIsLargest DEF Value
  <2>4. SignBit * Weight[e] <= k * Weight[e] <=> SignBit <= k
    BY <1>0, Sizes, TimesCancels
  <2>5. ~(SignBit <= k)
    BY Sizes
  <2>6. ~(SignOf(e - 1) <= Value(e, k))
    BY <2>2, <2>3, <2>4, <2>5
  <2> QED
    BY <1>0, <1>1, <2>2, <2>6
<1>2. CASE e = 0
  <2>1. Weight[0] = 1
    BY Sizes, WeightIs
  <2>2. SignBit < Weight[MantissaDigits]
    <3>1. MantissaDigits \in 1 .. TargetDigits
      BY Sizes
    <3> QED
      BY <3>1, SignMoves DEF SignOf, SignBit, Half
  <2>3. Value(e, k) = k \div Weight[MantissaDigits]
    BY <1>2, <2>1 DEF Value
  <2>4. 1 <= k \div Weight[MantissaDigits] <=> 1 * Weight[MantissaDigits] <= k
    BY Sizes, DivIsLargest
  <2>5. ~(1 * Weight[MantissaDigits] <= k)
    BY <2>2, Sizes
  <2> QED
    BY <1>0, <1>2, <2>3, <2>4, <2>5
<1>3. e = 0 \/ e > 0
  BY Sizes
<1> QED
  BY <1>1, <1>2, <1>3

\* What bits_from_target makes of a target: the exponent is the least whose sign
\* bit is above the target, and the mantissa the leading digits.
IsCompact(t, x) ==
  /\ x \in 1 .. TargetDigits
  /\ t < SignOf(x - 1)
  /\ x >= 2 => SignOf(x - 2) <= t
  /\ BitsFromTarget(t) = [exponent |-> x, mantissa |-> Mantissa(t, x)]

\* bits_from_target encodes every target below the last sign bit.
LEMMA CompactExists ==
  ASSUME NEW t \in Nat \ {0}, t < SignOf(TargetDigits - 1)
  PROVE  \E x \in 1 .. TargetDigits : IsCompact(t, x)
<1> DEFINE Size(n) == Weight[n - 1] <= t /\ t < Weight[n]
           size == CHOOSE n \in 1 .. TargetDigits : Size(n)
           leading == (t * Weight[MantissaDigits]) \div Weight[size]
           Over == {n \in Nat : n <= TargetDigits /\ t < Weight[n]}
<1>1. TargetDigits \in Over
  <2>1. TargetDigits \in 1 .. TargetDigits
    BY Sizes
  <2>2. SignOf(TargetDigits - 1) < Weight[TargetDigits] /\ SignOf(TargetDigits - 1) \in Nat
        /\ Weight[TargetDigits] \in Nat
    BY <2>1, SignMoves
  <2> QED
    BY <2>2, Sizes
<1>2. PICK s \in Over : \A n \in Over : s <= n
  <2>1. Over \in SUBSET Nat /\ Over # {}
    BY <1>1
  <2> HIDE DEF Over
  <2> QED
    BY <2>1, LeastOf
<1>3. s \in 1 .. TargetDigits /\ Size(s)
  <2>1. s \in Nat /\ s <= TargetDigits /\ t < Weight[s]
    BY <1>2
  <2>2. s # 0
    <3>1. Weight[0] = 1
      BY Sizes, WeightIs
    <3> QED
      BY <2>1, <3>1
  <2>3. s - 1 \in Nat /\ s - 1 <= TargetDigits /\ ~(s <= s - 1) /\ s - 1 \in 0 .. TargetDigits
    BY <2>1, <2>2, Sizes
  <2>4. s - 1 \notin Over
    BY <1>2, <2>3
  <2>5. Weight[s - 1] \in Nat
    BY <2>3, WeightPositive
  <2>6. Weight[s - 1] <= t
    BY <2>3, <2>4, <2>5
  <2> QED
    BY <2>1, <2>2, <2>6, Sizes
<1>4. size \in 1 .. TargetDigits /\ Size(size)
  <2> HIDE DEF Size
  <2> QED
    BY <1>3
<1>5. BitsFromTarget(t) = IF leading >= SignBit
                          THEN [exponent |-> size + 1, mantissa |-> leading \div DigitBase]
                          ELSE [exponent |-> size, mantissa |-> leading]
  BY DEF BitsFromTarget
<1> HIDE DEF size
<1>6. /\ Weight[size] \in Nat \ {0} /\ SignOf(size - 1) \in Nat
      /\ SignBit * Weight[size] = SignOf(size - 1) * Weight[MantissaDigits]
      /\ SignOf(size - 1) < Weight[size]
  BY <1>4, SignMoves
<1>7. t * Weight[MantissaDigits] \in Nat /\ leading \in Nat
  <2>1. t * Weight[MantissaDigits] \in Nat
    BY Sizes, TimesNat
  <2> QED
    BY <1>6, <2>1, DivBounds
<1>8. leading >= SignBit <=> SignOf(size - 1) <= t
  <2>1. SignBit <= leading <=> SignBit * Weight[size] <= t * Weight[MantissaDigits]
    BY <1>6, <1>7, Sizes, DivIsLargest
  <2>2. SignOf(size - 1) * Weight[MantissaDigits] <= t * Weight[MantissaDigits] <=> SignOf(size - 1) <= t
    BY <1>6, Sizes, TimesCancels
  <2>3. SignBit <= leading <=> SignOf(size - 1) <= t
    BY <1>6, <2>1, <2>2
  <2> HIDE DEF leading
  <2> QED
    BY <1>7, <2>3, Sizes
<1>9. CASE leading >= SignBit
  <2>1. SignOf(size - 1) <= t
    BY <1>8, <1>9
  <2>2. size # TargetDigits
    BY <1>6, <2>1, Sizes
  <2>3. size \in Nat /\ size + 1 \in 1 .. TargetDigits /\ size + 1 <= TargetDigits
        /\ (size + 1) - 1 = size /\ (size + 1) - 2 = size - 1
    BY <1>4, <2>2, Sizes
  <2>4. t < SignOf((size + 1) - 1)
    <3>1. Weight[(size + 1) - 1] <= SignOf((size + 1) - 1) /\ SignOf((size + 1) - 1) \in Nat
      BY <2>3, SignMoves
    <3>2. t < Weight[size]
      BY <1>4
    <3> QED
      BY <1>6, <2>3, <3>1, <3>2
  <2>5. leading \div DigitBase = Mantissa(t, size + 1)
    <3>1. Weight[size + 1] = DigitBase * Weight[size]
      BY <2>3, WeightNext
    <3>2. ((t * Weight[MantissaDigits]) \div Weight[size]) \div DigitBase
            = (t * Weight[MantissaDigits]) \div (DigitBase * Weight[size])
      BY <1>6, <1>7, Sizes, DivTwice
    <3> QED
      BY <3>1, <3>2 DEF Mantissa
  <2>6. BitsFromTarget(t) = [exponent |-> size + 1, mantissa |-> Mantissa(t, size + 1)]
    <3> HIDE DEF leading
    <3> QED
      BY <1>5, <1>9, <2>5
  <2>7. (size + 1) >= 2 => SignOf((size + 1) - 2) <= t
    BY <2>1, <2>3
  <2>8. IsCompact(t, size + 1)
    BY <2>3, <2>4, <2>6, <2>7 DEF IsCompact
  <2> QED
    BY <2>3, <2>8
<1>10. CASE ~(leading >= SignBit)
  <2>1. t < SignOf(size - 1)
    BY <1>6, <1>8, <1>10
  <2>2. BitsFromTarget(t) = [exponent |-> size, mantissa |-> Mantissa(t, size)]
    BY <1>5, <1>10 DEF Mantissa
  <2>3. size >= 2 => SignOf(size - 2) <= t
    <3> SUFFICES ASSUME size >= 2 PROVE SignOf(size - 2) <= t
      OBVIOUS
    <3>1. size - 1 \in 1 .. TargetDigits /\ (size - 1) - 1 = size - 2
      BY <1>4, Sizes
    <3>2. SignOf(size - 2) < Weight[size - 1] /\ SignOf(size - 2) \in Nat /\ Weight[size - 1] \in Nat
      BY <3>1, SignMoves
    <3>3. Weight[size - 1] <= t
      BY <1>4
    <3> QED
      BY <3>2, <3>3
  <2>4. IsCompact(t, size)
    BY <1>4, <2>1, <2>2, <2>3 DEF IsCompact
  <2> QED
    BY <1>4, <2>4
<1> QED
  BY <1>9, <1>10

\* Its mantissa is a quotient: the largest that encodes no more than the target.
LEMMA MantissaIs ==
  ASSUME NEW t \in Nat, NEW x \in 1 .. TargetDigits
  PROVE  /\ Mantissa(t, x) \in Nat
         /\ \A q \in Nat : q <= Mantissa(t, x) <=> q * Weight[x] <= t * Weight[MantissaDigits]
<1>1. Weight[x] \in Nat \ {0} /\ t * Weight[MantissaDigits] \in Nat
  BY Sizes, SignMoves, TimesNat
<1>2. PICK a \in Nat, d \in Nat \ {0} : a = t * Weight[MantissaDigits] /\ d = Weight[x]
  BY <1>1
<1>3. a \div d \in Nat /\ \A q \in Nat : q <= a \div d <=> q * d <= a
  BY DivBounds, DivIsLargest
<1> QED
  BY <1>2, <1>3 DEF Mantissa

\* And a value is a quotient.
LEMMA ValueIsLargest ==
  ASSUME NEW e \in 0 .. TargetDigits, NEW k \in Nat, NEW u \in Nat
  PROVE  u <= Value(e, k) <=> u * Weight[MantissaDigits] <= k * Weight[e]
<1>1. Weight[e] \in Nat /\ k * Weight[e] \in Nat
  BY WeightPositive, TimesNat
<1> QED
  BY <1>1, Sizes, DivIsLargest DEF Value

\* The mantissa is neither zero nor has the sign bit.
LEMMA MantissaBounds ==
  ASSUME NEW t \in Nat \ {0}, NEW x, IsCompact(t, x)
  PROVE  Mantissa(t, x) \in 1 .. SignBit - 1
<1>0. x \in 1 .. TargetDigits /\ t < SignOf(x - 1) /\ (x >= 2 => SignOf(x - 2) <= t)
  BY DEF IsCompact
<1>1. Mantissa(t, x) \in Nat
  BY <1>0, MantissaIs
<1>2. /\ Weight[x] \in Nat \ {0} /\ SignOf(x - 1) \in Nat
      /\ SignBit * Weight[x] = SignOf(x - 1) * Weight[MantissaDigits]
  BY <1>0, SignMoves
<1>3. ~(SignBit <= Mantissa(t, x))
  <2>1. SignBit <= Mantissa(t, x) <=> SignBit * Weight[x] <= t * Weight[MantissaDigits]
    BY <1>0, Sizes, MantissaIs
  <2>2. SignOf(x - 1) * Weight[MantissaDigits] <= t * Weight[MantissaDigits] <=> SignOf(x - 1) <= t
    BY <1>2, Sizes, TimesCancels
  <2>3. ~(SignOf(x - 1) <= t)
    BY <1>0, <1>2
  <2> QED
    BY <1>2, <2>1, <2>2, <2>3
<1>4. 1 * Weight[x] <= t * Weight[MantissaDigits]
  <2>0. t * Weight[MantissaDigits] \in Nat
    BY Sizes, TimesNat
  <2>1. CASE x = 1
    <3>1. Weight[1] <= Weight[MantissaDigits]
      BY Sizes, WeightGrows
    <3>2. 1 * Weight[MantissaDigits] <= t * Weight[MantissaDigits]
      BY Sizes, TimesMonotone
    <3> QED
      BY <1>2, <2>0, <2>1, <3>1, <3>2, Sizes
  <2>2. CASE x >= 2
    <3>1. /\ x - 2 \in Nat /\ x - 2 \in 0 .. TargetDigits /\ 2 \in Nat /\ (x - 2) + 2 = x
          /\ x <= TargetDigits /\ 2 \in 0 .. TargetDigits
      BY <1>0, <2>2, Sizes
    <3>2. PICK w, b2, m, sg \in Nat :
            /\ w = Weight[x - 2] /\ b2 = Weight[2] /\ m = Weight[MantissaDigits] /\ sg = SignOf(x - 2)
      <4>1. Weight[x - 2] \in Nat /\ Weight[2] \in Nat
        BY <3>1, WeightPositive
      <4>2. Weight[MantissaDigits] \in Nat
        BY Sizes
      <4>3. SignOf(x - 2) \in Nat
        BY <3>1, SignGrows
      <4> QED
        BY <4>1, <4>2, <4>3
    <3>3. Weight[x] = w * b2
      BY <3>1, <3>2, WeightAdds
    <3>4. b2 <= m
      BY <3>1, <3>2, Sizes, WeightGrows
    <3>5. w <= sg
      <4>1. x - 1 \in 1 .. TargetDigits /\ (x - 1) - 1 = x - 2
        BY <1>0, <2>2, Sizes
      <4> QED
        BY <3>2, <4>1, SignMoves
    <3>6. sg <= t
      BY <1>0, <2>2, <3>2
    <3>7. w * b2 <= t * b2
      BY <3>5, <3>6, TimesMonotone
    <3>8. b2 * t <= m * t /\ t * b2 = b2 * t /\ t * m = m * t
      BY <3>4, TimesMonotone, TimesCommutes
    <3>9. w * b2 \in Nat /\ t * b2 \in Nat /\ m * t \in Nat
      BY TimesNat
    <3>10. w * b2 <= t * m
      BY <3>7, <3>8, <3>9
    <3> QED
      BY <1>2, <3>2, <3>3, <3>10
  <2>3. x = 1 \/ x >= 2
    BY <1>0, Sizes
  <2> QED
    BY <2>1, <2>2, <2>3
<1>5. 1 <= Mantissa(t, x)
  BY <1>0, <1>4, MantissaIs
<1> QED
  BY <1>1, <1>3, <1>5, Sizes

\* The encoding rounds down.
LEMMA CompactBelow ==
  ASSUME NEW t \in Nat \ {0}, NEW x, IsCompact(t, x)
  PROVE  Value(x, Mantissa(t, x)) \in Nat /\ Value(x, Mantissa(t, x)) <= t
<1>0. x \in 1 .. TargetDigits /\ x \in 0 .. TargetDigits
  BY DEF IsCompact
<1>1. PICK m \in Nat : m = Mantissa(t, x)
  BY <1>0, MantissaIs
<1>2. PICK v \in Nat : v = Value(x, m)
  BY <1>0, ValueIs
<1>3. v * Weight[MantissaDigits] <= m * Weight[x]
  BY <1>0, <1>2, ValueIsLargest
<1>4. m * Weight[x] <= t * Weight[MantissaDigits]
  BY <1>0, <1>1, MantissaIs
<1>5. v * Weight[MantissaDigits] \in Nat /\ m * Weight[x] \in Nat /\ t * Weight[MantissaDigits] \in Nat
  BY <1>0, Sizes, WeightPositive, TimesNat
<1>6. v * Weight[MantissaDigits] <= t * Weight[MantissaDigits]
  BY <1>3, <1>4, <1>5
<1>7. v <= t
  BY <1>6, Sizes, TimesCancels
<1> QED
  BY <1>1, <1>2, <1>7

\* And no further than it must: whatever a header can carry that is no larger
\* than the target is no larger than what the target is rounded to.
LEMMA CompactIsLargest ==
  ASSUME NEW t \in Nat \ {0}, NEW x, IsCompact(t, x),
         NEW e \in 0 .. TargetDigits, NEW k \in Nat, k < SignBit, Value(e, k) <= t
  PROVE  Value(e, k) <= Value(x, Mantissa(t, x))
<1> DEFINE M == MantissaDigits
<1>0. x \in 1 .. TargetDigits /\ x \in 0 .. TargetDigits /\ (x >= 2 => SignOf(x - 2) <= t)
  BY DEF IsCompact
<1>1. PICK m \in Nat : m = Mantissa(t, x)
  BY <1>0, MantissaIs
<1>2. PICK u \in Nat : u = Value(e, k)
  BY ValueIs
<1>3. PICK wm, wx \in Nat \ {0} : wm = Weight[M] /\ wx = Weight[x]
  BY <1>0, Sizes, SignMoves
<1>4. u * wm \in Nat /\ t * wm \in Nat /\ u * wm <= t * wm
  BY <1>2, TimesNat, TimesMonotone
\* A multiple of the exponent's weight that is no larger than the target.
<1>5. ASSUME NEW q \in Nat, u * wm <= q * wx, q * wx <= t * wm PROVE u <= Value(x, m)
  <2>1. q <= m
    BY <1>0, <1>1, <1>3, <1>5, MantissaIs
  <2>2. q * wx <= m * wx
    BY <2>1, TimesMonotone
  <2>3. q * wx \in Nat /\ m * wx \in Nat
    BY TimesNat
  <2>4. u * wm <= m * wx
    BY <1>4, <1>5, <2>2, <2>3
  <2> QED
    BY <1>0, <1>3, <2>4, ValueIsLargest
<1>6. CASE x <= M
  <2>1. x \in Nat /\ M - x \in Nat /\ (M - x) + x = M /\ M - x \in 0 .. TargetDigits
    BY <1>0, <1>6, Sizes
  <2>2. PICK g \in Nat : g = Weight[M - x]
    BY <2>1, WeightPositive
  <2>3. wm = g * wx
    BY <1>3, <2>1, <2>2, Sizes, WeightAdds
  <2>4. u * (g * wx) = (u * g) * wx /\ u * g \in Nat
    BY TimesAssociates, TimesNat
  <2>5. (u * g) * wx = u * wm
    BY <2>3, <2>4
  <2>6. u * wm <= (u * g) * wx /\ (u * g) * wx <= t * wm
    BY <1>4, <2>5
  <2> QED
    BY <1>1, <1>2, <1>5, <2>4, <2>6
<1>7. CASE x > M /\ e >= x
  <2>1. e - x \in Nat /\ (e - x) + x = e /\ e - x \in 0 .. TargetDigits /\ x \in Nat /\ e <= TargetDigits
        /\ ~(e <= M) /\ e - M \in Nat /\ e - M \in 0 .. TargetDigits /\ (e - M) + M = e
    BY <1>0, <1>7, Sizes
  <2>2. PICK g, gm \in Nat : g = Weight[e - x] /\ gm = Weight[e - M]
    BY <2>1, WeightPositive
  <2>3. Weight[e] = g * wx
    BY <1>3, <2>1, <2>2, WeightAdds
  <2>4. Weight[e] = gm * wm
    BY <1>3, <2>1, <2>2, Sizes, WeightAdds
  <2>5. u = k * gm
    BY <1>2, <2>1, <2>2, ValueIs
  <2>6. (k * gm) * wm = k * (gm * wm)
    BY TimesAssociates
  <2>7. (k * g) * wx = k * (g * wx) /\ k * g \in Nat
    BY TimesAssociates, TimesNat
  <2>8. u * wm = (k * g) * wx
    BY <2>3, <2>4, <2>5, <2>6, <2>7
  <2>9. u * wm <= (k * g) * wx /\ (k * g) * wx <= t * wm
    BY <1>4, <2>8
  <2> QED
    BY <1>1, <1>2, <1>5, <2>7, <2>9
<1>8. CASE x > M /\ e < x
  <2>1. /\ x >= 2 /\ x - M \in Nat /\ M - 2 \in Nat /\ (M - 2) + (x - M) = x - 2 /\ x - 2 <= TargetDigits
        /\ (x - M) + M = x /\ x <= TargetDigits
        /\ x - M \in 0 .. TargetDigits /\ M - 2 \in 0 .. TargetDigits /\ x - 2 \in 0 .. TargetDigits
    BY <1>0, <1>8, Sizes
  <2>2. PICK g, w, h, sg \in Nat : g = Weight[x - M] /\ w = Weight[M - 2] /\ h = Half /\ sg = SignOf(x - 2)
    <3>1. Weight[x - M] \in Nat /\ Weight[M - 2] \in Nat /\ Half \in Nat
      BY <2>1, Sizes, WeightPositive
    <3>2. SignOf(x - 2) \in Nat
      BY <2>1, Sizes, SignGrows
    <3> QED
      BY <3>1, <3>2
  <2>3. Weight[x - 2] = w * g
    BY <2>1, <2>2, WeightAdds
  <2>4. wx = g * wm
    BY <1>3, <2>1, <2>2, Sizes, WeightAdds
  <2>5. sg = (h * w) * g /\ h * w \in Nat
    <3>1. sg = h * (w * g)
      BY <2>2, <2>3 DEF SignOf
    <3>2. h * (w * g) = (h * w) * g
      BY TimesAssociates
    <3> QED
      BY <3>1, <3>2, TimesNat
  <2>6. u <= sg
    <3>1. CASE e = 0
      <4>1. u = 0
        BY <1>2, <3>1, ValueBound
      <4> QED
        BY <4>1
    <3>2. CASE e > 0
      <4>1. u < SignOf(e - 1)
        BY <1>2, <3>2, ValueBound
      <4>2. e - 1 \in 0 .. TargetDigits /\ e - 1 <= x - 2
        BY <1>0, <1>8, <3>2, Sizes
      <4>3. SignOf(e - 1) <= sg /\ SignOf(e - 1) \in Nat
        BY <2>1, <2>2, <4>2, SignGrows
      <4> QED
        BY <4>1, <4>3
    <3>3. e = 0 \/ e > 0
      BY Sizes
    <3> QED
      BY <3>1, <3>2, <3>3
  <2>7. sg <= t
    BY <1>0, <2>1, <2>2
  <2>8. u * wm <= sg * wm /\ sg * wm <= t * wm
    BY <2>6, <2>7, TimesMonotone
  <2>9. sg * wm = (h * w) * wx
    <3>1. ((h * w) * g) * wm = (h * w) * (g * wm)
      BY <2>5, TimesAssociates
    <3> QED
      BY <2>4, <2>5, <3>1
  <2>10. u * wm <= (h * w) * wx /\ (h * w) * wx <= t * wm
    BY <2>8, <2>9
  <2> QED
    BY <1>1, <1>2, <1>5, <2>5, <2>10
<1>9. x <= M \/ (x > M /\ e >= x) \/ (x > M /\ e < x)
  BY <1>0, Sizes
<1> QED
  BY <1>6, <1>7, <1>8, <1>9

\* So it never rounds down to nothing.
LEMMA CompactPositive ==
  ASSUME NEW t \in Nat \ {0}, NEW x, IsCompact(t, x)
  PROVE  Value(x, Mantissa(t, x)) >= 1
<1>1. /\ MantissaDigits - 2 \in Nat /\ MantissaDigits - 2 \in 0 .. TargetDigits
      /\ (MantissaDigits - 2) + 2 = MantissaDigits /\ 2 \in 0 .. TargetDigits
      /\ MantissaDigits - 1 \in 1 .. TargetDigits /\ (MantissaDigits - 1) - 1 = MantissaDigits - 2
      /\ MantissaDigits \in 1 .. TargetDigits
  BY Sizes
<1>2. PICK w, b2 \in Nat \ {0} : w = Weight[MantissaDigits - 2] /\ b2 = Weight[2]
  BY <1>1, WeightPositive
<1>3. Weight[MantissaDigits] = w * b2
  BY <1>1, <1>2, Sizes, WeightAdds
<1>4. w < SignBit
  <2>1. w <= SignOf(MantissaDigits - 2) /\ SignOf(MantissaDigits - 2) < Weight[MantissaDigits - 1]
        /\ SignOf(MantissaDigits - 2) \in Nat
    BY <1>1, <1>2, SignMoves
  <2>2. Weight[MantissaDigits - 1] <= SignBit /\ Weight[MantissaDigits - 1] \in Nat
    <3>1. Weight[MantissaDigits - 1] <= SignOf(MantissaDigits - 1)
      BY <1>1, SignMoves
    <3>2. SignBit = SignOf(MantissaDigits - 1)
      BY DEF SignBit, SignOf, Half
    <3> QED
      BY <1>1, <3>1, <3>2, SignMoves
  <2> QED
    BY <2>1, <2>2, Sizes
<1>5. Value(2, w) = 1
  <2>1. 1 <= Value(2, w)
    <3>1. 1 * Weight[MantissaDigits] <= w * Weight[2]
      BY <1>2, <1>3, Sizes
    <3> QED
      BY <1>1, <3>1, ValueIsLargest
  <2>2. ~(2 <= Value(2, w))
    <3>1. ~(2 * Weight[MantissaDigits] <= w * Weight[2])
      BY <1>2, <1>3, Sizes
    <3> QED
      BY <1>1, <3>1, ValueIsLargest
  <2> QED
    BY <1>1, <2>1, <2>2, ValueIs
<1>6. Value(2, w) <= Value(x, Mantissa(t, x))
  BY <1>1, <1>4, <1>5, CompactIsLargest
<1> QED
  BY <1>5, <1>6, CompactBelow

\* The sign bit is never the last.
LEMMA SignBitAboveOne == SignBit > 1
<1>1. /\ MantissaDigits \in 1 .. TargetDigits /\ 1 \in 0 .. TargetDigits
      /\ MantissaDigits - 1 \in 0 .. TargetDigits /\ 1 <= MantissaDigits - 1
      /\ 0 \in Nat /\ 0 + 1 <= TargetDigits /\ 0 + 1 = 1
  BY Sizes
<1>2. Weight[MantissaDigits - 1] <= SignBit
  <2>1. SignBit = SignOf(MantissaDigits - 1)
    BY DEF SignBit, SignOf, Half
  <2> QED
    BY <1>1, <2>1, SignMoves
<1>3. Weight[1] <= Weight[MantissaDigits - 1] /\ Weight[MantissaDigits - 1] \in Nat
  BY <1>1, WeightGrows, WeightPositive
<1>4. Weight[1] = DigitBase
  <2>1. Weight[0] = 1
    BY Sizes, WeightIs
  <2>2. Weight[1] = DigitBase * Weight[0]
    BY <1>1, WeightNext
  <2> QED
    BY <2>1, <2>2, Sizes
<1> QED
  BY <1>2, <1>3, <1>4, Sizes

\* What target_from_bits makes of an encoding.
LEMMA TargetFromBitsIs ==
  ASSUME NEW bits \in Encoding
  PROVE  IF bits.exponent \in 0 .. TargetDigits /\ bits.mantissa \in 1 .. SignBit - 1
         THEN TargetFromBits(bits) = Value(bits.exponent, bits.mantissa) /\ TargetFromBits(bits) \in Nat
         ELSE TargetFromBits(bits) = Nothing
<1>1. PICK e, k \in Nat : e = bits.exponent /\ k = bits.mantissa
  BY DEF Encoding
<1>2. CASE e \in 0 .. TargetDigits /\ k \in 1 .. SignBit - 1
  <2>1. ~(k >= SignBit \/ k = 0) /\ ~(e > TargetDigits)
    BY <1>2, Sizes
  <2>2. /\ Value(e, k) \in Nat
        /\ Value(e, k) = IF e <= MantissaDigits
                         THEN k \div Weight[MantissaDigits - e]
                         ELSE k * Weight[e - MantissaDigits]
    BY <1>2, ValueIs
  <2>3. TargetFromBits(bits) = Value(e, k)
    BY <1>1, <2>1, <2>2 DEF TargetFromBits
  <2> QED
    BY <1>1, <1>2, <2>2, <2>3
<1>3. CASE ~(e \in 0 .. TargetDigits /\ k \in 1 .. SignBit - 1)
  <2>1. (k >= SignBit \/ k = 0) \/ (e > TargetDigits /\ ~(e <= MantissaDigits))
    BY <1>3, Sizes
  <2>2. TargetFromBits(bits) = Nothing
    BY <1>1, <2>1 DEF TargetFromBits
  <2> QED
    BY <1>1, <1>3, <2>2
<1> QED
  BY <1>2, <1>3

\* The encodings of a target are those that have its value.
LEMMA EncodingsAre ==
  ASSUME NEW t, NEW b
  PROVE  b \in Encodings(t) <=>
           /\ b \in [exponent : 0 .. TargetDigits, mantissa : 1 .. SignBit - 1]
           /\ t = Value(b.exponent, b.mantissa)
<1>1. ASSUME b \in [exponent : 0 .. TargetDigits, mantissa : 1 .. SignBit - 1]
      PROVE  Value(b.exponent, b.mantissa) =
               IF b.exponent <= MantissaDigits
               THEN b.mantissa \div Weight[MantissaDigits - b.exponent]
               ELSE b.mantissa * Weight[b.exponent - MantissaDigits]
  <2>1. b.exponent \in 0 .. TargetDigits /\ b.mantissa \in Nat
    BY <1>1, Sizes
  <2> QED
    BY <2>1, ValueIs
<1> QED
  BY <1>1 DEF Encodings

\* Every target some header can carry is its own rounding, and among its
\* encodings the one bits_from_target gives is the least.
LEMMA CompactIsLeast ==
  ASSUME NEW t \in Nat \ {0}, NEW x, IsCompact(t, x), NEW b \in Encodings(t)
  PROVE  /\ BitsFromTarget(t) \in Encodings(t)
         /\ x <= b.exponent
         /\ x = b.exponent => Mantissa(t, x) <= b.mantissa
<1>0. x \in 1 .. TargetDigits /\ x \in 0 .. TargetDigits /\ (x >= 2 => SignOf(x - 2) <= t)
      /\ BitsFromTarget(t) = [exponent |-> x, mantissa |-> Mantissa(t, x)]
  BY DEF IsCompact
<1>1. PICK e \in 0 .. TargetDigits, k \in 1 .. SignBit - 1 :
        e = b.exponent /\ k = b.mantissa /\ t = Value(e, k)
  BY EncodingsAre
<1>2. k \in Nat /\ k < SignBit
  BY Sizes
<1>3. PICK m \in 1 .. SignBit - 1 : m = Mantissa(t, x)
  BY MantissaBounds
<1>4. Value(x, m) = t
  <2>1. t <= Value(x, m)
    BY <1>1, <1>2, <1>3, CompactIsLargest
  <2>2. Value(x, m) <= t /\ Value(x, m) \in Nat
    BY <1>3, CompactBelow
  <2> QED
    BY <2>1, <2>2
<1>5. BitsFromTarget(t) \in Encodings(t)
  <2>1. PICK bits : bits = [exponent |-> x, mantissa |-> m]
    OBVIOUS
  <2>2. bits \in [exponent : 0 .. TargetDigits, mantissa : 1 .. SignBit - 1]
        /\ bits.exponent = x /\ bits.mantissa = m
    BY <1>0, <2>1
  <2>3. bits \in Encodings(t)
    BY <1>4, <2>2, EncodingsAre
  <2> QED
    BY <1>0, <1>3, <2>1, <2>3
<1>6. e > 0 /\ t < SignOf(e - 1)
  BY <1>1, <1>2, ValueBound, Sizes
<1>7. x <= e
  <2> SUFFICES ASSUME ~(x <= e) PROVE FALSE
    OBVIOUS
  <2>1. x >= 2 /\ e - 1 \in 0 .. TargetDigits /\ x - 2 \in 0 .. TargetDigits /\ e - 1 <= x - 2
    BY <1>0, <1>6, Sizes
  <2>2. SignOf(e - 1) <= SignOf(x - 2) /\ SignOf(e - 1) \in Nat /\ SignOf(x - 2) \in Nat
    BY <2>1, SignGrows
  <2> QED
    BY <1>0, <1>6, <2>1, <2>2
<1>8. ASSUME x = e PROVE m <= k
  <2>1. t * Weight[MantissaDigits] <= k * Weight[e]
    BY <1>1, <1>2, ValueIsLargest
  <2>2. m * Weight[x] <= t * Weight[MantissaDigits]
    BY <1>0, <1>3, MantissaIs
  <2>3. t * Weight[MantissaDigits] \in Nat /\ k * Weight[e] \in Nat /\ m * Weight[x] \in Nat
        /\ Weight[x] \in Nat \ {0}
    BY <1>0, <1>2, Sizes, WeightPositive, TimesNat
  <2>4. m * Weight[x] <= k * Weight[x]
    BY <1>8, <2>1, <2>2, <2>3
  <2> QED
    BY <1>2, <2>3, <2>4, TimesCancels
<1> QED
  BY <1>1, <1>3, <1>5, <1>7, <1>8

\* The canonical encoding of a target is the one bits_from_target gives, if it
\* expands to the target again.
LEMMA CanonicalIs ==
  ASSUME NEW t \in 0 .. PowLimit, NEW bits \in Encoding
  PROVE  Canonical(t, bits) <=>
           t > 0 /\ TargetFromBits(bits) = t /\ BitsFromTarget(t) = bits
<1>0. t \in Nat /\ Nothing \notin Nat
  BY Sizes, BitcoinAnchorAssumption
<1>1. CASE t = 0
  BY <1>1 DEF Canonical
<1>2. CASE t > 0
  <2>1. t \in Nat \ {0} /\ t < SignOf(TargetDigits - 1)
    <3>1. SignOf(TargetDigits - 1) \in Nat
      BY Sizes, SignGrows
    <3> QED
      BY <1>0, <1>2, <3>1, Sizes
  <2>2. PICK x \in 1 .. TargetDigits : IsCompact(t, x)
    BY <2>1, CompactExists
  <2>3. BitsFromTarget(t) = [exponent |-> x, mantissa |-> Mantissa(t, x)]
    BY <2>2 DEF IsCompact
  <2>4. bits = [exponent |-> bits.exponent, mantissa |-> bits.mantissa]
        /\ bits.exponent \in Nat /\ bits.mantissa \in Nat
    BY DEF Encoding
  <2>5. TargetFromBits(bits) = t <=> bits \in Encodings(t)
    <3> DEFINE in == bits.exponent \in 0 .. TargetDigits /\ bits.mantissa \in 1 .. SignBit - 1
    <3>1. bits \in Encodings(t) <=> in /\ t = Value(bits.exponent, bits.mantissa)
      BY <2>4, EncodingsAre
    <3>2. IF in THEN TargetFromBits(bits) = Value(bits.exponent, bits.mantissa)
          ELSE TargetFromBits(bits) = Nothing
      BY TargetFromBitsIs
    <3> HIDE DEF in
    <3> QED
      BY <1>0, <3>1, <3>2
  <2>6. ASSUME TargetFromBits(bits) = t, BitsFromTarget(t) = bits PROVE Canonical(t, bits)
    <3>1. bits \in Encodings(t)
      BY <2>5, <2>6
    <3>2. ASSUME NEW b \in Encodings(t)
          PROVE  \/ bits.exponent < b.exponent
                 \/ bits.exponent = b.exponent /\ bits.mantissa <= b.mantissa
      <4>1. x <= b.exponent /\ (x = b.exponent => Mantissa(t, x) <= b.mantissa)
        BY <2>1, <2>2, CompactIsLeast
      <4>2. b.exponent \in 0 .. TargetDigits
        BY EncodingsAre
      <4>3. bits.exponent = x /\ bits.mantissa = Mantissa(t, x)
        BY <2>3, <2>6
      <4> QED
        BY <4>1, <4>2, <4>3, Sizes
    <3> QED
      BY <1>2, <3>1, <3>2 DEF Canonical
  <2>7. ASSUME Canonical(t, bits) PROVE TargetFromBits(bits) = t /\ BitsFromTarget(t) = bits
    <3>1. bits \in Encodings(t)
      BY <2>7 DEF Canonical
    <3>2. /\ BitsFromTarget(t) \in Encodings(t) /\ x <= bits.exponent
          /\ x = bits.exponent => Mantissa(t, x) <= bits.mantissa
      BY <2>1, <2>2, <3>1, CompactIsLeast
    <3>3. PICK m : m = Mantissa(t, x)
      OBVIOUS
    <3>4. m \in Nat
      BY <2>1, <3>3, MantissaIs
    <3>5. bits.exponent < x \/ (bits.exponent = x /\ bits.mantissa <= m)
      <4>1. PICK b : b = BitsFromTarget(t)
        OBVIOUS
      <4>2. b \in Encodings(t) /\ b.exponent = x /\ b.mantissa = m
        BY <2>3, <3>2, <3>3, <4>1
      <4> QED
        BY <2>7, <4>2 DEF Canonical
    <3>6. bits.exponent = x /\ bits.mantissa = m
      BY <2>4, <3>2, <3>3, <3>4, <3>5
    <3> QED
      BY <2>3, <2>4, <2>5, <3>1, <3>3, <3>6
  <2> QED
    BY <1>2, <2>6, <2>7 DEF Canonical
<1> QED
  BY <1>0, <1>1, <1>2

----------------------------------------------------------------------------
(* Retargeting. *)

\* retarget_in gives the largest target a header can carry that the period and
\* the limit allow, and refuses when that is none.
LEMMA RetargetIs ==
  ASSUME NEW previous \in Nat, NEW timespan \in Int
  PROVE  /\ NextTarget(previous, timespan) \in 0 .. PowLimit
         /\ Retarget(previous, timespan) = IF NextTarget(previous, timespan) = 0 THEN Nothing
                                           ELSE NextTarget(previous, timespan)
<1> DEFINE span == IF timespan * 4 < TargetTimespan THEN TargetTimespan \div 4
                   ELSE IF timespan > TargetTimespan * 4 THEN TargetTimespan * 4 ELSE timespan
           fits == {t \in 0 .. PowLimit : t * TargetTimespan <= previous * span /\ Encodings(t) # {}}
           scaled == MulDiv(previous, Clamped(timespan), TargetTimespan)
           best_ == NextTarget(previous, timespan)
<1>0. TargetTimespan \in Nat \ {0} /\ Nothing \notin Nat /\ Nothing \notin Encoding
  BY HeadersAssumption, BitcoinAnchorAssumption
<1>1. span \in Nat /\ Clamped(timespan) = span
  <2>1. TargetTimespan \div 4 \in Nat /\ 4 * (TargetTimespan \div 4) <= TargetTimespan
        /\ TargetTimespan < 4 * (TargetTimespan \div 4) + 4
    BY <1>0
  <2>2. PICK quarter \in Nat : quarter = TargetTimespan \div 4
    BY <2>1
  <2>3. 4 * quarter <= TargetTimespan /\ TargetTimespan < 4 * quarter + 4
    BY <2>1, <2>2
  <2>4. span = IF timespan * 4 < TargetTimespan THEN quarter
               ELSE IF timespan > TargetTimespan * 4 THEN TargetTimespan * 4 ELSE timespan
    BY <2>2
  <2>5. Clamped(timespan) = IF timespan > 4 * TargetTimespan THEN 4 * TargetTimespan
                            ELSE IF timespan < quarter THEN quarter ELSE timespan
    BY <2>2 DEF Clamped
  <2> HIDE DEF span
  <2> QED
    BY <1>0, <2>3, <2>4, <2>5
<1> HIDE DEF span
<1>2. PICK q \in Nat : q = (previous * span) \div TargetTimespan
  BY <1>0, <1>1, TimesNat, DivBounds
<1>3. \A t \in Nat : t * TargetTimespan <= previous * span <=> t <= q
  BY <1>0, <1>1, <1>2, TimesNat, DivIsLargest
<1>4. scaled = IF q >= Weight[TargetDigits] THEN Nothing ELSE q
  BY <1>1, <1>2 DEF MulDiv
<1>5. Weight[TargetDigits] \in Nat /\ PowLimit < Weight[TargetDigits] /\ PowLimit \in Nat
      /\ SignOf(TargetDigits - 1) \in Nat /\ PowLimit < SignOf(TargetDigits - 1)
  <2>1. TargetDigits \in 1 .. TargetDigits
    BY Sizes
  <2>2. SignOf(TargetDigits - 1) < Weight[TargetDigits] /\ SignOf(TargetDigits - 1) \in Nat
        /\ Weight[TargetDigits] \in Nat
    BY <2>1, SignMoves
  <2> QED
    BY <2>2, Sizes
<1> HIDE DEF scaled
<1>6. PICK limited \in 0 .. PowLimit :
        limited = Limited(scaled) /\ \A t \in 0 .. PowLimit : t <= q <=> t <= limited
  <2>1. CASE scaled = Nothing \/ scaled > PowLimit
    <3>1. q > PowLimit
      BY <1>0, <1>4, <1>5, <2>1
    <3>2. Limited(scaled) = PowLimit
      BY <2>1 DEF Limited
    <3>3. PowLimit \in 0 .. PowLimit /\ \A t \in 0 .. PowLimit : t <= q <=> t <= PowLimit
      BY <1>5, <3>1
    <3> QED
      BY <3>2, <3>3
  <2>2. CASE ~(scaled = Nothing \/ scaled > PowLimit)
    <3>1. scaled = q /\ q \in 0 .. PowLimit
      BY <1>4, <1>5, <2>2
    <3>2. Limited(scaled) = q
      BY <2>2, <3>1 DEF Limited
    <3> QED
      BY <3>1, <3>2
  <2> QED
    BY <2>1, <2>2
<1>7. Retarget(previous, timespan) = RoundTrip(BitsFromTarget(limited))
  BY <1>6 DEF Retarget, scaled
<1>8. fits = {t \in 0 .. PowLimit : t <= limited /\ Encodings(t) # {}}
  <2>1. \A t \in 0 .. PowLimit : t * TargetTimespan <= previous * span <=> t <= limited
    <3>1. \A t \in 0 .. PowLimit : t \in Nat
      BY <1>5
    <3> QED
      BY <1>3, <1>6, <3>1
  <2> QED
    BY <2>1
<1>9. best_ = CHOOSE t \in fits : \A u \in fits : u <= t
  BY Zenon DEF NextTarget, span
<1> HIDE DEF fits, best_
<1>10. ASSUME NEW v \in fits, \A u \in fits : u <= v PROVE best_ = v
  <2>1. best_ \in fits /\ \A u \in fits : u <= best_
    BY <1>9, <1>10
  <2>2. v <= best_ /\ best_ <= v /\ v \in Nat /\ best_ \in Nat
    BY <1>5, <1>8, <1>10, <2>1
  <2> QED
    BY <2>2
<1>11. CASE limited = 0
  <2>1. 0 \in fits
    <3>1. PICK b : b = [exponent |-> 0, mantissa |-> 1]
      OBVIOUS
    <3>2. b \in [exponent : 0 .. TargetDigits, mantissa : 1 .. SignBit - 1]
          /\ b.exponent = 0 /\ b.mantissa = 1
      BY <3>1, Sizes, SignBitAboveOne
    <3>3. Value(0, 1) = 0
      BY Sizes, SignBitAboveOne, ValueBound
    <3>4. b \in Encodings(0)
      BY <3>2, <3>3, EncodingsAre
    <3> QED
      BY <1>5, <1>8, <1>11, <3>4
  <2>2. \A u \in fits : u <= 0
    BY <1>8, <1>11
  <2>3. best_ = 0
    BY <1>10, <2>1, <2>2
  <2>4. BitsFromTarget(limited) = Nothing
    BY <1>11 DEF BitsFromTarget
  <2>5. Retarget(previous, timespan) = Nothing
    BY <1>7, <2>4 DEF RoundTrip
  <2> QED
    BY <1>5, <2>3, <2>5 DEF best_
<1>12. CASE limited # 0
  <2>1. limited \in Nat \ {0} /\ limited < SignOf(TargetDigits - 1)
    BY <1>5, <1>12
  <2>2. PICK x \in 1 .. TargetDigits : IsCompact(limited, x)
    BY <2>1, CompactExists
  <2>3. PICK m \in 1 .. SignBit - 1 : m = Mantissa(limited, x)
    BY <2>1, <2>2, MantissaBounds
  <2>4. PICK v \in Nat : v = Value(x, m)
    BY <2>1, <2>2, <2>3, CompactBelow
  <2>5. v <= limited /\ v >= 1
    BY <2>1, <2>2, <2>3, <2>4, CompactBelow, CompactPositive
  <2>6. PICK b : b = [exponent |-> x, mantissa |-> m]
    OBVIOUS
  <2>7. /\ b \in [exponent : 0 .. TargetDigits, mantissa : 1 .. SignBit - 1] /\ b \in Encoding
        /\ b.exponent = x /\ b.mantissa = m /\ b.exponent \in 0 .. TargetDigits
    BY <2>2, <2>6, Sizes DEF Encoding
  <2>8. b \in Encodings(v)
    BY <2>4, <2>7, EncodingsAre
  <2>9. v \in fits
    BY <1>5, <1>8, <2>5, <2>8
  <2>10. ASSUME NEW u \in fits PROVE u <= v
    <3>1. u <= limited
      BY <1>8
    <3>2. PICK c : c \in Encodings(u)
      BY <1>8
    <3>3. c.exponent \in 0 .. TargetDigits /\ c.mantissa \in 1 .. SignBit - 1
          /\ u = Value(c.exponent, c.mantissa)
      BY <3>2, EncodingsAre
    <3>4. c.mantissa \in Nat /\ c.mantissa < SignBit
      BY <3>3, Sizes
    <3> QED
      BY <2>1, <2>2, <2>3, <2>4, <3>1, <3>3, <3>4, CompactIsLargest
  <2>11. best_ = v
    BY <1>10, <2>9, <2>10
  <2>12. BitsFromTarget(limited) = b /\ b # Nothing
    BY <1>0, <2>2, <2>3, <2>6, <2>7 DEF IsCompact
  <2>13. TargetFromBits(b) = v
    BY <2>4, <2>7, TargetFromBitsIs
  <2>14. Retarget(previous, timespan) = v
    BY <1>7, <2>12, <2>13 DEF RoundTrip
  <2> QED
    BY <1>5, <1>6, <2>5, <2>11, <2>14 DEF best_
<1> QED
  BY <1>11, <1>12

----------------------------------------------------------------------------
(* The work of a header. *)

\* f sums up a hash, digit by digit from the least significant.
IsSum(f, hash) ==
  /\ f[0] = 0
  /\ \A k \in 1 .. TargetDigits : f[k] = f[k - 1] + hash[k] * Weight[k - 1]

\* The sum of a hash.
LEMMA HashValueIs ==
  ASSUME NEW hash
  PROVE  \E f : IsSum(f, hash) /\ HashValue(hash) = f[TargetDigits]
<1> DEFINE D(f, k) == IF k = 0 THEN 0 ELSE f[k - 1] + hash[k] * Weight[k - 1]
           P(k) == \E f : f = [j \in 0 .. k |-> D(f, j)]
           Good == {k \in Nat : P(k)}
<1>1. 0 \in Good
  <2> DEFINE f == [j \in 0 .. 0 |-> 0]
  <2>1. f = [j \in 0 .. 0 |-> D(f, j)]
    OBVIOUS
  <2>2. P(0)
    BY <2>1
  <2> HIDE DEF P
  <2> QED
    BY <2>2
<1>2. ASSUME NEW k \in Good PROVE k + 1 \in Good
  <2>0. k \in Nat /\ P(k)
    OBVIOUS
  <2>1. PICK f : f = [j \in 0 .. k |-> D(f, j)]
    BY <2>0
  <2> DEFINE g == [j \in 0 .. k + 1 |-> IF j <= k THEN f[j] ELSE D(f, k + 1)]
  <2>2. ASSUME NEW j \in 0 .. k + 1 PROVE g[j] = D(g, j)
    <3>1. j # 0 => g[j - 1] = f[j - 1]
      BY <2>0
    <3>2. D(g, j) = D(f, j)
      <4> HIDE DEF g
      <4> QED
        BY <3>1
    <3>3. CASE j <= k
      <4>1. j \in 0 .. k /\ g[j] = f[j]
        BY <2>0, <3>3
      <4>2. f[j] = D(f, j)
        BY <2>1, <4>1
      <4> HIDE DEF D, g
      <4> QED
        BY <3>2, <4>1, <4>2
    <3>4. CASE j = k + 1
      <4>1. g[j] = D(f, j)
        BY <2>0, <3>4
      <4> HIDE DEF D, g
      <4> QED
        BY <3>2, <4>1
    <3> QED
      BY <2>0, <3>3, <3>4
  <2>3. g = [j \in 0 .. k + 1 |-> D(g, j)]
    <3>1. g = [j \in 0 .. k + 1 |-> g[j]]
      OBVIOUS
    <3> HIDE DEF g, D
    <3> QED
      BY <2>2, <3>1
  <2>4. P(k + 1)
    <3> HIDE DEF g
    <3> QED
      BY <2>3
  <2> HIDE DEF P
  <2> QED
    BY <2>0, <2>4
<1>3. P(TargetDigits)
  <2>1. Good \in SUBSET Nat /\ \A k \in Good : k + 1 \in Good
    BY <1>2
  <2>2. Good = Nat
    <3> HIDE DEF Good
    <3> QED
      BY <1>1, <2>1, SetInduction
  <2>3. TargetDigits \in Good
    <3> HIDE DEF Good
    <3> QED
      BY <2>2, Sizes
  <2> HIDE DEF P
  <2> QED
    BY <2>3
<1> DEFINE sum == CHOOSE f : f = [j \in 0 .. TargetDigits |-> D(f, j)]
<1>4. HashValue(hash) = sum[TargetDigits]
  BY DEF HashValue
<1>5. sum = [j \in 0 .. TargetDigits |-> D(sum, j)]
  <2> HIDE DEF D
  <2> QED
    BY <1>3
<1> HIDE DEF sum
<1>6. IsSum(sum, hash)
  <2>1. \A j \in 0 .. TargetDigits : sum[j] = D(sum, j)
    BY <1>5
  <2>2. 0 \in 0 .. TargetDigits /\ \A k \in 1 .. TargetDigits : k \in 0 .. TargetDigits /\ k # 0
    BY Sizes
  <2> QED
    BY <2>1, <2>2 DEF IsSum
<1> QED
  BY <1>4, <1>6

\* The part of a target below a place, and its digit there.
Low(target, n) == target - (target \div Weight[n]) * Weight[n]
DigitOf(target, n) == (target \div Weight[n - 1]) % DigitBase

\* The digits of a target sum up to it.
LEMMA LowIs ==
  ASSUME NEW target \in Nat, target < Weight[TargetDigits]
  PROVE  /\ Low(target, 0) = 0 /\ Low(target, TargetDigits) = target
         /\ \A n \in 0 .. TargetDigits : Low(target, n) \in Nat /\ Low(target, n) < Weight[n]
         /\ \A n \in 1 .. TargetDigits :
              /\ DigitOf(target, n) \in 0 .. DigitBase - 1
              /\ Low(target, n) = Low(target, n - 1) + DigitOf(target, n) * Weight[n - 1]
<1>1. ASSUME NEW n \in 0 .. TargetDigits PROVE Low(target, n) \in Nat /\ Low(target, n) < Weight[n]
  <2>1. PICK w \in Nat \ {0} : w = Weight[n]
    BY WeightPositive
  <2>2. PICK q \in Nat : q = target \div w
    BY DivBounds
  <2>3. q * w <= target /\ target < (q + 1) * w /\ q * w \in Nat
    BY <2>2, DivBounds, TimesNat
  <2>4. (q + 1) * w = q * w + 1 * w /\ 1 * w = w
    BY TimesDistributes
  <2> QED
    BY <2>1, <2>2, <2>3, <2>4 DEF Low
<1>2. Low(target, 0) = 0
  <2>1. Weight[0] = 1 /\ 0 \in 0 .. TargetDigits
    BY Sizes, WeightIs
  <2> QED
    BY <1>1, <2>1
<1>3. Low(target, TargetDigits) = target
  <2>1. PICK w \in Nat \ {0} : w = Weight[TargetDigits]
    BY Sizes, WeightPositive
  <2>2. PICK q \in Nat : q = target \div w
    BY DivBounds
  <2>3. 1 <= q <=> 1 * w <= target
    BY <2>2, DivIsLargest
  <2>4. q = 0
    BY <2>1, <2>3
  <2> QED
    BY <2>1, <2>2, <2>4 DEF Low
<1>4. ASSUME NEW n \in 1 .. TargetDigits
      PROVE  /\ DigitOf(target, n) \in 0 .. DigitBase - 1
             /\ Low(target, n) = Low(target, n - 1) + DigitOf(target, n) * Weight[n - 1]
  <2>1. n - 1 \in Nat /\ (n - 1) + 1 = n /\ (n - 1) + 1 <= TargetDigits
    BY Sizes
  <2>2. PICK w, b \in Nat \ {0} : w = Weight[n - 1] /\ b = DigitBase
    BY <2>1, Sizes, WeightNext
  <2>3. Weight[n] = b * w
    BY <2>1, <2>2, WeightNext
  <2>4. PICK p \in Nat : p = target \div w
    BY DivBounds
  <2>5. target \div (b * w) = p \div b
    BY <2>4, DivTwice
  <2>6. PICK q, d \in Nat : q = p \div b /\ d = p % b
    BY DivBounds
  <2>7. d \in 0 .. b - 1 /\ p = b * q + d
    BY <2>6, Z3
  <2>8. DigitOf(target, n) = d
    BY <2>2, <2>4, <2>6 DEF DigitOf
  <2>9. Low(target, n) = target - q * (b * w) /\ Low(target, n - 1) = target - p * w
    BY <2>2, <2>3, <2>4, <2>5, <2>6 DEF Low
  <2>10. p * w = q * (b * w) + d * w
    <3>1. b * q = q * b /\ b * q \in Nat
      BY TimesCommutes, TimesNat
    <3>2. (q * b + d) * w = (q * b) * w + d * w
      BY <3>1, TimesDistributes
    <3>3. (q * b) * w = q * (b * w)
      BY TimesAssociates
    <3> QED
      BY <2>7, <3>1, <3>2, <3>3
  <2>11. q * (b * w) \in Nat /\ d * w \in Nat /\ p * w \in Nat
    <3>1. b * w \in Nat
      BY TimesNat
    <3> QED
      BY <3>1, TimesNat
  <2>12. Low(target, n) = Low(target, n - 1) + d * w
    BY <2>9, <2>10, <2>11
  <2> QED
    BY <2>2, <2>7, <2>8, <2>12
<1> QED
  BY <1>1, <1>2, <1>3, <1>4

\* The digits of a hash below a place are worth less than it.
LEMMA SumBound ==
  ASSUME NEW hash \in Digits, NEW f, IsSum(f, hash), NEW n \in 0 .. TargetDigits
  PROVE  f[n] \in Nat /\ f[n] < Weight[n]
<1> DEFINE Good == {k \in Nat : k <= TargetDigits => f[k] \in Nat /\ f[k] < Weight[k]}
<1>1. 0 \in Good
  BY Sizes, WeightIs DEF IsSum
<1>2. ASSUME NEW k \in Good PROVE k + 1 \in Good
  <2> SUFFICES ASSUME k + 1 <= TargetDigits PROVE f[k + 1] \in Nat /\ f[k + 1] < Weight[k + 1]
    OBVIOUS
  <2>1. k \in Nat /\ k + 1 \in 1 .. TargetDigits /\ (k + 1) - 1 = k /\ k <= TargetDigits
    BY Sizes
  <2>2. f[k] \in Nat /\ f[k] < Weight[k]
    BY <2>1
  <2>3. PICK w, b \in Nat \ {0} : w = Weight[k] /\ b = DigitBase
    BY <2>1, Sizes, WeightNext
  <2>4. Weight[k + 1] = b * w
    BY <2>1, <2>3, WeightNext
  <2>5. PICK d \in 0 .. b - 1 : d = hash[k + 1]
    BY <2>1, <2>3 DEF Digits
  <2>6. f[k + 1] = f[k] + d * w
    BY <2>1, <2>3, <2>5 DEF IsSum
  <2>7. d \in Nat /\ d * w \in Nat /\ d * w <= (b - 1) * w /\ (b - 1) * w = b * w - 1 * w /\ 1 * w = w
    <3>1. d \in Nat /\ d <= b - 1 /\ b - 1 \in Int
      OBVIOUS
    <3> QED
      BY <3>1, TimesNat, TimesMonotone, TimesDistributes
  <2>8. b * w \in Nat
    BY TimesNat
  <2> QED
    BY <2>2, <2>3, <2>4, <2>6, <2>7, <2>8
<1>3. Good = Nat
  <2>1. Good \in SUBSET Nat /\ \A k \in Good : k + 1 \in Good
    BY <1>2
  <2> HIDE DEF Good
  <2> QED
    BY <1>1, <2>1, SetInduction
<1> QED
  BY <1>3, Sizes

\* As long as the digits agree from the top, the sums differ by what is below.
LEMMA SameFromTheTop ==
  ASSUME NEW hash \in Digits, NEW f, IsSum(f, hash), NEW target \in Nat, target < Weight[TargetDigits],
         NEW n \in 0 .. TargetDigits,
         \A j \in n + 1 .. TargetDigits : hash[j] = DigitOf(target, j)
  PROVE  f[TargetDigits] - target = f[n] - Low(target, n)
<1> DEFINE T == TargetDigits
           Good == {k \in Nat : k <= T - n => f[T] - target = f[T - k] - Low(target, T - k)}
<1>0. T \in Nat /\ Low(target, T) = target
  BY Sizes, LowIs
<1>1. 0 \in Good
  BY <1>0
<1>2. ASSUME NEW k \in Good PROVE k + 1 \in Good
  <2> SUFFICES ASSUME k + 1 <= T - n
               PROVE  f[T] - target = f[T - (k + 1)] - Low(target, T - (k + 1))
    OBVIOUS
  <2>1. PICK j : j = T - k
    OBVIOUS
  <2>2. /\ k \in Nat /\ j \in 1 .. T /\ j \in n + 1 .. T /\ j - 1 = T - (k + 1) /\ k <= T - n
        /\ j - 1 \in 0 .. T /\ j \in 0 .. T
    BY <1>0, <2>1
  <2>3. f[T] - target = f[j] - Low(target, j)
    BY <2>1, <2>2
  <2>4. PICK w \in Nat : w = Weight[j - 1]
    BY <2>2, WeightPositive
  <2>5. PICK d \in Int : d = hash[j]
    BY <2>2, Sizes DEF Digits
  <2>6. d = DigitOf(target, j)
    BY <2>2, <2>5
  <2>7. f[j] = f[j - 1] + d * w
    BY <2>2, <2>4, <2>5 DEF IsSum
  <2>8. Low(target, j) = Low(target, j - 1) + d * w
    BY <2>2, <2>4, <2>6, LowIs
  <2>9. f[j - 1] \in Nat /\ Low(target, j - 1) \in Nat /\ d * w \in Int
    BY <2>2, SumBound, LowIs
  <2>10. f[j] - Low(target, j) = f[j - 1] - Low(target, j - 1)
    BY <2>7, <2>8, <2>9
  <2> QED
    BY <2>2, <2>3, <2>10
<1>3. Good = Nat
  <2>1. Good \in SUBSET Nat /\ \A k \in Good : k + 1 \in Good
    BY <1>2
  <2> HIDE DEF Good
  <2> QED
    BY <1>1, <2>1, SetInduction
<1>4. T - n \in Good /\ T - (T - n) = n
  <2> HIDE DEF Good
  <2> QED
    BY <1>0, <1>3
<1> QED
  BY <1>0, <1>4

\* less_than_or_equal_reversed compares the numbers, from the end of the one and
\* the start of the other.
LEMMA WorkIs ==
  ASSUME NEW hash \in Digits, NEW target \in Nat, target < Weight[TargetDigits]
  PROVE  LessThanOrEqualReversed(hash, target) <=> HashValue(hash) <= target
<1> DEFINE T == TargetDigits
           differ == {i \in 1 .. T : hash[T + 1 - i] # TargetDigit(target, i)}
           first == CHOOSE i \in differ : \A j \in differ : i <= j
<1>0. T \in Nat
  BY Sizes
<1>1. PICK f : IsSum(f, hash) /\ HashValue(hash) = f[T]
  BY HashValueIs
<1>2. LessThanOrEqualReversed(hash, target)
        <=> differ = {} \/ hash[T + 1 - first] < TargetDigit(target, first)
  BY DEF LessThanOrEqualReversed
<1>3. \A i \in 1 .. T : TargetDigit(target, i) = DigitOf(target, T + 1 - i)
  <2> SUFFICES ASSUME NEW i \in 1 .. T PROVE TargetDigit(target, i) = DigitOf(target, T + 1 - i)
    OBVIOUS
  <2>1. (T + 1 - i) - 1 = T - i
    BY <1>0
  <2> QED
    BY <2>1 DEF TargetDigit, DigitOf
<1>4. f[T] \in Nat
  BY <1>0, <1>1, SumBound
<1>5. CASE differ = {}
  <2>1. \A j \in 0 + 1 .. T : hash[j] = DigitOf(target, j)
    <3> SUFFICES ASSUME NEW j \in 0 + 1 .. T PROVE hash[j] = DigitOf(target, j)
      OBVIOUS
    <3>1. T + 1 - j \in 1 .. T /\ T + 1 - (T + 1 - j) = j
      BY <1>0
    <3>2. PICK i \in 1 .. T : i = T + 1 - j
      BY <3>1
    <3>3. hash[T + 1 - i] = TargetDigit(target, i)
      BY <1>5
    <3> QED
      BY <1>3, <3>1, <3>2, <3>3
  <2>2. f[T] - target = f[0] - Low(target, 0)
    BY <1>0, <1>1, <2>1, SameFromTheTop
  <2>3. f[0] = 0 /\ Low(target, 0) = 0
    BY <1>1, LowIs DEF IsSum
  <2>4. f[T] = target
    <3>1. PICK v \in Nat : v = f[T]
      BY <1>4
    <3>2. v - target = 0 - 0
      BY <2>2, <2>3, <3>1
    <3> QED
      BY <3>1, <3>2
  <2> HIDE DEF first, differ
  <2> QED
    BY <1>1, <1>2, <1>5, <2>4
<1>6. CASE differ # {}
  <2>1. first \in differ /\ \A j \in differ : first <= j
    <3>1. differ \in SUBSET Nat
      BY <1>0
    <3> HIDE DEF differ
    <3>2. \E i \in differ : \A j \in differ : i <= j
      BY <1>6, <3>1, LeastOf
    <3> QED
      BY <3>2
  <2> HIDE DEF first
  <2>2. first \in 1 .. T
    BY <2>1
  <2>3. PICK n : n = T + 1 - first
    OBVIOUS
  <2>4. n \in 1 .. T /\ n \in 0 .. T /\ n - 1 \in 0 .. T /\ first = T + 1 - n /\ n \in Nat
    BY <1>0, <2>2, <2>3
  <2>5. \A j \in n + 1 .. T : hash[j] = DigitOf(target, j)
    <3> SUFFICES ASSUME NEW j \in n + 1 .. T PROVE hash[j] = DigitOf(target, j)
      OBVIOUS
    <3>1. PICK i : i = T + 1 - j
      OBVIOUS
    <3>2. i \in 1 .. T /\ T + 1 - i = j /\ ~(first <= i)
      BY <1>0, <2>4, <3>1
    <3>3. i \notin differ
      <4> HIDE DEF differ
      <4> QED
        BY <2>1, <3>2
    <3>4. hash[T + 1 - i] = TargetDigit(target, i)
      BY <3>2, <3>3
    <3> QED
      BY <1>3, <3>2, <3>4
  <2>6. f[T] - target = f[n] - Low(target, n)
    BY <1>1, <2>4, <2>5, SameFromTheTop
  <2>7. PICK d, e \in 0 .. DigitBase - 1 : d = hash[n] /\ e = DigitOf(target, n)
    BY <2>4, LowIs DEF Digits
  <2>8. TargetDigit(target, first) = e /\ hash[T + 1 - first] = d /\ d # e
    BY <1>3, <2>1, <2>2, <2>3, <2>7
  <2>9. PICK w, a, b \in Nat : w = Weight[n - 1] /\ a = f[n - 1] /\ b = Low(target, n - 1)
    BY <1>1, <2>4, WeightPositive, SumBound, LowIs
  <2>10. a < w /\ b < w
    BY <1>1, <2>4, <2>9, SumBound, LowIs
  <2>11. f[n] = a + d * w
    BY <1>1, <2>4, <2>7, <2>9 DEF IsSum
  <2>12. Low(target, n) = b + e * w
    BY <2>4, <2>7, <2>9, LowIs
  <2>13. d \in Nat /\ e \in Nat /\ d * w \in Nat /\ e * w \in Nat
    BY Sizes, TimesNat
  <2>14. f[T] <= target <=> a + d * w <= b + e * w
    BY <1>4, <2>6, <2>11, <2>12, <2>13
  <2>15. CASE d < e
    <3>1. (d + 1) * w <= e * w /\ (d + 1) * w = d * w + 1 * w /\ 1 * w = w
      BY <2>13, <2>15, TimesMonotone, TimesDistributes
    <3>2. a + d * w <= b + e * w
      BY <2>10, <2>13, <3>1
    <3> HIDE DEF differ
    <3> QED
      BY <1>1, <1>2, <2>8, <2>14, <2>15, <3>2
  <2>16. CASE e < d
    <3>1. (e + 1) * w <= d * w /\ (e + 1) * w = e * w + 1 * w /\ 1 * w = w
      BY <2>13, <2>16, TimesMonotone, TimesDistributes
    <3>2. ~(a + d * w <= b + e * w)
      BY <2>10, <2>13, <3>1
    <3>3. ~(d < e)
      BY <2>13, <2>16
    <3> HIDE DEF differ
    <3> QED
      BY <1>1, <1>2, <1>6, <2>8, <2>14, <3>2, <3>3
  <2>17. d < e \/ e < d
    BY <2>8, <2>13
  <2> QED
    BY <2>15, <2>16, <2>17
<1> QED
  BY <1>5, <1>6

----------------------------------------------------------------------------
(* The median. *)

\* Times have an upper bound.
LEMMA SpanIsBounded ==
  ASSUME NEW time, NEW a \in Int, NEW k \in Nat, \A i \in a .. a + k - 1 : time[i] \in Nat
  PROVE  \E b \in Nat : \A i \in a .. a + k - 1 : time[i] <= b
<1> DEFINE Good == {n \in Nat : n <= k => \E b \in Nat : \A i \in a .. a + n - 1 : time[i] <= b}
<1>1. 0 \in Good
  <2>1. a .. a + 0 - 1 = {}
    OBVIOUS
  <2> QED
    BY <2>1
<1>2. ASSUME NEW n \in Good PROVE n + 1 \in Good
  <2> SUFFICES ASSUME n + 1 <= k
               PROVE  \E b \in Nat : \A i \in a .. a + (n + 1) - 1 : time[i] <= b
    OBVIOUS
  <2>1. PICK b \in Nat : \A i \in a .. a + n - 1 : time[i] <= b
    OBVIOUS
  <2>2. time[a + n] \in Nat
    OBVIOUS
  <2>3. PICK c \in Nat : b <= c /\ time[a + n] <= c
    <3>1. CASE b <= time[a + n]
      BY <2>2, <3>1
    <3>2. CASE time[a + n] <= b
      BY <3>2
    <3> QED
      BY <2>2, <3>1, <3>2
  <2>4. ASSUME NEW i \in a .. a + (n + 1) - 1 PROVE time[i] <= c
    <3>1. CASE i = a + n
      BY <2>3, <3>1
    <3>2. CASE i # a + n
      <4>1. i \in a .. a + n - 1 /\ i \in a .. a + k - 1
        BY <3>2
      <4>2. time[i] <= b /\ time[i] \in Nat
        BY <2>1, <4>1
      <4> QED
        BY <2>3, <4>2
    <3> QED
      BY <3>1, <3>2
  <2> QED
    BY <2>4
<1>3. Good = Nat
  <2>1. Good \in SUBSET Nat /\ \A n \in Good : n + 1 \in Good
    BY <1>2
  <2> HIDE DEF Good
  <2> QED
    BY <1>1, <2>1, SetInduction
<1>4. k \in Good
  <2> HIDE DEF Good
  <2> QED
    BY <1>3
<1> QED
  BY <1>4

\* The middle one of an odd number of times: whoever is later than it, and
\* nobody else, is later than more than half of them.
LEMMA MedianIs ==
  ASSUME NEW hs, NEW n \in Nat, n > MedianTimeSpan,
         \A i \in n - MedianTimeSpan .. n - 1 : hs[i].time \in Nat
  PROVE  /\ MedianTimePast(hs, n) \in Nat
         /\ \A t \in Nat : t > MedianTimePast(hs, n) <=>
              2 * Cardinality(EarlierBelow(hs, n, t)) > MedianTimeSpan
<1> DEFINE M == MedianTimeSpan
           span == n - M .. n - 1
           half == M \div 2
           UpTo(t) == {i \in span : hs[i].time <= t}
           Below(t) == {i \in span : hs[i].time < t}
           Middle(t) == Cardinality(Below(t)) <= half /\ Cardinality(UpTo(t)) > half
           SpanTimes == {hs[i].time : i \in span}
<1>0. M \in Nat /\ half \in Nat /\ M = 2 * half + 1
  BY HeadersAssumption
<1>1. IsFiniteSet(span) /\ Cardinality(span) = M
  BY <1>0, FS_Interval
<1>2. \A t : /\ IsFiniteSet(UpTo(t)) /\ IsFiniteSet(Below(t))
             /\ Cardinality(UpTo(t)) \in Nat /\ Cardinality(Below(t)) \in Nat
  <2> SUFFICES ASSUME NEW t PROVE /\ IsFiniteSet(UpTo(t)) /\ IsFiniteSet(Below(t))
             /\ Cardinality(UpTo(t)) \in Nat /\ Cardinality(Below(t)) \in Nat
    OBVIOUS
  <2>1. UpTo(t) \in SUBSET span /\ Below(t) \in SUBSET span
    OBVIOUS
  <2> HIDE DEF UpTo, Below, span
  <2> QED
    BY <1>1, <2>1, FS_Subset, FS_CardinalityType
<1>3. PICK b \in Nat : \A i \in span : hs[i].time <= b
  <2> DEFINE time == [i \in span |-> hs[i].time]
  <2>1. n - M \in Int /\ n - M + M - 1 = n - 1
    BY <1>0
  <2>2. \A i \in n - M .. n - M + M - 1 : time[i] \in Nat
    BY <2>1
  <2>3. \E b \in Nat : \A i \in n - M .. n - M + M - 1 : time[i] <= b
    <3> HIDE DEF time, M
    <3> QED
      BY <1>0, <2>1, <2>2, SpanIsBounded
  <2> QED
    BY <2>1, <2>3
<1> DEFINE Enough == {t \in Nat : Cardinality(UpTo(t)) > half}
<1>4. b \in Enough
  <2>1. UpTo(b) = span
    BY <1>3
  <2> HIDE DEF UpTo, span, half, M
  <2> QED
    BY <1>0, <1>1, <2>1
<1>5. PICK m \in Enough : \A x \in Enough : m <= x
  <2>1. Enough \in SUBSET Nat /\ Enough # {}
    BY <1>4
  <2> HIDE DEF Enough
  <2> QED
    BY <2>1, LeastOf
<1>6. m \in Nat /\ Cardinality(UpTo(m)) > half
  BY <1>5
<1>7. Cardinality(Below(m)) <= half
  <2>1. CASE m = 0
    <3>1. Below(m) = {}
      BY <2>1
    <3> HIDE DEF Below, half, M
    <3> QED
      BY <1>0, <3>1, FS_EmptySet
  <2>2. CASE m # 0
    <3>1. m - 1 \in Nat /\ ~(m <= m - 1)
      BY <1>6, <2>2
    <3>2. m - 1 \notin Enough
      BY <1>5, <3>1
    <3>3. Below(m) = UpTo(m - 1)
      BY <1>6, <3>1
    <3>4. ~(Cardinality(UpTo(m - 1)) > half)
      BY <3>1, <3>2
    <3> HIDE DEF Below, UpTo, half, M, Enough
    <3> QED
      BY <1>0, <1>2, <3>3, <3>4
  <2> QED
    BY <2>1, <2>2
<1>8. m \in SpanTimes
  <2>1. CASE m \notin SpanTimes
    <3>1. UpTo(m) = Below(m)
      BY <1>6, <2>1
    <3> HIDE DEF Below, UpTo, half, M, Enough
    <3> QED
      BY <1>0, <1>2, <1>6, <1>7, <3>1
  <2> QED
    BY <2>1
<1>9. /\ MedianTimePast(hs, n) \in SpanTimes
      /\ Middle(MedianTimePast(hs, n))
  <2>0. ~(n <= MedianTimeSpan)
    BY <1>0
  <2>1. MedianTimePast(hs, n) = CHOOSE t \in SpanTimes : Middle(t)
    BY <2>0, Zenon DEF MedianTimePast
  <2>2. m \in SpanTimes /\ Middle(m)
    BY <1>6, <1>7, <1>8
  <2> HIDE DEF SpanTimes, Middle
  <2> QED
    BY <2>1, <2>2
<1>10. MedianTimePast(hs, n) \in Nat
  BY <1>9
<1>11. ASSUME NEW t \in Nat, t > MedianTimePast(hs, n)
       PROVE  2 * Cardinality(EarlierBelow(hs, n, t)) > M
  <2> DEFINE med == MedianTimePast(hs, n)
  <2> HIDE DEF med
  <2>0. med \in Nat /\ t > med /\ Middle(med)
    BY <1>9, <1>10, <1>11 DEF med
  <2>1. EarlierBelow(hs, n, t) = Below(t)
    BY DEF EarlierBelow
  <2>2. UpTo(med) \in SUBSET Below(t)
    BY <2>0
  <2>3. Cardinality(UpTo(med)) <= Cardinality(Below(t))
    <3> HIDE DEF UpTo, Below
    <3> QED
      BY <1>2, <2>2, FS_Subset
  <2>4. Cardinality(UpTo(med)) > half
    BY <2>0
  <2> HIDE DEF UpTo, Below, half, M
  <2> QED
    BY <1>0, <1>2, <2>1, <2>3, <2>4
<1>12. ASSUME NEW t \in Nat, ~(t > MedianTimePast(hs, n))
       PROVE  ~(2 * Cardinality(EarlierBelow(hs, n, t)) > M)
  <2> DEFINE med == MedianTimePast(hs, n)
  <2> HIDE DEF med
  <2>0. med \in Nat /\ t <= med /\ Middle(med)
    BY <1>9, <1>10, <1>12 DEF med
  <2>1. EarlierBelow(hs, n, t) = Below(t)
    BY DEF EarlierBelow
  <2>2. Below(t) \in SUBSET Below(med)
    BY <2>0
  <2>3. Cardinality(Below(t)) <= Cardinality(Below(med))
    <3> HIDE DEF UpTo, Below
    <3> QED
      BY <1>2, <2>2, FS_Subset
  <2>4. Cardinality(Below(med)) <= half
    BY <2>0
  <2> HIDE DEF UpTo, Below, half, M
  <2> QED
    BY <1>0, <1>2, <2>1, <2>3, <2>4
<1> QED
  BY <1>10, <1>11, <1>12

----------------------------------------------------------------------------
(* The walk. *)

\* The states of a walk, place by place: it stays where it stopped.
IsWalk(walk, c, hs) ==
  /\ walk[0] = WalkFrom(c, CheckpointVerdict(c, hs))
  /\ \A n \in 1 .. Len(hs) :
       walk[n] = IF walk[n - 1].verdict # "Ok" THEN walk[n - 1] ELSE WalkStep(c, hs, n, walk[n - 1])

\* verify_chain_in answers with the last of them.
LEMMA WalkIs ==
  ASSUME NEW c, NEW hs, Len(hs) \in Nat
  PROVE  \E walk : IsWalk(walk, c, hs) /\ VerifyChain(c, hs) = walk[Len(hs)].verdict
<1> DEFINE L == Len(hs)
           start == WalkFrom(c, CheckpointVerdict(c, hs))
           D(f, k) == IF k = 0 THEN start
                      ELSE IF f[k - 1].verdict # "Ok" THEN f[k - 1]
                      ELSE WalkStep(c, hs, k, f[k - 1])
           P(k) == \E f : f = [j \in 0 .. k |-> D(f, j)]
           Good == {k \in Nat : P(k)}
<1> HIDE DEF start
<1>1. 0 \in Good
  <2> DEFINE f == [j \in 0 .. 0 |-> start]
  <2>1. f = [j \in 0 .. 0 |-> D(f, j)]
    OBVIOUS
  <2>2. P(0)
    BY <2>1
  <2> HIDE DEF P
  <2> QED
    BY <2>2
<1>2. ASSUME NEW k \in Good PROVE k + 1 \in Good
  <2>0. k \in Nat /\ P(k)
    OBVIOUS
  <2>1. PICK f : f = [j \in 0 .. k |-> D(f, j)]
    BY <2>0
  <2> DEFINE g == [j \in 0 .. k + 1 |-> IF j <= k THEN f[j] ELSE D(f, k + 1)]
  <2>2. ASSUME NEW j \in 0 .. k + 1 PROVE g[j] = D(g, j)
    <3>1. j # 0 => g[j - 1] = f[j - 1]
      BY <2>0
    <3>2. D(g, j) = D(f, j)
      <4> HIDE DEF g
      <4> QED
        BY <3>1
    <3>3. CASE j <= k
      <4>1. j \in 0 .. k /\ g[j] = f[j]
        BY <2>0, <3>3
      <4>2. f[j] = D(f, j)
        BY <2>1, <4>1
      <4> HIDE DEF D, g
      <4> QED
        BY <3>2, <4>1, <4>2
    <3>4. CASE j = k + 1
      <4>1. g[j] = D(f, j)
        BY <2>0, <3>4
      <4> HIDE DEF D, g
      <4> QED
        BY <3>2, <4>1
    <3> QED
      BY <2>0, <3>3, <3>4
  <2>3. g = [j \in 0 .. k + 1 |-> D(g, j)]
    <3>1. g = [j \in 0 .. k + 1 |-> g[j]]
      OBVIOUS
    <3> HIDE DEF g, D
    <3> QED
      BY <2>2, <3>1
  <2>4. P(k + 1)
    <3> HIDE DEF g
    <3> QED
      BY <2>3
  <2> HIDE DEF P
  <2> QED
    BY <2>0, <2>4
<1>3. P(L)
  <2>1. Good \in SUBSET Nat /\ \A k \in Good : k + 1 \in Good
    BY <1>2
  <2>2. Good = Nat
    <3> HIDE DEF Good
    <3> QED
      BY <1>1, <2>1, SetInduction
  <2>3. L \in Good
    <3> HIDE DEF Good
    <3> QED
      BY <2>2
  <2> HIDE DEF P
  <2> QED
    BY <2>3
<1> DEFINE walk == CHOOSE f : f = [j \in 0 .. L |-> D(f, j)]
<1>4. VerifyChain(c, hs) = walk[L].verdict
  BY DEF VerifyChain, start
<1>5. walk = [j \in 0 .. L |-> D(walk, j)]
  <2> HIDE DEF D
  <2> QED
    BY <1>3
<1> HIDE DEF walk
<1>6. IsWalk(walk, c, hs)
  <2>1. \A j \in 0 .. L : walk[j] = D(walk, j)
    <3> HIDE DEF D
    <3> QED
      BY <1>5
  <2>2. 0 \in 0 .. L /\ \A n \in 1 .. L : n \in 0 .. L /\ n # 0
    OBVIOUS
  <2>3. walk[0] = start
    BY <2>1, <2>2
  <2>4. \A n \in 1 .. L : walk[n] = IF walk[n - 1].verdict # "Ok" THEN walk[n - 1]
                                   ELSE WalkStep(c, hs, n, walk[n - 1])
    BY <2>1, <2>2
  <2> QED
    BY <2>3, <2>4 DEF IsWalk, start
<1> QED
  BY <1>4, <1>6

\* verify_chain_in accepts a range only if it accepted every header of it, each
\* with what it carried there.
LEMMA WalkAccepts ==
  ASSUME NEW c, NEW hs, Len(hs) \in Nat, VerifyChain(c, hs) = "Ok", NEW n \in 1 .. Len(hs)
  PROVE  \E at : WalkStep(c, hs, n, at).verdict = "Ok"
<1>1. PICK L \in Nat : L = Len(hs)
  OBVIOUS
<1>2. PICK walk : IsWalk(walk, c, hs) /\ VerifyChain(c, hs) = walk[L].verdict
  BY <1>1, WalkIs
<1>3. \A k \in 1 .. L : walk[k] = IF walk[k - 1].verdict # "Ok" THEN walk[k - 1]
                                ELSE WalkStep(c, hs, k, walk[k - 1])
  BY <1>1, <1>2 DEF IsWalk
<1> DEFINE Back == {k \in Nat : k <= L => walk[L - k].verdict = "Ok"}
<1>4. 0 \in Back
  BY <1>2
<1>5. ASSUME NEW k \in Back PROVE k + 1 \in Back
  <2> SUFFICES ASSUME k + 1 <= L PROVE walk[L - (k + 1)].verdict = "Ok"
    OBVIOUS
  <2>1. /\ L - k \in 1 .. L /\ (L - k) - 1 = L - (k + 1)
        /\ walk[L - k].verdict = "Ok"
    OBVIOUS
  <2>2. walk[L - k] = IF walk[L - (k + 1)].verdict # "Ok" THEN walk[L - (k + 1)]
                      ELSE WalkStep(c, hs, L - k, walk[L - (k + 1)])
    BY <1>3, <2>1
  <2> QED
    BY <2>1, <2>2
<1>6. Back = Nat
  <2>1. Back \in SUBSET Nat /\ \A k \in Back : k + 1 \in Back
    BY <1>5
  <2> HIDE DEF Back
  <2> QED
    BY <1>4, <2>1, SetInduction
<1>7. ASSUME NEW j \in 0 .. L PROVE walk[j].verdict = "Ok"
  <2>1. L - j \in Nat /\ L - j <= L /\ L - (L - j) = j
    OBVIOUS
  <2>2. L - j \in Back
    <3> HIDE DEF Back
    <3> QED
      BY <1>6, <2>1
  <2> QED
    BY <2>1, <2>2
<1>8. n \in 0 .. L /\ n - 1 \in 0 .. L /\ n \in 1 .. L
  BY <1>1
<1>9. walk[n].verdict = "Ok" /\ walk[n - 1].verdict = "Ok"
  BY <1>7, <1>8
<1>10. walk[n] = WalkStep(c, hs, n, walk[n - 1])
  BY <1>3, <1>8, <1>9
<1> QED
  BY <1>9, <1>10

----------------------------------------------------------------------------
(* The targets of a range. *)

\* at gives the target in force at each place of a range.
IsTarget(at, c, hs) ==
  /\ at[0] = c.target
  /\ \A n \in 1 .. Len(hs) :
       at[n] = IF OnABoundary(c.height + n) /\ PeriodKnown(c, n)
               THEN NextTarget(at[n - 1], BlockTime(c, hs, n - 1) - BlockTime(c, hs, n - RetargetInterval))
               ELSE at[n - 1]

\* The recursion of TargetAt.
LEMMA TargetAtIs ==
  ASSUME NEW c, NEW hs, Len(hs) \in Nat
  PROVE  IsTarget(TargetAt(c, hs), c, hs)
<1> DEFINE L == Len(hs)
           D(f, k) == IF k = 0 THEN c.target
                      ELSE IF OnABoundary(c.height + k) /\ PeriodKnown(c, k)
                        THEN NextTarget(f[k - 1], BlockTime(c, hs, k - 1)
                                                    - BlockTime(c, hs, k - RetargetInterval))
                      ELSE f[k - 1]
           P(k) == \E f : f = [j \in 0 .. k |-> D(f, j)]
           Good == {k \in Nat : P(k)}
<1>1. 0 \in Good
  <2> DEFINE f == [j \in 0 .. 0 |-> c.target]
  <2>1. f = [j \in 0 .. 0 |-> D(f, j)]
    OBVIOUS
  <2>2. P(0)
    BY <2>1
  <2> HIDE DEF P
  <2> QED
    BY <2>2
<1>2. ASSUME NEW k \in Good PROVE k + 1 \in Good
  <2>0. k \in Nat /\ P(k)
    OBVIOUS
  <2>1. PICK f : f = [j \in 0 .. k |-> D(f, j)]
    BY <2>0
  <2> DEFINE g == [j \in 0 .. k + 1 |-> IF j <= k THEN f[j] ELSE D(f, k + 1)]
  <2>2. ASSUME NEW j \in 0 .. k + 1 PROVE g[j] = D(g, j)
    <3>1. j # 0 => g[j - 1] = f[j - 1]
      BY <2>0
    <3>2. D(g, j) = D(f, j)
      <4> HIDE DEF g
      <4> QED
        BY <3>1
    <3>3. CASE j <= k
      <4>1. j \in 0 .. k /\ g[j] = f[j]
        BY <2>0, <3>3
      <4>2. f[j] = D(f, j)
        BY <2>1, <4>1
      <4> HIDE DEF D, g
      <4> QED
        BY <3>2, <4>1, <4>2
    <3>4. CASE j = k + 1
      <4>1. g[j] = D(f, j)
        BY <2>0, <3>4
      <4> HIDE DEF D, g
      <4> QED
        BY <3>2, <4>1
    <3> QED
      BY <2>0, <3>3, <3>4
  <2>3. g = [j \in 0 .. k + 1 |-> D(g, j)]
    <3>1. g = [j \in 0 .. k + 1 |-> g[j]]
      OBVIOUS
    <3> HIDE DEF g, D
    <3> QED
      BY <2>2, <3>1
  <2>4. P(k + 1)
    <3> HIDE DEF g
    <3> QED
      BY <2>3
  <2> HIDE DEF P
  <2> QED
    BY <2>0, <2>4
<1>3. P(L)
  <2>1. Good \in SUBSET Nat /\ \A k \in Good : k + 1 \in Good
    BY <1>2
  <2>2. Good = Nat
    <3> HIDE DEF Good
    <3> QED
      BY <1>1, <2>1, SetInduction
  <2>3. L \in Good
    <3> HIDE DEF Good
    <3> QED
      BY <2>2
  <2> HIDE DEF P
  <2> QED
    BY <2>3
<1> DEFINE at == TargetAt(c, hs)
<1>4. at = CHOOSE f : f = [j \in 0 .. L |-> D(f, j)]
  BY DEF TargetAt
<1> HIDE DEF at
<1>5. at = [j \in 0 .. L |-> D(at, j)]
  <2> HIDE DEF D
  <2> QED
    BY <1>3, <1>4
<1>6. \A j \in 0 .. L : at[j] = D(at, j)
  <2> HIDE DEF D
  <2> QED
    BY <1>5
<1>7. 0 \in 0 .. L /\ \A k \in 1 .. L : k \in 0 .. L /\ k # 0
  OBVIOUS
<1>8. at[0] = c.target
  BY <1>6, <1>7
<1>9. \A n \in 1 .. L :
        at[n] = IF OnABoundary(c.height + n) /\ PeriodKnown(c, n)
                THEN NextTarget(at[n - 1], BlockTime(c, hs, n - 1) - BlockTime(c, hs, n - RetargetInterval))
                ELSE at[n - 1]
  BY <1>6, <1>7
<1> QED
  BY <1>8, <1>9 DEF IsTarget, at

\* The times retarget_in subtracts are known.
LEMMA PeriodTimes ==
  ASSUME NEW c, IsCheckpoint(c), NEW hs, Len(hs) \in Nat, NEW n \in 1 .. Len(hs), PeriodKnown(c, n),
         \A k \in 1 .. n - 1 : hs[k].time \in Nat
  PROVE  /\ n >= RetargetInterval /\ n - 1 \in 1 .. n - 1
         /\ BlockTime(c, hs, n - 1) = hs[n - 1].time
         /\ BlockTime(c, hs, n - 1) \in Nat /\ BlockTime(c, hs, n - RetargetInterval) \in Nat
<1>0. RetargetInterval \in Nat /\ RetargetInterval >= 2
  BY HeadersAssumption
<1>1. n >= RetargetInterval /\ n - 1 \in 1 .. n - 1 /\ n - 1 # 0
  BY <1>0 DEF PeriodKnown
<1>2. BlockTime(c, hs, n - 1) = hs[n - 1].time /\ hs[n - 1].time \in Nat
  BY <1>1 DEF BlockTime
<1>3. BlockTime(c, hs, n - RetargetInterval) \in Nat
  <2>1. CASE n = RetargetInterval
    <3>1. c.time # Nothing /\ n - RetargetInterval = 0
      BY <1>0, <2>1 DEF PeriodKnown
    <3> QED
      BY <3>1 DEF BlockTime, IsCheckpoint
  <2>2. CASE n > RetargetInterval
    <3>1. n - RetargetInterval \in 1 .. n - 1 /\ n - RetargetInterval # 0
      BY <1>0, <2>2
    <3> QED
      BY <3>1 DEF BlockTime
  <2> QED
    BY <1>0, <1>1, <2>1, <2>2
<1> QED
  BY <1>1, <1>2, <1>3

\* No target is easier than the limit.
LEMMA TargetAtBound ==
  ASSUME NEW c, IsCheckpoint(c), NEW hs, Len(hs) \in Nat,
         \A k \in 1 .. Len(hs) - 1 : hs[k].time \in Nat,
         NEW n \in 0 .. Len(hs)
  PROVE  TargetAt(c, hs)[n] \in 0 .. PowLimit /\ TargetAt(c, hs)[n] \in Nat
<1> DEFINE at == TargetAt(c, hs)
           Good == {k \in Nat : k <= Len(hs) => at[k] \in 0 .. PowLimit}
<1>0. IsTarget(at, c, hs)
  BY TargetAtIs
<1> HIDE DEF at
<1>1. 0 \in Good
  BY <1>0 DEF IsTarget, IsCheckpoint
<1>2. ASSUME NEW k \in Good PROVE k + 1 \in Good
  <2> SUFFICES ASSUME k + 1 <= Len(hs) PROVE at[k + 1] \in 0 .. PowLimit
    OBVIOUS
  <2>1. k \in Nat /\ k + 1 \in 1 .. Len(hs) /\ (k + 1) - 1 = k /\ at[k] \in 0 .. PowLimit
    OBVIOUS
  <2>2. at[k] \in Nat
    BY <2>1, Sizes
  <2> DEFINE span == BlockTime(c, hs, k) - BlockTime(c, hs, (k + 1) - RetargetInterval)
  <2>3. at[k + 1] = IF OnABoundary(c.height + (k + 1)) /\ PeriodKnown(c, k + 1)
                    THEN NextTarget(at[k], span) ELSE at[k]
    BY <1>0, <2>1 DEF IsTarget
  <2>4. ASSUME PeriodKnown(c, k + 1) PROVE NextTarget(at[k], span) \in 0 .. PowLimit
    <3>1. \A j \in 1 .. (k + 1) - 1 : hs[j].time \in Nat
      BY <2>1
    <3>2. BlockTime(c, hs, k) \in Nat /\ BlockTime(c, hs, (k + 1) - RetargetInterval) \in Nat
      BY <2>1, <2>4, <3>1, PeriodTimes
    <3>3. span \in Int
      BY <3>2
    <3> HIDE DEF span
    <3> QED
      BY <2>2, <3>3, RetargetIs
  <2> HIDE DEF span
  <2> QED
    BY <2>1, <2>3, <2>4
<1>3. Good = Nat
  <2>1. Good \in SUBSET Nat /\ \A k \in Good : k + 1 \in Good
    BY <1>2
  <2> HIDE DEF Good
  <2> QED
    BY <1>1, <2>1, SetInduction
<1>4. at[n] \in 0 .. PowLimit
  BY <1>3
<1>5. at[n] \in Nat
  BY <1>4, Sizes
<1> QED
  BY <1>4, <1>5 DEF at

----------------------------------------------------------------------------
(* The checkpoint. *)

\* What is settled before the walk is whether every boundary of the range can be
\* followed.
LEMMA CheckpointVerdictIs ==
  ASSUME NEW c, IsCheckpoint(c), NEW hs, Len(hs) \in Nat
  PROVE  (CheckpointVerdict(c, hs) = "Ok") <=>
           \A n \in 1 .. Len(hs) : OnABoundary(c.height + n) => PeriodKnown(c, n)
<1> DEFINE Followed == OnABoundary(c.height) /\ c.time # Nothing
<1>0. PICK R \in Nat \ {0}, h \in Nat, L \in Nat :
        R = RetargetInterval /\ h = c.height /\ L = Len(hs) /\ R >= 2
  <2>1. RetargetInterval \in Nat \ {0} /\ RetargetInterval >= 2
    BY HeadersAssumption
  <2>2. c.height \in Nat
    BY DEF IsCheckpoint
  <2> QED
    BY <2>1, <2>2
<1>1. CheckpointVerdict(c, hs) = "Ok" <=> (h + L) \div R = h \div R \/ Followed
  <2>1. ~(c.target > PowLimit)
    BY Sizes DEF IsCheckpoint
  <2> QED
    BY <1>0, <2>1 DEF CheckpointVerdict
<1>2. PICK q, r \in Nat : h = q * R + r /\ r < R /\ q = h \div R /\ r = h % R
  BY RemainderIs
<1>3. PICK p, s \in Nat : h + L = p * R + s /\ s < R /\ p = (h + L) \div R
  <2>1. h + L \in Nat
    OBVIOUS
  <2> QED
    BY <2>1, RemainderIs
<1>4. OnABoundary(c.height) <=> r = 0
  BY <1>0, <1>2 DEF OnABoundary
<1>5. q * R \in Nat /\ p * R \in Nat /\ (q + 1) * R = q * R + R /\ (q + 1) * R \in Nat
  <2>1. (q + 1) * R = q * R + 1 * R /\ 1 * R = R
    BY TimesDistributes
  <2> QED
    BY <2>1, TimesNat
<1>6. ASSUME CheckpointVerdict(c, hs) = "Ok", NEW n \in 1 .. Len(hs), OnABoundary(c.height + n)
      PROVE  PeriodKnown(c, n)
  <2>1. n \in Nat /\ n >= 1 /\ n <= L /\ (h + n) % R = 0
    BY <1>0, <1>6 DEF OnABoundary
  <2>2. PICK k \in Nat : h + n = k * R
    <3>1. PICK a \in Nat : a = h + n
      BY <2>1
    <3>2. PICK k, z \in Nat : a = k * R + z /\ z = a % R
      BY RemainderIs
    <3>3. z = 0
      BY <2>1, <3>1, <3>2
    <3>4. PICK x \in Nat : x = k * R
      BY TimesNat
    <3>5. a = x
      BY <3>2, <3>3, <3>4
    <3> QED
      BY <3>1, <3>4, <3>5
  <2>3. q < k
    <3>1. PICK x, y \in Nat : x = q * R /\ y = k * R
      BY TimesNat
    <3>2. ~(k * R <= q * R)
      <4>1. h = x + r /\ h + n = y
        BY <1>2, <2>2, <3>1
      <4>2. ~(y <= x)
        BY <2>1, <4>1
      <4> QED
        BY <3>1, <4>2
    <3>3. ~(k <= q)
      BY <3>2, TimesMonotone
    <3> QED
      BY <3>3
  <2>4. k <= p
    <3>1. (p + 1) * R = p * R + 1 * R /\ 1 * R = R
      BY TimesDistributes
    <3>2. k * R < (p + 1) * R /\ (p + 1) * R \in Nat /\ k * R \in Nat
      BY <1>3, <1>5, <2>1, <2>2, <3>1
    <3>3. ~((p + 1) * R <= k * R)
      BY <3>2
    <3>4. ~(p + 1 <= k)
      BY <3>3, TimesMonotone
    <3> QED
      BY <3>4
  <2>5. Followed
    <3>1. p # q
      BY <2>3, <2>4
    <3> HIDE DEF Followed
    <3> QED
      BY <1>1, <1>2, <1>3, <1>6, <3>1
  <2>6. n >= R
    <3>1. (q + 1) * R <= k * R
      BY <2>3, TimesMonotone
    <3> QED
      BY <1>2, <1>4, <1>5, <2>1, <2>2, <2>5, <3>1
  <2> QED
    BY <1>0, <2>1, <2>5, <2>6 DEF PeriodKnown
<1>7. ASSUME CheckpointVerdict(c, hs) # "Ok"
      PROVE  \E n \in 1 .. Len(hs) : OnABoundary(c.height + n) /\ ~PeriodKnown(c, n)
  <2>1. p # q /\ ~Followed
    BY <1>1, <1>2, <1>3, <1>7
  <2>2. q < p
    <3>1. CASE p < q
      <4>1. (p + 1) * R <= q * R /\ (p + 1) * R = p * R + 1 * R /\ 1 * R = R
        BY <3>1, TimesMonotone, TimesDistributes
      <4>2. PICK x, y \in Nat : x = p * R /\ y = q * R
        BY <1>5
      <4>3. x + R <= y /\ h = y + r /\ h + L = x + s
        BY <1>2, <1>3, <4>1, <4>2
      <4>4. FALSE
        BY <1>3, <4>3
      <4> QED
        BY <4>4
    <3> QED
      BY <2>1, <3>1
  <2>3. PICK n : n = R - r
    OBVIOUS
  <2>4. n \in Nat /\ n >= 1 /\ h + n = (q + 1) * R
    <3>1. PICK x, y \in Nat : x = q * R /\ y = (q + 1) * R
      BY <1>5
    <3>2. h = x + r /\ y = x + R /\ r < R
      BY <1>2, <1>5, <3>1
    <3>3. n \in Nat /\ n >= 1 /\ h + n = y
      BY <2>3, <3>2
    <3> QED
      BY <3>1, <3>3
  <2>5. n <= L
    <3>1. (q + 1) * R <= p * R
      BY <2>2, TimesMonotone
    <3> QED
      BY <1>3, <1>5, <2>4, <3>1
  <2>6. OnABoundary(c.height + n)
    <3>1. PICK k \in Nat : k = q + 1
      OBVIOUS
    <3>2. (k * R) % R = 0
      BY MultipleIs
    <3> QED
      BY <1>0, <2>4, <3>1, <3>2 DEF OnABoundary
  <2>7. ~PeriodKnown(c, n)
    BY <1>0, <1>2, <1>4, <2>1, <2>3 DEF PeriodKnown
  <2> QED
    BY <1>0, <2>4, <2>5, <2>6, <2>7
<1> QED
  BY <1>6, <1>7

----------------------------------------------------------------------------
(* The walk against the rules. *)

\* The time of the last boundary at or below a place, and the checkpoint's where
\* the range has none.
Began(c, hs, n) ==
  LET b == n - ((c.height + n) % RetargetInterval)
  IN  IF b >= 1 THEN hs[b].time ELSE c.time

\* What the walk carries past a place it accepted.
Carries(at, c, hs, n) ==
  /\ at.previous = (IF n = 0 THEN c.hash ELSE hs[n].hash)
  /\ at.in_force = TargetAt(c, hs)[n]
  /\ at.period_began = Began(c, hs, n)

\* The order of the checks of a turn does not matter to acceptance.
LEMMA VerdictIs ==
  ASSUME NEW header, NEW at, NEW n, NEW height, NEW median, NEW target, NEW crosses, NEW in_force
  PROVE  HeaderVerdict(header, at, n, height, median, target, crosses, in_force) = "Ok" <=>
           /\ header.prev = at.previous
           /\ ~(height >= VersionFloorFrom /\ header.version < VersionFloor)
           /\ ~(median # Nothing /\ header.time <= median)
           /\ target # Nothing /\ ~(target > PowLimit)
           /\ ~crosses
           /\ in_force # Nothing /\ target # 0
           /\ BitsFromTarget(target) = header.bits
           /\ target = in_force
           /\ LessThanOrEqualReversed(header.hash, target)
<1> DEFINE V == HeaderVerdict(header, at, n, height, median, target, crosses, in_force)
           old == height >= VersionFloorFrom /\ header.version < VersionFloor
           early == median # Nothing /\ header.time <= median
           easy == target > PowLimit
           hard == in_force = Nothing \/ target = 0
           other == BitsFromTarget(target) # header.bits
           work == LessThanOrEqualReversed(header.hash, target)
           broken == IF n = 1 THEN "NotFromTheCheckpoint" ELSE "Broken"
<1>1. V = IF header.prev # at.previous THEN broken
          ELSE IF old THEN "VersionTooOld"
          ELSE IF early THEN "TimestampNotAfterMedianTimePast"
          ELSE IF target = Nothing THEN "MalformedTarget"
          ELSE IF easy THEN "EasierThanThePowLimit"
          ELSE IF crosses THEN "CrossesARetargetBoundary"
          ELSE IF hard THEN "MalformedTarget"
          ELSE IF other THEN "DifficultyNotCanonical"
          ELSE IF target # in_force THEN "TargetNotTheOneInForce"
          ELSE IF ~work THEN "InsufficientWork"
          ELSE "Ok"
  BY DEF HeaderVerdict
<1>2. broken # "Ok"
  OBVIOUS
<1> HIDE DEF V, old, early, easy, hard, other, work, broken
<1>3. V = "Ok" <=> /\ header.prev = at.previous /\ ~old /\ ~early /\ target # Nothing /\ ~easy /\ ~crosses
                   /\ ~hard /\ ~other /\ target = in_force /\ work
  BY <1>1, <1>2
<1>4. ~hard <=> in_force # Nothing /\ target # 0
  BY DEF hard
<1>5. ~other <=> BitsFromTarget(target) = header.bits
  BY DEF other
<1> QED
  BY <1>3, <1>4, <1>5, Zenon DEF V, old, early, easy, work

\* At a boundary the walk knows the period that closes.
LEMMA BeganIs ==
  ASSUME NEW c, IsCheckpoint(c), NEW hs, NEW n \in Nat, n >= 1
  PROVE  /\ OnABoundary(c.height + n) /\ n >= RetargetInterval =>
              Began(c, hs, n - 1) = BlockTime(c, hs, n - RetargetInterval)
         /\ Began(c, hs, n) = IF OnABoundary(c.height + n) THEN hs[n].time ELSE Began(c, hs, n - 1)
<1>0. PICK R \in Nat \ {0}, a \in Nat : R = RetargetInterval /\ R >= 2 /\ a = c.height + n /\ a >= 1
  <2>1. RetargetInterval \in Nat \ {0} /\ RetargetInterval >= 2
    BY HeadersAssumption
  <2>2. c.height \in Nat
    BY DEF IsCheckpoint
  <2> QED
    BY <2>1, <2>2
<1>1. c.height + (n - 1) = a - 1 /\ a - 1 \in Nat /\ n - 1 \in Nat
  BY <1>0 DEF IsCheckpoint
<1>2. PICK q, r \in Nat : a = q * R + r /\ r = a % R /\ r < R
  BY RemainderIs
<1>3. PICK p, s \in Nat : a - 1 = p * R + s /\ s = (a - 1) % R /\ s < R
  BY <1>1, RemainderIs
<1>4. IF r = 0 THEN s = R - 1 ELSE s = r - 1
  <2>1. PICK x, y \in Nat : x = q * R /\ y = p * R
    BY TimesNat
  <2>2. x + r = (y + s) + 1
    BY <1>2, <1>3, <2>1
  <2>3. r < R /\ s < R
    BY <1>2, <1>3
  <2>4. CASE q = p
    <3>1. x = y
      BY <2>1, <2>4
    <3> QED
      BY <2>2, <2>3, <3>1
  <2>5. CASE q < p
    <3>1. (q + 1) * R <= p * R /\ (q + 1) * R = q * R + 1 * R /\ 1 * R = R
      BY <2>5, TimesMonotone, TimesDistributes
    <3>2. x + R <= y
      BY <2>1, <3>1
    <3>3. FALSE
      BY <2>2, <2>3, <3>2
    <3> QED
      BY <3>3
  <2>6. CASE p < q
    <3>1. (p + 1) * R <= q * R /\ (p + 1) * R = p * R + 1 * R /\ 1 * R = R
      BY <2>6, TimesMonotone, TimesDistributes
    <3>2. y + R <= x
      BY <2>1, <3>1
    <3>3. r = 0 /\ s = R - 1
      BY <2>2, <2>3, <3>2
    <3> QED
      BY <3>3
  <2> QED
    BY <2>4, <2>5, <2>6
<1>5. OnABoundary(c.height + n) <=> r = 0
  BY <1>0, <1>2 DEF OnABoundary
<1>6. Began(c, hs, n) = IF n - r >= 1 THEN hs[n - r].time ELSE c.time
  BY <1>0, <1>2 DEF Began
<1>7. Began(c, hs, n - 1) = IF (n - 1) - s >= 1 THEN hs[(n - 1) - s].time ELSE c.time
  BY <1>0, <1>1, <1>3 DEF Began
<1>8. CASE r = 0
  <2>1. (n - 1) - s = n - R /\ n - r = n
    BY <1>4, <1>8
  <2>2. Began(c, hs, n) = hs[n].time
    BY <1>6, <2>1
  <2>3. ASSUME n >= R PROVE Began(c, hs, n - 1) = BlockTime(c, hs, n - R)
    <3>1. CASE n = R
      <4>1. n - R = 0
        BY <3>1
      <4> QED
        BY <1>7, <2>1, <4>1 DEF BlockTime
    <3>2. CASE n > R
      <4>1. n - R >= 1 /\ n - R # 0
        BY <3>2
      <4> QED
        BY <1>7, <2>1, <4>1 DEF BlockTime
    <3> QED
      BY <2>3, <3>1, <3>2
  <2> QED
    BY <1>0, <1>5, <1>8, <2>2, <2>3
<1>9. CASE r # 0
  <2>1. (n - 1) - s = n - r
    BY <1>4, <1>9
  <2> QED
    BY <1>5, <1>6, <1>7, <1>9, <2>1
<1> QED
  BY <1>8, <1>9

\* One turn of verify_chain_in accepts exactly what Bitcoin does, and carries on.
LEMMA TurnIs ==
  ASSUME NEW c, IsCheckpoint(c), NEW hs, Len(hs) \in Nat, \A k \in 1 .. Len(hs) : IsHeader(hs[k]),
         NEW n \in 1 .. Len(hs), OnABoundary(c.height + n) => PeriodKnown(c, n),
         NEW at, Carries(at, c, hs, n - 1)
  PROVE  /\ WalkStep(c, hs, n, at).verdict = "Ok" <=> StatedRules(c, hs, n)
         /\ WalkStep(c, hs, n, at).verdict = "Ok" => Carries(WalkStep(c, hs, n, at), c, hs, n)
<1> DEFINE boundary == OnABoundary(c.height + n)
           crosses == boundary /\ (at.period_began = Nothing \/ n = 1)
           in_force == IF boundary /\ ~crosses
                       THEN Retarget(at.in_force, hs[n - 1].time - at.period_began)
                       ELSE at.in_force
           h == hs[n]
           t == TargetFromBits(h.bits)
           now == TargetAt(c, hs)[n]
           median == MedianTimePast(hs, n)
           step == WalkStep(c, hs, n, at)
<1>0. /\ IsHeader(h) /\ n \in Nat /\ n >= 1 /\ n - 1 \in 0 .. Len(hs) /\ n \in 0 .. Len(hs)
      /\ \A k \in 1 .. Len(hs) : hs[k].time \in Nat
      /\ Nothing \notin Nat /\ c.height \in Nat /\ c.hash = BlockHash
  BY BitcoinAnchorAssumption DEF IsHeader, IsCheckpoint
<1>1. /\ step.verdict = HeaderVerdict(h, at, n, c.height + n, median, t, crosses, in_force)
      /\ step.previous = h.hash /\ step.in_force = in_force
      /\ step.period_began = IF boundary THEN h.time ELSE at.period_began
  BY DEF WalkStep, PeriodBegan
<1>2. PICK before, force \in 0 .. PowLimit : before = TargetAt(c, hs)[n - 1] /\ force = now
  <2>1. \A k \in 1 .. Len(hs) - 1 : hs[k].time \in Nat
    BY <1>0
  <2> QED
    BY <1>0, <2>1, TargetAtBound
<1>3. before \in Nat /\ force \in Nat
  BY Sizes
<1>4. /\ ~crosses
      /\ in_force = force \/ (force = 0 /\ in_force = Nothing)
  <2>0. /\ at.in_force = before /\ at.period_began = Began(c, hs, n - 1)
        /\ now = IF boundary /\ PeriodKnown(c, n)
                 THEN NextTarget(before, BlockTime(c, hs, n - 1) - BlockTime(c, hs, n - RetargetInterval))
                 ELSE before
    <3>1. IsTarget(TargetAt(c, hs), c, hs)
      BY TargetAtIs
    <3> QED
      BY <1>2, <3>1 DEF Carries, IsTarget
  <2>1. CASE boundary
    <3>1. PeriodKnown(c, n)
      BY <2>1
    <3>2. \A k \in 1 .. n - 1 : hs[k].time \in Nat
      BY <1>0
    <3>3. /\ n >= RetargetInterval /\ n - 1 \in 1 .. n - 1
          /\ BlockTime(c, hs, n - 1) = hs[n - 1].time
          /\ BlockTime(c, hs, n - 1) \in Nat /\ BlockTime(c, hs, n - RetargetInterval) \in Nat
      BY <3>1, <3>2, PeriodTimes
    <3>4. Began(c, hs, n - 1) = BlockTime(c, hs, n - RetargetInterval)
      BY <1>0, <2>1, <3>3, BeganIs
    <3>5. ~crosses
      BY <1>0, <2>0, <3>3, <3>4
    <3>6. PICK d \in Int : d = BlockTime(c, hs, n - 1) - BlockTime(c, hs, n - RetargetInterval)
      BY <3>3
    <3>7. in_force = Retarget(before, d)
      BY <2>0, <2>1, <3>3, <3>4, <3>5, <3>6
    <3>8. force = NextTarget(before, d)
      BY <1>2, <2>0, <2>1, <3>1, <3>6
    <3>9. Retarget(before, d) = IF NextTarget(before, d) = 0 THEN Nothing ELSE NextTarget(before, d)
      BY <1>3, RetargetIs
    <3> HIDE DEF crosses, in_force
    <3> QED
      BY <3>5, <3>7, <3>8, <3>9
  <2>2. CASE ~boundary
    <3>1. ~crosses /\ in_force = before /\ force = before
      BY <1>2, <2>0, <2>2
    <3> QED
      BY <3>1
  <2> QED
    BY <2>1, <2>2
<1> HIDE DEF crosses, in_force
<1>5. step.verdict = "Ok" <=>
        /\ h.prev = at.previous
        /\ ~(c.height + n >= VersionFloorFrom /\ h.version < VersionFloor)
        /\ ~(median # Nothing /\ h.time <= median)
        /\ t # Nothing /\ ~(t > PowLimit)
        /\ in_force # Nothing /\ t # 0
        /\ BitsFromTarget(t) = h.bits
        /\ t = in_force
        /\ LessThanOrEqualReversed(h.hash, t)
  <2> HIDE DEF step, t, median, h
  <2> QED
    BY <1>1, <1>4, VerdictIs
<1>6. at.previous = IF n = 1 THEN BlockHash ELSE hs[n - 1].hash
  BY <1>0 DEF Carries
<1>7. ~(c.height + n >= VersionFloorFrom /\ h.version < VersionFloor)
        <=> (c.height + n >= VersionFloorFrom => h.version >= VersionFloor)
  BY <1>0, HeadersAssumption DEF IsHeader
<1>8. ~(median # Nothing /\ h.time <= median)
        <=> (n > MedianTimeSpan => Cardinality(EarlierBelow(hs, n, h.time)) * 2 > MedianTimeSpan)
  <2>0. MedianTimeSpan \in Nat /\ h.time \in Nat
    BY <1>0, HeadersAssumption DEF IsHeader
  <2>1. CASE n <= MedianTimeSpan
    <3>1. median = Nothing
      BY <2>1 DEF MedianTimePast
    <3> QED
      BY <1>0, <2>0, <2>1, <3>1
  <2>2. CASE n > MedianTimeSpan
    <3>1. \A i \in n - MedianTimeSpan .. n - 1 : hs[i].time \in Nat
      BY <1>0, <2>0, <2>2
    <3>2. /\ median \in Nat
          /\ h.time > median <=> 2 * Cardinality(EarlierBelow(hs, n, h.time)) > MedianTimeSpan
      BY <1>0, <2>0, <2>2, <3>1, MedianIs
    <3>3. Cardinality(EarlierBelow(hs, n, h.time)) \in Nat
      <4>1. IsFiniteSet(n - MedianTimeSpan .. n - 1)
        BY <1>0, <2>0, FS_Interval
      <4>2. EarlierBelow(hs, n, h.time) \in SUBSET (n - MedianTimeSpan .. n - 1)
        BY DEF EarlierBelow
      <4> QED
        BY <4>1, <4>2, FS_Subset, FS_CardinalityType
    <3>4. PICK m, k \in Nat : m = median /\ k = Cardinality(EarlierBelow(hs, n, h.time))
      BY <3>2, <3>3
    <3>5. h.time > m <=> 2 * k > MedianTimeSpan
      BY <3>2, <3>4
    <3>6. ~(h.time <= m) <=> k * 2 > MedianTimeSpan
      BY <2>0, <3>5
    <3> QED
      BY <1>0, <2>2, <3>2, <3>4, <3>6
  <2> QED
    BY <1>0, <2>0, <2>1, <2>2
<1>9. (/\ t # Nothing /\ ~(t > PowLimit) /\ in_force # Nothing /\ t # 0
       /\ BitsFromTarget(t) = h.bits /\ t = in_force /\ LessThanOrEqualReversed(h.hash, t))
        <=> Canonical(now, h.bits) /\ HashValue(h.hash) <= now
  <2>0. h.bits \in Encoding /\ h.hash \in Digits
    BY <1>0 DEF IsHeader
  <2>1. Canonical(force, h.bits) <=> force > 0 /\ t = force /\ BitsFromTarget(force) = h.bits
    BY <2>0, CanonicalIs
  <2>2. LessThanOrEqualReversed(h.hash, force) <=> HashValue(h.hash) <= force
    <3>1. force < Weight[TargetDigits]
      <4>1. TargetDigits \in 1 .. TargetDigits
        BY Sizes
      <4>2. SignOf(TargetDigits - 1) < Weight[TargetDigits] /\ SignOf(TargetDigits - 1) \in Nat
            /\ Weight[TargetDigits] \in Nat
        BY <4>1, SignMoves
      <4> QED
        BY <1>3, <4>2, Sizes
    <3> QED
      BY <1>3, <2>0, <3>1, WorkIs
  <2>3. force # Nothing /\ ~(force > PowLimit) /\ (force > 0 <=> force # 0) /\ force = now
    <3>1. force # Nothing
      BY <1>0, <1>3
    <3>2. ~(force > PowLimit) /\ (force > 0 <=> force # 0)
      <4>1. PowLimit \in Nat
        BY Sizes
      <4> HIDE DEF now, t, h
      <4> QED
        BY <1>2, <1>3, <4>1
    <3> QED
      BY <1>2, <3>1, <3>2
  <2> HIDE DEF t, now, h
  <2>4. CASE t = in_force /\ in_force # Nothing
    <3>1. in_force = force
      BY <1>4, <2>4
    <3> QED
      BY <2>1, <2>2, <2>3, <2>4, <3>1
  <2>5. CASE ~(t = in_force /\ in_force # Nothing)
    <3>1. ~(force > 0 /\ t = force)
      BY <1>4, <2>3, <2>5
    <3> QED
      BY <2>1, <2>3, <2>5, <3>1
  <2> QED
    BY <2>4, <2>5
<1>10. StatedRules(c, hs, n) <=>
         /\ boundary => PeriodKnown(c, n)
         /\ h.prev = IF n = 1 THEN BlockHash ELSE hs[n - 1].hash
         /\ c.height + n >= VersionFloorFrom => h.version >= VersionFloor
         /\ n > MedianTimeSpan => Cardinality(EarlierBelow(hs, n, h.time)) * 2 > MedianTimeSpan
         /\ Canonical(now, h.bits)
         /\ HashValue(h.hash) <= now
  BY DEF StatedRules
<1>11. step.verdict = "Ok" <=> StatedRules(c, hs, n)
  <2>1. boundary => PeriodKnown(c, n)
    OBVIOUS
  <2> DEFINE prev == IF n = 1 THEN BlockHash ELSE hs[n - 1].hash
             young == c.height + n >= VersionFloorFrom => h.version >= VersionFloor
             late == n > MedianTimeSpan => Cardinality(EarlierBelow(hs, n, h.time)) * 2 > MedianTimeSpan
  <2>2. StatedRules(c, hs, n) <=> h.prev = prev /\ young /\ late /\ Canonical(now, h.bits)
                                /\ HashValue(h.hash) <= now
    BY <1>10, <2>1
  <2>3. step.verdict = "Ok" <=> h.prev = prev /\ young /\ late /\ Canonical(now, h.bits)
                                /\ HashValue(h.hash) <= now
    <3>1. at.previous = prev
      BY <1>6
    <3>2. ~(c.height + n >= VersionFloorFrom /\ h.version < VersionFloor) <=> young
      BY <1>7
    <3>3. ~(median # Nothing /\ h.time <= median) <=> late
      BY <1>8
    <3> HIDE DEF step, t, median, h, now, prev, young, late
    <3> QED
      BY <1>5, <1>9, <3>1, <3>2, <3>3, Zenon
  <2> HIDE DEF step, t, median, h, now, prev, young, late
  <2> QED
    BY <2>2, <2>3
<1>12. ASSUME step.verdict = "Ok" PROVE Carries(step, c, hs, n)
  <2>1. step.in_force = now
    <3>1. in_force # Nothing
      BY <1>5, <1>12
    <3> QED
      BY <1>1, <1>2, <1>4, <3>1
  <2>2. step.period_began = Began(c, hs, n)
    <3>1. at.period_began = Began(c, hs, n - 1)
      BY DEF Carries
    <3> QED
      BY <1>0, <1>1, <3>1, BeganIs
  <2>3. step.previous = (IF n = 0 THEN c.hash ELSE hs[n].hash)
    BY <1>0, <1>1
  <2> HIDE DEF step
  <2> QED
    BY <2>1, <2>2, <2>3 DEF Carries
<1> QED
  BY <1>11, <1>12

\* verify_chain_in accepts a range exactly when every header of it keeps the
\* stated rules.
LEMMA WalkIsTheRules ==
  ASSUME NEW c, IsCheckpoint(c), NEW hs, Len(hs) \in Nat, \A k \in 1 .. Len(hs) : IsHeader(hs[k])
  PROVE  VerifyChain(c, hs) = "Ok" <=> \A n \in 1 .. Len(hs) : StatedRules(c, hs, n)
<1>1. PICK walk : IsWalk(walk, c, hs) /\ VerifyChain(c, hs) = walk[Len(hs)].verdict
  BY WalkIs
<1>2. PICK L \in Nat : L = Len(hs)
  OBVIOUS
<1>3. /\ walk[0] = WalkFrom(c, CheckpointVerdict(c, hs))
      /\ \A n \in 1 .. L : walk[n] = IF walk[n - 1].verdict # "Ok" THEN walk[n - 1]
                                     ELSE WalkStep(c, hs, n, walk[n - 1])
  BY <1>1, <1>2 DEF IsWalk
<1> DEFINE Upto(n) == \A k \in 1 .. n : StatedRules(c, hs, k)
<1>4. CASE CheckpointVerdict(c, hs) = "Ok"
  <2>1. \A n \in 1 .. Len(hs) : OnABoundary(c.height + n) => PeriodKnown(c, n)
    BY <1>4, CheckpointVerdictIs
  <2> DEFINE Good == {n \in Nat : n <= L =>
                        /\ walk[n].verdict = "Ok" <=> Upto(n)
                        /\ walk[n].verdict = "Ok" => Carries(walk[n], c, hs, n)}
  <2>2. 0 \in Good
    <3>1. walk[0].verdict = "Ok" /\ walk[0].previous = c.hash /\ walk[0].in_force = c.target
          /\ walk[0].period_began = c.time
      BY <1>3, <1>4 DEF WalkFrom
    <3>2. Upto(0)
      OBVIOUS
    <3>3. TargetAt(c, hs)[0] = c.target
      BY TargetAtIs DEF IsTarget
    <3>4. Began(c, hs, 0) = c.time
      <4>1. RetargetInterval \in Nat \ {0} /\ c.height + 0 \in Nat
        BY HeadersAssumption DEF IsCheckpoint
      <4>2. (c.height + 0) % RetargetInterval \in Nat
        BY <4>1, RemainderIs
      <4>3. ~(0 - ((c.height + 0) % RetargetInterval) >= 1)
        BY <4>2
      <4> QED
        BY <4>3 DEF Began
    <3>5. Carries(walk[0], c, hs, 0)
      BY <3>1, <3>3, <3>4 DEF Carries
    <3> HIDE DEF Upto
    <3> QED
      BY <3>1, <3>2, <3>5
  <2>3. ASSUME NEW n \in Good PROVE n + 1 \in Good
    <3> SUFFICES ASSUME n + 1 <= L
                 PROVE  /\ walk[n + 1].verdict = "Ok" <=> Upto(n + 1)
                        /\ walk[n + 1].verdict = "Ok" => Carries(walk[n + 1], c, hs, n + 1)
      OBVIOUS
    <3>1. n \in Nat /\ n <= L /\ n + 1 \in 1 .. L /\ n + 1 \in 1 .. Len(hs) /\ (n + 1) - 1 = n
      BY <1>2
    <3>2. /\ walk[n].verdict = "Ok" <=> Upto(n)
          /\ walk[n].verdict = "Ok" => Carries(walk[n], c, hs, n)
      BY <3>1
    <3>3. walk[n + 1] = IF walk[n].verdict # "Ok" THEN walk[n] ELSE WalkStep(c, hs, n + 1, walk[n])
      BY <1>3, <3>1
    <3>4. Upto(n + 1) <=> Upto(n) /\ StatedRules(c, hs, n + 1)
      <4>1. \A k \in Nat : k \in 1 .. n + 1 <=> k \in 1 .. n \/ k = n + 1
        BY <3>1
      <4>2. \A k \in 1 .. n + 1 : k \in Nat
        BY <3>1
      <4>3. \A k \in 1 .. n : k \in Nat
        BY <3>1
      <4>4. 1 .. n + 1 = (1 .. n) \cup {n + 1}
        BY <3>1, <4>1, <4>2, <4>3
      <4> QED
        BY <4>4, Zenon
    <3> HIDE DEF Upto
    <3>5. CASE walk[n].verdict = "Ok"
      <4>1. Carries(walk[n], c, hs, (n + 1) - 1)
        BY <3>1, <3>2, <3>5
      <4>2. OnABoundary(c.height + (n + 1)) => PeriodKnown(c, n + 1)
        BY <2>1, <3>1
      <4>3. /\ WalkStep(c, hs, n + 1, walk[n]).verdict = "Ok" <=> StatedRules(c, hs, n + 1)
            /\ WalkStep(c, hs, n + 1, walk[n]).verdict = "Ok"
                 => Carries(WalkStep(c, hs, n + 1, walk[n]), c, hs, n + 1)
        BY <3>1, <4>1, <4>2, TurnIs
      <4> QED
        BY <3>2, <3>3, <3>4, <3>5, <4>3
    <3>6. CASE walk[n].verdict # "Ok"
      BY <3>2, <3>3, <3>4, <3>6
    <3> QED
      BY <3>5, <3>6
  <2>4. Good = Nat
    <3>1. Good \in SUBSET Nat /\ \A n \in Good : n + 1 \in Good
      BY <2>3
    <3> HIDE DEF Good
    <3> QED
      BY <2>2, <3>1, SetInduction
  <2>5. walk[L].verdict = "Ok" <=> Upto(L)
    <3> HIDE DEF Upto
    <3> QED
      BY <2>4
  <2> QED
    BY <1>1, <1>2, <2>5
<1>5. CASE CheckpointVerdict(c, hs) # "Ok"
  <2> DEFINE Stopped == {n \in Nat : n <= L => walk[n].verdict # "Ok"}
  <2>1. 0 \in Stopped
    BY <1>3, <1>5 DEF WalkFrom
  <2>2. ASSUME NEW n \in Stopped PROVE n + 1 \in Stopped
    <3> SUFFICES ASSUME n + 1 <= L PROVE walk[n + 1].verdict # "Ok"
      OBVIOUS
    <3>1. n + 1 \in 1 .. L /\ (n + 1) - 1 = n /\ walk[n].verdict # "Ok"
      OBVIOUS
    <3> QED
      BY <1>3, <3>1
  <2>3. Stopped = Nat
    <3>1. Stopped \in SUBSET Nat /\ \A n \in Stopped : n + 1 \in Stopped
      BY <2>2
    <3> HIDE DEF Stopped
    <3> QED
      BY <2>1, <3>1, SetInduction
  <2>4. walk[L].verdict # "Ok"
    BY <2>3
  <2>5. PICK n \in 1 .. Len(hs) : OnABoundary(c.height + n) /\ ~PeriodKnown(c, n)
    BY <1>5, CheckpointVerdictIs
  <2>6. ~StatedRules(c, hs, n)
    BY <2>5 DEF StatedRules
  <2> QED
    BY <1>1, <1>2, <2>4, <2>6
<1> QED
  BY <1>4, <1>5

----------------------------------------------------------------------------
(* What the tools answer. *)

\* The settings describe a checkpoint only if all three are there.
LEMMA AllGiven ==
  ASSUME NEW e, ~(Cardinality({f \in {"height", "hash", "bits"} : e[f] # Nothing}) < 3)
  PROVE  e.height # Nothing /\ e.hash # Nothing /\ e.bits # Nothing
<1> DEFINE given == {f \in {"height", "hash", "bits"} : e[f] # Nothing}
<1>1. ASSUME NEW x \in {"height", "hash", "bits"}, e[x] = Nothing PROVE FALSE
  <2>1. PICK a, b \in {"height", "hash", "bits"} : given \in SUBSET ({a} \cup {b})
    BY <1>1
  <2>2. IsFiniteSet({a} \cup {b}) /\ Cardinality({a} \cup {b}) <= 2
    <3>1. IsFiniteSet({a}) /\ Cardinality({a}) = 1
      BY FS_Singleton
    <3> QED
      BY <3>1, FS_AddElement
  <2>3. IsFiniteSet(given) /\ Cardinality(given) <= Cardinality({a} \cup {b})
    <3> HIDE DEF given
    <3> QED
      BY <2>1, <2>2, FS_Subset
  <2>4. Cardinality(given) \in Nat /\ Cardinality({a} \cup {b}) \in Nat
    BY <2>2, <2>3, FS_CardinalityType
  <2>5. ~(Cardinality(given) < 3)
    OBVIOUS
  <2> HIDE DEF given
  <2> QED
    BY <2>2, <2>3, <2>4, <2>5
<1> QED
  BY <1>1

\* A hash written last digit first, written so again.
LEMMA ReversedTwice == Len(Reverse(BlockHash)) = TargetDigits /\ Reverse(Reverse(BlockHash)) = BlockHash
<1>0. TargetDigits \in Nat
  BY Sizes
<1>1. PICK b : b = BlockHash /\ b \in [1 .. TargetDigits -> 0 .. DigitBase - 1]
  BY BitcoinAnchorAssumption DEF Digits
<1>2. Len(b) = TargetDigits
  <2>1. b = [i \in 1 .. TargetDigits |-> b[i]]
    BY <1>1
  <2>2. Len([i \in 1 .. TargetDigits |-> b[i]]) = TargetDigits
    BY <1>0
  <2> QED
    BY <2>1, <2>2
<1>3. PICK r : r = Reverse(b)
  OBVIOUS
<1>4. r = [i \in 1 .. TargetDigits |-> b[(TargetDigits - i) + 1]]
  BY <1>2, <1>3 DEF Reverse
<1>5. Len(r) = TargetDigits
  BY <1>0, <1>4
<1>6. Reverse(r) = [i \in 1 .. TargetDigits |-> r[(TargetDigits - i) + 1]]
  BY <1>5 DEF Reverse
<1>7. \A i \in 1 .. TargetDigits : r[(TargetDigits - i) + 1] = b[i]
  <2> SUFFICES ASSUME NEW i \in 1 .. TargetDigits PROVE r[(TargetDigits - i) + 1] = b[i]
    OBVIOUS
  <2>1. PICK j \in 1 .. TargetDigits : j = (TargetDigits - i) + 1 /\ (TargetDigits - j) + 1 = i
    BY <1>0
  <2>2. r[j] = b[(TargetDigits - j) + 1]
    BY <1>4
  <2> QED
    BY <2>1, <2>2
<1>8. b = [i \in 1 .. TargetDigits |-> b[i]]
  BY <1>1
<1>9. Reverse(r) = b
  BY <1>6, <1>7, <1>8
<1> QED
  BY <1>1, <1>3, <1>5, <1>9

\* A checkpoint the tool accepts is the block's, no easier than the limit.
LEMMA CheckpointIs ==
  ASSUME env \in Environment, checkpoint # Nothing
  PROVE  IsCheckpoint(checkpoint)
<1> DEFINE given == {f \in {"height", "hash", "bits"} : env[f] # Nothing}
<1>0. Nothing \notin Nat /\ PowLimit \in Nat
  BY Sizes, BitcoinAnchorAssumption
<1>1. CASE given = {}
  <2>1. checkpoint = Genesis
    BY <1>1 DEF checkpoint, CheckpointOf
  <2> QED
    BY <1>0, <2>1 DEF Genesis, IsCheckpoint
<1>2. CASE given # {}
  <2>1. /\ ~(Cardinality(given) < 3) /\ CheckpointTarget(env.bits) # Nothing
        /\ checkpoint = [height |-> env.height, hash |-> HashFromDisplayed(env.hash),
                         target |-> CheckpointTarget(env.bits), time |-> env.time]
    <3> HIDE DEF given
    <3> QED
      BY <1>2 DEF checkpoint, CheckpointOf, given
  <2>2. env.height # Nothing /\ env.hash # Nothing /\ env.bits # Nothing
    BY <2>1, AllGiven
  <2>3. /\ env.height \in Nat /\ env.hash = Reverse(BlockHash)
        /\ env.bits \in Encoding /\ env.time \in Nat \cup {Nothing}
    BY <2>2, BitcoinAnchorAssumption
  <2>4. HashFromDisplayed(env.hash) = BlockHash
    BY <2>3, ReversedTwice DEF HashFromDisplayed
  <2>5. CheckpointTarget(env.bits) \in 0 .. PowLimit
    <3>1. PICK t : t = TargetFromBits(env.bits)
      OBVIOUS
    <3>2. t # Nothing /\ ~(t > PowLimit) /\ CheckpointTarget(env.bits) = t
      BY <2>1, <3>1 DEF CheckpointTarget
    <3>3. t \in Nat
      BY <2>3, <3>1, <3>2, TargetFromBitsIs
    <3> QED
      BY <1>0, <3>2, <3>3
  <2> QED
    BY <2>1, <2>3, <2>4, <2>5 DEF IsCheckpoint
<1> QED
  BY <1>1, <1>2

\* A header on offer is a header.
LEMMA OfferedIs ==
  ASSUME FileInv, checkpoint # Nothing, NEW h \in Offered
  PROVE  IsHeader(h)
<1> DEFINE n == Len(headers) + 1
           hs == Append(headers, Nothing)
           target == TargetAt(checkpoint, hs)[n]
           right == {b \in Encodings(target) : Canonical(target, b)}
<1>0. /\ Len(headers) \in Nat /\ fork \in Nat /\ IsCheckpoint(checkpoint)
      /\ VersionFloor \in Nat /\ DigitBase \in Nat \ {0}
  BY HeadersAssumption, CheckpointIs DEF FileInv
<1>1. target \in Nat
  <2>1. PICK S : headers \in Seq(S)
    BY DEF FileInv
  <2>2. headers \in Seq(S \cup {Nothing})
    BY <2>1
  <2>3. Len(hs) = n /\ \A k \in 1 .. n - 1 : hs[k] = headers[k]
    BY <2>2
  <2>4. \A k \in 1 .. Len(headers) : headers[k].time \in Nat
    BY DEF FileInv, IsHeader
  <2>5. \A k \in 1 .. Len(hs) - 1 : hs[k].time \in Nat
    BY <1>0, <2>3, <2>4
  <2>6. Len(hs) \in Nat /\ n \in 0 .. Len(hs)
    BY <1>0, <2>3
  <2> HIDE DEF hs, n
  <2> QED
    BY <1>0, <2>5, <2>6, TargetAtBound
<1>2. /\ h.time \in Times /\ h.version \in {VersionFloor - 1, VersionFloor}
      /\ h.bits \in right \cup Bits
      /\ h.hash \in {HashOf(target), HashOf(target + 1), HashOf(0)}
      /\ h.merkle = <<checkpoint.height + n, fork>>
  <2> HIDE DEF target
  <2> QED
    BY DEF Offered, target
<1> HIDE DEF target
<1>3. ASSUME NEW v \in Nat PROVE HashOf(v) \in Digits
  <2>1. ASSUME NEW i \in 1 .. TargetDigits PROVE (v \div Weight[i - 1]) % DigitBase \in 0 .. DigitBase - 1
    <3>1. i - 1 \in 0 .. TargetDigits
      BY Sizes
    <3>2. PICK q \in Nat : q = v \div Weight[i - 1]
      BY <3>1, WeightPositive, DivBounds
    <3>3. q % DigitBase \in 0 .. DigitBase - 1
      BY <1>0
    <3> QED
      BY <3>2, <3>3
  <2> QED
    BY <2>1 DEF HashOf, Digits
<1>4. h.hash \in Digits
  <2>1. target + 1 \in Nat /\ 0 \in Nat
    BY <1>1
  <2> QED
    BY <1>1, <1>2, <1>3, <2>1
<1>5. h.bits \in Encoding
  <2>1. CASE h.bits \in Bits
    BY <2>1, BitcoinAnchorAssumption
  <2>2. CASE h.bits \in right
    <3>1. h.bits \in [exponent : 0 .. TargetDigits, mantissa : 1 .. SignBit - 1]
      BY <2>2, EncodingsAre
    <3>2. 0 .. TargetDigits \subseteq Nat /\ 1 .. SignBit - 1 \subseteq Nat
      BY Sizes
    <3> QED
      BY <3>1, <3>2 DEF Encoding
  <2> QED
    BY <1>2, <2>1, <2>2
<1>6. h.merkle # Nothing
  <2>1. checkpoint.height + n \in Nat
    BY <1>0 DEF IsCheckpoint
  <2>2. <<checkpoint.height + n, fork>> \in Nat \X Nat
    BY <1>0, <2>1
  <2>3. Nothing \notin Nat \X Nat
    BY BitcoinAnchorAssumption
  <2> HIDE DEF n
  <2> QED
    BY <1>2, <2>2, <2>3, Zenon
<1>7. h.time \in Nat /\ h.version \in Int
  <2>1. VersionFloor - 1 \in Int /\ VersionFloor \in Int
    BY <1>0
  <2>2. Times \subseteq Nat
    BY BitcoinAnchorAssumption
  <2> HIDE DEF right, n, hs
  <2> QED
    BY <1>2, <2>1, <2>2
<1> QED
  BY <1>4, <1>5, <1>6, <1>7 DEF IsHeader

\* confirm_in answers Confirmed only for a buried block of a range that
\* verifies, and reports that block.
LEMMA ConfirmIs ==
  ASSUME NEW claim, NEW c, NEW hs, Confirm(claim, c, hs).kind = "Confirmed"
  PROVE  /\ VerifyChain(c, hs) = "Ok"
         /\ claim.height - c.height \in 1 .. Len(hs)
         /\ hs[claim.height - c.height].merkle = claim.attested_digest
         /\ ~(Len(hs) - (claim.height - c.height) < ConfirmationDepth)
         /\ Confirm(claim, c, hs) =
              [kind |-> "Confirmed", height |-> claim.height,
               merkle |-> hs[claim.height - c.height].merkle,
               time |-> hs[claim.height - c.height].time,
               checked_against_median_time_past |->
                 CheckedAgainstMedian(hs, claim.height - c.height)]
<1>1. /\ VerifyChain(c, hs) = "Ok" /\ claim.height - c.height \in 1 .. Len(hs)
      /\ PlaceOf(c, hs, claim.height) = [kind |-> "At", place |-> claim.height - c.height]
  BY DEF Confirm, ConfirmAt, PlaceOf, PlaceIn, Refused
<1> QED
  BY <1>1 DEF Confirm, ConfirmAt, Refused, Depth

\* For a block of a range that verifies, with the root the receipt reaches, it
\* answers Confirmed or Pending.
LEMMA ConfirmAgain ==
  ASSUME NEW claim, NEW c, NEW hs, VerifyChain(c, hs) = "Ok",
         claim.height - c.height \in 1 .. Len(hs),
         hs[claim.height - c.height].merkle = claim.attested_digest
  PROVE  Confirm(claim, c, hs).kind \in {"Confirmed", "Pending"}
  BY DEF Confirm, ConfirmAt, PlaceOf, PlaceIn, Refused

\* What verify_receipt claims.
LEMMA ReceiptIs ==
  ASSUME NEW r, NEW stamped, VerifyReceipt(r, stamped).kind # "Refused"
  PROVE  /\ r.parses /\ r.start = stamped /\ r.attests # Nothing /\ ~(r.attests > MaxU32)
         /\ VerifyReceipt(r, stamped) =
              [kind |-> "Claim", height |-> r.attests, attested_digest |-> r.output]
  BY DEF VerifyReceipt, Refused

\* A block the walk accepted is later than the median below it, where there is
\* one, and the flag of its confirmation says so.
LEMMA FlagIsSet ==
  ASSUME FileInv, checkpoint # Nothing, VerifyChain(checkpoint, headers) = "Ok",
         NEW place \in 1 .. Len(headers)
  PROVE  FlagIsTrue(CheckedAgainstMedian(headers, place), place, headers[place].time)
<1>0. /\ MedianTimeSpan \in Nat /\ Len(headers) \in Nat /\ place \in Nat
      /\ \A i \in 1 .. Len(headers) : headers[i].time \in Nat
      /\ Nothing \notin Nat
  BY HeadersAssumption, BitcoinAnchorAssumption DEF FileInv, IsHeader
<1>1. CASE place <= MedianTimeSpan
  <2>1. MedianTimePast(headers, place) = Nothing
    BY <1>1 DEF MedianTimePast
  <2> QED
    BY <1>1, <2>1 DEF FlagIsTrue, CheckedAgainstMedian
<1>2. CASE place > MedianTimeSpan
  <2>1. \A i \in place - MedianTimeSpan .. place - 1 : headers[i].time \in Nat
    BY <1>0, <1>2
  <2>2. /\ MedianTimePast(headers, place) \in Nat
        /\ \A t \in Nat : t > MedianTimePast(headers, place) <=>
             2 * Cardinality(EarlierBelow(headers, place, t)) > MedianTimeSpan
    BY <1>0, <1>2, <2>1, MedianIs
  <2>3. PICK at : WalkStep(checkpoint, headers, place, at).verdict = "Ok"
    BY <1>0, WalkAccepts
  <2>4. PICK height, target, crosses, in_force :
          HeaderVerdict(headers[place], at, place, height, MedianTimePast(headers, place),
                        target, crosses, in_force) = "Ok"
    BY <2>3 DEF WalkStep
  <2>5. MedianTimePast(headers, place) = Nothing
          \/ ~(headers[place].time <= MedianTimePast(headers, place))
    BY <2>4 DEF HeaderVerdict
  <2>6. headers[place].time \in Nat /\ headers[place].time > MedianTimePast(headers, place)
    BY <1>0, <2>2, <2>5
  <2>7. CheckedAgainstMedian(headers, place)
    BY <1>0, <2>2 DEF CheckedAgainstMedian
  <2> QED
    BY <1>2, <2>2, <2>6, <2>7 DEF FlagIsTrue
<1> QED
  BY <1>0, <1>1, <1>2

----------------------------------------------------------------------------
(* Every step keeps the invariant. *)

\* At first there is nothing.
LEMMA AnchorInit == Init => AnchorInv
<1> SUFFICES ASSUME Init PROVE AnchorInv
  OBVIOUS
<1>1. headers \in Seq({}) /\ Len(headers) = 0
  BY DEF Init
<1> QED
  BY <1>1 DEF Init, AnchorInv, FileInv, ConfirmedInv, EstablishedInv

\* Bitcoin grows.
LEMMA ExtendKeeps ==
  ASSUME AnchorInv, Valid, NEW h \in Offered, Extend(h)
  PROVE  /\ FileInv'
         /\ \A place : Buried(place) =>
              /\ Buried(place)' /\ headers'[place] = headers[place]
              /\ place > MedianTimeSpan =>
                   \A t : EarlierBelow(headers', place, t) = EarlierBelow(headers, place, t)
<1>0. PICK S : headers \in Seq(S)
  BY DEF AnchorInv, FileInv
<1>1. /\ headers' = Append(headers, h) /\ Len(headers) \in Nat
      /\ headers' \in Seq(S \cup {h}) /\ Len(headers') = Len(headers) + 1
      /\ \A n \in 1 .. Len(headers) : headers'[n] = headers[n]
      /\ headers'[Len(headers) + 1] = h
  <2>1. headers \in Seq(S \cup {h})
    BY <1>0
  <2> QED
    BY <1>0, <2>1 DEF Extend
<1>2. checkpoint' = checkpoint /\ fork' = fork /\ env' = env
  BY DEF Extend, checkpoint
<1>3. /\ best \in Nat /\ best' \in Nat /\ best <= best'
      /\ VerifyChain(checkpoint, headers') = "Ok" => Len(headers) + 1 <= best'
  BY <1>1 DEF Extend, AnchorInv, FileInv
<1>4. IsHeader(h)
  BY OfferedIs DEF AnchorInv, Valid
<1>5. FileInv'
  <2>1. \E T : headers' \in Seq(T)
    BY <1>1
  <2>2. \A n \in 1 .. Len(headers') : IsHeader(headers'[n])
    BY <1>1, <1>4 DEF AnchorInv, FileInv
  <2>3. Valid' => Len(headers') <= best'
    BY <1>1, <1>2, <1>3 DEF Valid
  <2> QED
    BY <1>2, <1>3, <2>1, <2>2, <2>3 DEF AnchorInv, FileInv
<1>6. ASSUME NEW place, Buried(place)
      PROVE  /\ Buried(place)' /\ headers'[place] = headers[place]
             /\ place > MedianTimeSpan =>
                  \A t : EarlierBelow(headers', place, t) = EarlierBelow(headers, place, t)
  <2>1. place \in 1 .. Len(headers)
    BY <1>6 DEF Buried
  <2>2. Buried(place)'
    <3>1. ConfirmationDepth \in Nat
      BY HeadersAssumption
    <3> QED
      BY <1>1, <1>2, <1>3, <1>6, <3>1 DEF Buried
  <2>3. ASSUME place > MedianTimeSpan, NEW t
        PROVE  EarlierBelow(headers', place, t) = EarlierBelow(headers, place, t)
    <3>0. MedianTimeSpan \in Nat
      BY HeadersAssumption
    <3>1. \A i \in place - MedianTimeSpan .. place - 1 : headers'[i] = headers[i]
      BY <1>1, <2>1, <2>3, <3>0
    <3> QED
      BY <3>1 DEF EarlierBelow
  <2> QED
    BY <1>1, <2>1, <2>2, <2>3
<1> QED
  BY <1>5, <1>6

\* Bitcoin replaces its newest blocks.
LEMMA ReorganiseKeeps ==
  ASSUME AnchorInv, Valid, NEW n \in 0 .. Len(headers), Reorganise(n)
  PROVE  /\ FileInv'
         /\ \A place : Buried(place) =>
              /\ Buried(place)' /\ headers'[place] = headers[place]
              /\ place > MedianTimeSpan =>
                   \A t : EarlierBelow(headers', place, t) = EarlierBelow(headers, place, t)
<1>0. PICK S : headers \in Seq(S)
  BY DEF AnchorInv, FileInv
<1>1. /\ headers' = SubSeq(headers, 1, n) /\ Len(headers) \in Nat
      /\ headers' \in Seq(S) /\ Len(headers') = n
      /\ \A i \in 1 .. n : headers'[i] = headers[i]
      /\ n < Len(headers) /\ n >= best - ConfirmationDepth
  BY <1>0 DEF Reorganise
<1>2. checkpoint' = checkpoint /\ fork' = fork + 1 /\ env' = env /\ best' = best
  BY DEF Reorganise, checkpoint
<1>3. fork \in Nat /\ best \in Nat /\ Len(headers) <= best /\ ConfirmationDepth \in Nat
  BY HeadersAssumption DEF AnchorInv, FileInv
<1>4. FileInv'
  <2>1. \E T : headers' \in Seq(T)
    BY <1>1
  <2>2. \A i \in 1 .. Len(headers') : IsHeader(headers'[i])
    BY <1>1 DEF AnchorInv, FileInv
  <2>3. Len(headers') <= best'
    BY <1>1, <1>2, <1>3
  <2> QED
    BY <1>2, <1>3, <2>1, <2>2, <2>3 DEF AnchorInv, FileInv
<1>5. ASSUME NEW place, Buried(place)
      PROVE  /\ Buried(place)' /\ headers'[place] = headers[place]
             /\ place > MedianTimeSpan =>
                  \A t : EarlierBelow(headers', place, t) = EarlierBelow(headers, place, t)
  <2>1. place \in 1 .. n
    BY <1>1, <1>3, <1>5 DEF Buried
  <2>2. Buried(place)'
    BY <1>1, <1>2, <1>5, <2>1 DEF Buried
  <2>3. ASSUME place > MedianTimeSpan, NEW t
        PROVE  EarlierBelow(headers', place, t) = EarlierBelow(headers, place, t)
    <3>0. MedianTimeSpan \in Nat
      BY HeadersAssumption
    <3>1. \A i \in place - MedianTimeSpan .. place - 1 : headers'[i] = headers[i]
      BY <1>1, <2>1, <2>3, <3>0
    <3> QED
      BY <3>1 DEF EarlierBelow
  <2> QED
    BY <1>1, <2>1, <2>2, <2>3
<1> QED
  BY <1>4, <1>5

\* While a block stays, what was said of it stays.
LEMMA SaidStays ==
  ASSUME AnchorInv, checkpoint' = checkpoint,
         UNCHANGED <<confirmed, established>>,
         \A place : Buried(place) =>
            /\ Buried(place)' /\ headers'[place] = headers[place]
            /\ place > MedianTimeSpan =>
                 \A t : EarlierBelow(headers', place, t) = EarlierBelow(headers, place, t)
  PROVE  ConfirmedInv' /\ EstablishedInv'
<1>1. ConfirmedInv'
  <2> SUFFICES ASSUME confirmed # Nothing PROVE ConfirmedInv'
    BY DEF ConfirmedInv
  <2>1. PICK place : place = confirmed.height - checkpoint.height
    OBVIOUS
  <2>2. /\ Buried(place) /\ headers[place].merkle = confirmed.merkle
        /\ headers[place].time = confirmed.time
        /\ FlagIsTrue(confirmed.checked_against_median_time_past, place, confirmed.time)
    BY <2>1 DEF AnchorInv, ConfirmedInv
  <2>3. /\ Buried(place)' /\ headers'[place] = headers[place]
        /\ place > MedianTimeSpan =>
             \A t : EarlierBelow(headers', place, t) = EarlierBelow(headers, place, t)
    BY <2>2
  <2>4. FlagIsTrue(confirmed.checked_against_median_time_past, place, confirmed.time)'
    BY <2>2, <2>3 DEF FlagIsTrue
  <2>5. place = confirmed'.height - checkpoint'.height
    BY <2>1
  <2> QED
    BY <2>2, <2>3, <2>4, <2>5 DEF ConfirmedInv
<1>2. EstablishedInv'
  <2> SUFFICES ASSUME established # Nothing PROVE EstablishedInv'
    BY DEF EstablishedInv
  <2>1. PICK place : place = established.receipt.attests - checkpoint.height
    OBVIOUS
  <2>2. Buried(place)
    BY <2>1 DEF AnchorInv, EstablishedInv
  <2>3. Buried(place)' /\ headers'[place] = headers[place]
    BY <2>2
  <2>4. place = established'.receipt.attests - checkpoint'.height
    BY <2>1
  <2> QED
    BY <2>1, <2>3, <2>4 DEF AnchorInv, EstablishedInv
<1> QED
  BY <1>1, <1>2

\* A confirmation is recorded.
LEMMA ConfirmKeeps ==
  ASSUME AnchorInv, Valid, NEW stamped, NEW height, NEW branch, NEW trailing,
         ConfirmAnchorB(stamped, height, branch, trailing)
  PROVE  ConfirmedInv'
<1> DEFINE r == Receipt(stamped, height, branch)
           claim == VerifyReceipt(r, stamped)
<1>1. /\ Run(r, stamped, trailing).kind = "Confirmed" /\ confirmed' = Run(r, stamped, trailing)
      /\ UNCHANGED <<env, headers, best, fork, established>>
  BY DEF ConfirmAnchorB
<1>2. checkpoint # Nothing /\ checkpoint' = checkpoint
  BY <1>1 DEF Valid, checkpoint
<1>3. claim.kind # "Refused" /\ Run(r, stamped, trailing) = Confirm(claim, checkpoint, headers)
  <2> HIDE DEF r
  <2> QED
    BY <1>1 DEF Run, RunWith, Refused
<1> HIDE DEF claim, r
<1>4. PICK place : place = claim.height - checkpoint.height
  OBVIOUS
<1>5. /\ VerifyChain(checkpoint, headers) = "Ok" /\ place \in 1 .. Len(headers)
      /\ ~(Len(headers) - place < ConfirmationDepth)
      /\ confirmed' = [kind |-> "Confirmed", height |-> claim.height,
                       merkle |-> headers[place].merkle, time |-> headers[place].time,
                       checked_against_median_time_past |-> CheckedAgainstMedian(headers, place)]
  BY <1>1, <1>3, <1>4, ConfirmIs
<1>6. Buried(place)
  <2>1. Len(headers) <= best /\ best \in Nat /\ Len(headers) \in Nat /\ ConfirmationDepth \in Nat
    BY HeadersAssumption DEF AnchorInv, FileInv
  <2> QED
    BY <1>2, <1>5, <2>1 DEF Buried
<1>7. FlagIsTrue(CheckedAgainstMedian(headers, place), place, headers[place].time)
  BY <1>2, <1>5, FlagIsSet DEF AnchorInv
<1>8. place = confirmed'.height - checkpoint'.height
  BY <1>2, <1>4, <1>5
<1>9. Buried(place)' /\ FlagIsTrue(CheckedAgainstMedian(headers, place), place, headers[place].time)'
  BY <1>1, <1>2, <1>6, <1>7 DEF Buried, FlagIsTrue
<1> QED
  BY <1>1, <1>5, <1>8, <1>9 DEF ConfirmedInv, FlagIsTrue

\* Promises with the same octets are the same promise.
LEMMA EncodeIsInjective ==
  ASSUME NEW i \in DOMAIN Stamp, NEW j \in DOMAIN Stamp, Encode(Stamp[i]) = Encode(Stamp[j])
  PROVE  Stamp[i] = Stamp[j]
<1> DEFINE Fields(p) ==
             [leaf |-> p.leaf, id |-> p.id, accepted_epoch |-> p.accepted_epoch,
              promised_epoch |-> p.promised_epoch, max_merge_delay |-> p.max_merge_delay,
              batcher_key |-> p.batcher_key, signature |-> p.signature]
<1>1. Stamp[i] = Fields(Stamp[i]) /\ Stamp[j] = Fields(Stamp[j])
  BY BitcoinAnchorAssumption
<1>2. PICK p, q : p = Stamp[i] /\ q = Stamp[j]
  OBVIOUS
<1>3. /\ p.leaf = q.leaf /\ p.id = q.id /\ p.accepted_epoch = q.accepted_epoch
      /\ p.promised_epoch = q.promised_epoch /\ p.max_merge_delay = q.max_merge_delay
      /\ p.batcher_key = q.batcher_key /\ p.signature = q.signature
  BY <1>2 DEF Encode
<1>4. Fields(p) = Fields(q)
  BY <1>3
<1> HIDE DEF Fields
<1> QED
  BY <1>1, <1>2, <1>4

\* A judgment is recorded.
LEMMA TransferKeeps ==
  ASSUME AnchorInv, Valid, NEW i \in DOMAIN Stamp, NEW q \in DOMAIN Stamp, NEW branch,
         NEW stamped, Transfer(Stamp[i], Receipt(stamped, checkpoint.height + q, branch))
  PROVE  EstablishedInv'
<1> DEFINE p == Stamp[i]
           r == Receipt(stamped, checkpoint.height + q, branch)
           claim == VerifyReceipt(r, Encode(p))
<1>1. /\ Transferred(p, r).kind = "Established"
      /\ established' = [promise |-> p, receipt |-> r, answer |-> Transferred(p, r)]
      /\ UNCHANGED <<env, headers, best, fork, confirmed>>
  BY DEF Transfer
<1>2. checkpoint # Nothing /\ checkpoint' = checkpoint
  BY <1>1 DEF Valid, checkpoint
<1>3. r.output = Reaches(stamped, checkpoint.height + q, branch) /\ r.start = stamped
  BY DEF Receipt
<1> HIDE DEF r, p
<1>4. PICK place : place = r.attests - checkpoint.height
  OBVIOUS
<1>5. claim.kind # "Refused"
  BY <1>1 DEF Transferred, JudgeClaim, Refused
<1>6. /\ r.parses /\ r.start = Encode(p) /\ r.attests # Nothing /\ ~(r.attests > MaxU32)
      /\ claim = [kind |-> "Claim", height |-> r.attests, attested_digest |-> r.output]
  BY <1>5, ReceiptIs
<1>7. Transferred(p, r) = JudgeAgainst(p, Confirm(claim, checkpoint, headers), headers[place].time)
  BY <1>4, <1>5, <1>6 DEF Transferred, JudgeClaim
<1> HIDE DEF claim
<1>8. Confirm(claim, checkpoint, headers).kind = "Confirmed"
  BY <1>1, <1>7 DEF JudgeAgainst, Judged, Refused
<1>9. /\ place \in 1 .. Len(headers) /\ headers[place].merkle = r.output
      /\ ~(Len(headers) - place < ConfirmationDepth)
  <2>1. claim.height - checkpoint.height = place /\ claim.attested_digest = r.output
    BY <1>4, <1>6
  <2> QED
    BY <1>8, <2>1, ConfirmIs
<1>10. /\ VerifyPromise(p, BatcherKey, DayIndex(headers[place].time)) = "Ok"
       /\ Transferred(p, r) = [kind |-> "Established", time |-> headers[place].time,
                               existed_by_epoch |-> DayIndex(headers[place].time)]
  BY <1>1, <1>7, <1>8 DEF JudgeAgainst, Judged, Refused
<1>11. Buried(place)
  <2>1. Len(headers) <= best /\ best \in Nat /\ Len(headers) \in Nat /\ ConfirmationDepth \in Nat
    BY HeadersAssumption DEF AnchorInv, FileInv
  <2> QED
    BY <1>2, <1>9, <2>1 DEF Buried
<1>12. place \in DOMAIN Stamp /\ p = Stamp[place]
  <2>1. r.output # Nothing
    BY <1>9 DEF AnchorInv, FileInv, IsHeader
  <2>2. PICK height : height = checkpoint.height + q
    OBVIOUS
  <2>3. height - checkpoint.height = place
    BY <1>4, <2>2 DEF r, Receipt
  <2>4. place \in DOMAIN Stamp /\ stamped = Encode(Stamp[place])
    <3>1. Reaches(stamped, height, branch) # Nothing
      BY <1>3, <2>1, <2>2
    <3> QED
      BY <2>3, <3>1, Zenon DEF Reaches
  <2>5. Encode(p) = Encode(Stamp[place])
    BY <1>3, <1>6, <2>4
  <2> QED
    BY <2>4, <2>5, EncodeIsInjective DEF p
<1>13. Buried(place)'
  BY <1>1, <1>2, <1>11 DEF Buried
<1>14. /\ established'.promise = p /\ established'.receipt = r
       /\ established'.answer = Transferred(p, r)
       /\ place = established'.receipt.attests - checkpoint'.height
  BY <1>1, <1>2, <1>4
<1>15. headers' = headers
  BY <1>1
<1> QED
  BY <1>6, <1>9, <1>10, <1>12, <1>13, <1>14, <1>15 DEF EstablishedInv

\* Every step keeps the invariant.
LEMMA AnchorStep == AnchorInv /\ [Next]_vars => AnchorInv'
<1> SUFFICES ASSUME AnchorInv, [Next]_vars PROVE AnchorInv'
  OBVIOUS
<1>1. ASSUME Valid, NEW h \in Offered, Extend(h) PROVE AnchorInv'
  <2>1. checkpoint' = checkpoint /\ UNCHANGED <<confirmed, established>>
    BY <1>1 DEF Extend, checkpoint
  <2> QED
    BY <1>1, <2>1, ExtendKeeps, SaidStays DEF AnchorInv
<1>2. ASSUME Valid, NEW n \in 0 .. Len(headers), Reorganise(n) PROVE AnchorInv'
  <2>1. checkpoint' = checkpoint /\ UNCHANGED <<confirmed, established>>
    BY <1>2 DEF Reorganise, checkpoint
  <2> QED
    BY <1>2, <2>1, ReorganiseKeeps, SaidStays DEF AnchorInv
<1>3. ASSUME UNCHANGED <<env, headers, best, fork>>
      PROVE  /\ FileInv' /\ checkpoint' = checkpoint
             /\ confirmed' = confirmed => ConfirmedInv'
             /\ established' = established => EstablishedInv'
  <2>1. checkpoint' = checkpoint
    BY <1>3 DEF checkpoint
  <2>2. Valid' <=> Valid
    BY <1>3, <2>1 DEF Valid
  <2>3. FileInv'
    BY <1>3, <2>2 DEF AnchorInv, FileInv
  <2>4. \A place : Buried(place)' <=> Buried(place)
    BY <1>3, <2>1 DEF Buried
  <2>5. ASSUME confirmed' = confirmed PROVE ConfirmedInv'
    BY <1>3, <2>1, <2>4, <2>5 DEF AnchorInv, ConfirmedInv, FlagIsTrue
  <2>6. ASSUME established' = established PROVE EstablishedInv'
    BY <1>3, <2>1, <2>4, <2>6 DEF AnchorInv, EstablishedInv
  <2> QED
    BY <2>1, <2>3, <2>5, <2>6
<1>4. ASSUME Valid, NEW stamped, NEW height, NEW branch, NEW trailing,
             ConfirmAnchorB(stamped, height, branch, trailing)
      PROVE  AnchorInv'
  <2>1. ConfirmedInv'
    BY <1>4, ConfirmKeeps
  <2>2. UNCHANGED <<env, headers, best, fork>> /\ established' = established
    BY <1>4 DEF ConfirmAnchorB
  <2> QED
    BY <1>3, <2>1, <2>2 DEF AnchorInv
<1>5. ASSUME Valid, NEW i \in DOMAIN Stamp, NEW q \in DOMAIN Stamp, NEW branch, NEW stamped,
             Transfer(Stamp[i], Receipt(stamped, checkpoint.height + q, branch))
      PROVE  AnchorInv'
  <2>1. EstablishedInv'
    BY <1>5, TransferKeeps
  <2>2. UNCHANGED <<env, headers, best, fork>> /\ confirmed' = confirmed
    BY <1>5 DEF Transfer
  <2> QED
    BY <1>3, <2>1, <2>2 DEF AnchorInv
<1>6. CASE UNCHANGED vars
  BY <1>3, <1>6 DEF vars, AnchorInv
<1> QED
  BY <1>1, <1>2, <1>4, <1>5, <1>6 DEF Next

----------------------------------------------------------------------------
(* The theorems. *)

\* The invariant holds throughout.
THEOREM AnchorInvariant == Spec => []AnchorInv
  BY AnchorInit, AnchorStep, PTL DEF Spec

\* bitcoin.rs: for every size of digits, mantissas and targets, every limit,
\* interval, timespan and median span, verify_chain_in accepts a range exactly
\* when every block of it keeps the rules stated for it: the target declared and
\* met is the one the timestamps in the range put in force.
THEOREM AcceptanceIsByTheRules == Spec => []AcceptsExactlyTheRules
<1>1. AnchorInv => AcceptsExactlyTheRules
  <2> SUFFICES ASSUME AnchorInv, checkpoint # Nothing
               PROVE  (VerifyChain(checkpoint, headers) = "Ok")
                        <=> \A n \in DOMAIN headers : StatedRules(checkpoint, headers, n)
    BY DEF AcceptsExactlyTheRules
  <2>1. PICK S : headers \in Seq(S)
    BY DEF AnchorInv, FileInv
  <2>2. Len(headers) \in Nat /\ DOMAIN headers = 1 .. Len(headers)
    BY <2>1
  <2>3. IsCheckpoint(checkpoint) /\ \A n \in 1 .. Len(headers) : IsHeader(headers[n])
    BY CheckpointIs DEF AnchorInv, FileInv
  <2> QED
    BY <2>2, <2>3, WalkIsTheRules
<1> QED
  BY <1>1, AnchorInvariant, PTL

\* bitcoin.rs: for every depth, every span and every number of reorganisations
\* within the depth, what confirm-anchor-b called confirmed stays in the chain
\* with its root and its time, and its flag tells whether the median rule was
\* applied, and then the rule held.
THEOREM ConfirmationsSurvive == Spec => []ConfirmedSurvives
<1>1. AnchorInv => ConfirmedSurvives
  <2> SUFFICES ASSUME AnchorInv, confirmed # Nothing PROVE ConfirmedSurvives
    BY DEF ConfirmedSurvives
  <2>1. PICK place : place = confirmed.height - checkpoint.height
    OBVIOUS
  <2>2. /\ Buried(place) /\ headers[place].merkle = confirmed.merkle
        /\ headers[place].time = confirmed.time
        /\ FlagIsTrue(confirmed.checked_against_median_time_past, place, confirmed.time)
    BY <2>1 DEF AnchorInv, ConfirmedInv
  <2>3. place \in DOMAIN headers
    <3>1. PICK S : headers \in Seq(S)
      BY DEF AnchorInv, FileInv
    <3> QED
      BY <2>2, <3>1 DEF Buried
  <2> QED
    BY <2>1, <2>2, <2>3 DEF ConfirmedSurvives, FlagIsTrue
<1> QED
  BY <1>1, AnchorInvariant, PTL

\* promise_receipt.rs: for the same, a judgment on a transferred promise never
\* has to be withdrawn.
THEOREM JudgmentsStand == Spec => []JudgmentStands
<1>1. AnchorInv => JudgmentStands
  <2> SUFFICES ASSUME AnchorInv, Valid, established # Nothing
               PROVE  Transferred(established.promise, established.receipt)
                        \in {established.answer, Refused("NotYetBuriedDeepEnough")}
    BY DEF JudgmentStands
  <2>1. PICK p, r, place : /\ p = established.promise /\ r = established.receipt
                           /\ place = r.attests - checkpoint.height
    OBVIOUS
  <2> DEFINE claim == VerifyReceipt(r, Encode(p))
  <2>2. /\ Buried(place) /\ r.parses /\ r.start = Encode(p)
        /\ r.attests # Nothing /\ ~(r.attests > MaxU32)
        /\ headers[place].merkle = r.output
        /\ VerifyPromise(p, BatcherKey, DayIndex(headers[place].time)) = "Ok"
        /\ established.answer =
             [kind |-> "Established", time |-> headers[place].time,
              existed_by_epoch |-> DayIndex(headers[place].time)]
    BY <2>1 DEF AnchorInv, EstablishedInv
  <2>3. claim = [kind |-> "Claim", height |-> r.attests, attested_digest |-> r.output]
    BY <2>2 DEF VerifyReceipt
  <2>4. Transferred(p, r) = JudgeAgainst(p, Confirm(claim, checkpoint, headers), headers[place].time)
    BY <2>1, <2>3 DEF Transferred, JudgeClaim
  <2>5. claim.height - checkpoint.height = place /\ claim.attested_digest = r.output
    BY <2>1, <2>3
  <2> HIDE DEF claim
  <2>6. Confirm(claim, checkpoint, headers).kind \in {"Confirmed", "Pending"}
    BY <2>2, <2>5, ConfirmAgain DEF Buried, Valid
  <2>7. CASE Confirm(claim, checkpoint, headers).kind = "Confirmed"
    BY <2>1, <2>2, <2>4, <2>7 DEF JudgeAgainst, Judged
  <2>8. CASE Confirm(claim, checkpoint, headers).kind = "Pending"
    BY <2>1, <2>4, <2>8 DEF JudgeAgainst, Judged
  <2> QED
    BY <2>6, <2>7, <2>8
<1> QED
  BY <1>1, AnchorInvariant, PTL

\* promise.rs and promise_receipt.rs: whatever the receipt names, a promise
\* judged good is the one its block commits, the batcher's, and answerable two
\* merge delays after that block's day at the latest.
THEOREM DeadlinesAreBounded == Spec => []DeadlineIsBounded
<1>1. AnchorInv => DeadlineIsBounded
  <2> SUFFICES ASSUME AnchorInv, established # Nothing PROVE DeadlineIsBounded
    BY DEF DeadlineIsBounded
  <2>1. PICK p, place : /\ p = established.promise
                        /\ place = established.receipt.attests - checkpoint.height
    OBVIOUS
  <2>2. PICK day : day = DayIndex(headers[place].time)
    OBVIOUS
  <2>3. /\ Buried(place) /\ place \in DOMAIN Stamp /\ p = Stamp[place]
        /\ VerifyPromise(p, BatcherKey, day) = "Ok"
    BY <2>1, <2>2 DEF AnchorInv, EstablishedInv
  <2>4. day \in Int
    <3>1. headers[place].time \in Nat
      BY <2>3 DEF Buried, AnchorInv, FileInv, IsHeader
    <3> QED
      BY <2>2, <3>1, ScheduleAssumption DEF DayIndex
  <2>5. p.accepted_epoch \in Nat /\ p.promised_epoch \in Nat /\ MaxMergeDelay \in Nat
    BY <2>3, BitcoinAnchorAssumption, PromiseAssumption
  <2>6. /\ p.max_merge_delay = MaxMergeDelay
        /\ p.promised_epoch - p.accepted_epoch \in 0 .. MaxMergeDelay
        /\ day - p.accepted_epoch \in 0 .. 1
        /\ VerifyStrict(BatcherKey, PromiseDigest(p), p.signature)
    BY <2>3 DEF VerifyPromise
  <2>7. p.promised_epoch + p.max_merge_delay <= day + 2 * MaxMergeDelay
    BY <2>4, <2>5, <2>6
  <2> QED
    BY <2>1, <2>2, <2>3, <2>6, <2>7 DEF DeadlineIsBounded
<1> QED
  BY <1>1, AnchorInvariant, PTL

\* promise.rs and promise.ts: the two implementations of verify_promise give the
\* same verdict on every promise, although they check in another order, one
\* subtracts where the other adds, and they name the key differently; unless
\* their libraries differ on its signature (SD-07), and then the one whose
\* library refuses it answers AttestationInvalid and the other takes it.
THEOREM PromiseVerdictsAgree ==
  ASSUME NEW p, NEW expected, NEW observed \in Nat,
         p.accepted_epoch \in Nat, p.promised_epoch \in Nat
  PROVE  LET rust   == VerifyPromise(p, expected, observed)
             ts     == VerifyPromiseTs(p, expected, observed)
             strict == VerifyStrict(expected, PromiseDigest(p), p.signature)
             rfc    == Ed25519Verify(expected, PromiseDigest(p), p.signature)
         IN  \/ rust = ts
             \/ rust = "AttestationInvalid" /\ ts = "Ok" /\ ~strict /\ rfc
             \/ rust = "Ok" /\ ts = "AttestationInvalid" /\ strict /\ ~rfc
<1>1. CASE p.batcher_key # expected
  BY <1>1 DEF VerifyPromise, VerifyPromiseTs
<1>2. CASE p.batcher_key = expected /\ p.max_merge_delay # MaxMergeDelay
  BY <1>2 DEF VerifyPromise, VerifyPromiseTs
<1>3. CASE p.batcher_key = expected /\ p.max_merge_delay = MaxMergeDelay
  <2>1. p.promised_epoch - p.accepted_epoch \notin 0 .. MaxMergeDelay
          <=> \/ p.promised_epoch < p.accepted_epoch
              \/ p.promised_epoch > p.accepted_epoch + p.max_merge_delay
    BY <1>3, PromiseAssumption
  <2>2. observed - p.accepted_epoch \notin 0 .. 1
          <=> p.accepted_epoch > observed \/ p.accepted_epoch + 1 < observed
    OBVIOUS
  <2> QED
    BY <1>3, <2>1, <2>2, Zenon DEF VerifyPromise, VerifyPromiseTs
<1> QED
  BY <1>1, <1>2, <1>3
=============================================================================
