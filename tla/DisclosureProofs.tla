-------------------------- MODULE DisclosureProofs --------------------------
(***************************************************************************)
(* What a counterparty is shown is what was filed, for trees of any height,*)
(* any number of submissions and any proof.  The argument has three parts. *)
(* A tree is a function of the set it was built from, and the same one in  *)
(* both implementations.  A path to the root determines, level by level    *)
(* from the top, the nodes it runs through, because digests are injective  *)
(* and their tags tell leaves from nodes.  And a walk over heads can be    *)
(* undone from its end.                                                    *)
(***************************************************************************)
EXTENDS Disclosure, FiniteSetTheorems, WellFoundedInduction, TLAPS

----------------------------------------------------------------------------
(* Induction over sets of numbers. *)

\* A set of naturals that holds zero and every successor holds them all.
LEMMA SetInduction ==
  ASSUME NEW S \in SUBSET Nat, 0 \in S, \A n \in S : n + 1 \in S
  PROVE  S = Nat
<1> DEFINE R == {ss \in Nat \X Nat : ss[1] < ss[2]}
           Rest == Nat \ S
<1>1. IsWellFoundedOn(R, Nat)
  BY NatLessThanWellFounded, Zenon DEF OpToRel
<1>2. Rest \subseteq Nat
  OBVIOUS
<1> HIDE DEF R, Rest
<1>3. ASSUME Rest # {} PROVE FALSE
  <2>1. PICK x \in Rest : \A y \in Rest : ~ (<<y, x>> \in R)
    BY <1>1, <1>2, <1>3, WFMin
  <2>2. x \in Nat /\ x \notin S /\ x # 0
    BY <1>2 DEF Rest
  <2>3. x - 1 \in Nat /\ x - 1 < x
    BY <2>2
  <2>4. <<x - 1, x>> \in R
    BY <2>2, <2>3 DEF R
  <2>5. x - 1 \in S
    BY <2>1, <2>3, <2>4 DEF Rest
  <2>6. (x - 1) + 1 \in S
    BY <2>5
  <2> QED
    BY <2>2, <2>6
<1> QED
  BY <1>3 DEF Rest

\* A set of naturals that is not empty has a least element.
\* f gives the value after each of N steps, from start.
IsLoop(f, N, T, start, step) ==
  f \in [0 .. N -> T] /\ f[0] = start /\ \A n \in 1 .. N : f[n] = step[n][f[n - 1]]

\* A loop over the values of a set has an outcome.
LEMMA Loop ==
  ASSUME NEW N \in Nat, NEW T, NEW start \in T, NEW step \in [1 .. N -> [T -> T]]
  PROVE  \E f : IsLoop(f, N, T, start, step)
<1> DEFINE P(k) == \E f \in [0 .. N -> T] :
                      f[0] = start /\ \A n \in 1 .. N : n <= k => f[n] = step[n][f[n - 1]]
           Good == {k \in Nat : P(k)}
<1>1. 0 \in Good
  <2> DEFINE f == [n \in 0 .. N |-> start]
  <2>1. f \in [0 .. N -> T] /\ f[0] = start /\ \A n \in 1 .. N : n <= 0 => f[n] = step[n][f[n - 1]]
    OBVIOUS
  <2> HIDE DEF f
  <2>2. P(0)
    BY <2>1
  <2> QED
    BY <2>2
<1>2. ASSUME NEW k \in Good PROVE k + 1 \in Good
  <2>0. k \in Nat /\ P(k)
    OBVIOUS
  <2>1. PICK f \in [0 .. N -> T] :
          f[0] = start /\ \A n \in 1 .. N : n <= k => f[n] = step[n][f[n - 1]]
    BY <2>0
  <2>2. CASE k + 1 \in 1 .. N
    <3> DEFINE g == [n \in 0 .. N |-> IF n = k + 1 THEN step[n][f[n - 1]] ELSE f[n]]
    <3>1. step[k + 1][f[k]] \in T
      BY <2>0, <2>2
    <3>2. g \in [0 .. N -> T]
      BY <2>2, <3>1, <2>0
    <3>3. g[0] = start
      BY <2>0, <2>1
    <3>4. ASSUME NEW n \in 1 .. N, n <= k + 1 PROVE g[n] = step[n][g[n - 1]]
      <4>1. n - 1 \in 0 .. N /\ n \in 0 .. N /\ n - 1 # k + 1
        BY <2>0, <3>4
      <4>2. g[n - 1] = f[n - 1]
        BY <4>1
      <4>3. CASE n = k + 1
        BY <4>1, <4>2, <4>3
      <4>4. CASE n # k + 1
        <5>1. n <= k
          BY <2>0, <3>4, <4>4
        <5>2. g[n] = f[n] /\ f[n] = step[n][f[n - 1]]
          BY <2>1, <4>1, <4>4, <5>1
        <5> QED
          BY <4>2, <5>2
      <4> QED
        BY <4>3, <4>4
    <3> HIDE DEF g
    <3>5. P(k + 1)
      BY <3>2, <3>3, <3>4
    <3> HIDE DEF P
    <3> QED
      BY <2>0, <3>5
  <2>3. CASE k + 1 \notin 1 .. N
    <3>1. \A n \in 1 .. N : n <= k + 1 => n <= k
      BY <2>0, <2>3
    <3>2. P(k + 1)
      BY <2>1, <3>1
    <3> HIDE DEF P
    <3> QED
      BY <2>0, <3>2
  <2> QED
    BY <2>2, <2>3
<1>3. P(N)
  <2>1. Good \in SUBSET Nat /\ \A k \in Good : k + 1 \in Good
    BY <1>2
  <2>2. N \in Good
    <3> HIDE DEF Good
    <3> QED
      BY <1>1, <2>1, SetInduction
  <2> HIDE DEF P
  <2> QED
    BY <2>2
<1> QED
  BY <1>3 DEF IsLoop

----------------------------------------------------------------------------
(* Powers of two. *)

\* The recursion of TwoTo.
LEMMA TwoToIs ==
  /\ TwoTo \in [0 .. MaxHeight -> Nat]
  /\ TwoTo[0] = 1
  /\ \A n \in 1 .. MaxHeight : TwoTo[n] = 2 * TwoTo[n - 1]
<1> DEFINE D(f, n) == IF n = 0 THEN 1 ELSE 2 * f[n - 1]
           N == MaxHeight
<1>1. N \in Nat
  BY EpochTreeAssumption
<1> DEFINE step == [n \in 1 .. N |-> [x \in Nat |-> 2 * x]]
<1>2. PICK f : IsLoop(f, N, Nat, 1, step)
  <2>1. step \in [1 .. N -> [Nat -> Nat]] /\ 1 \in Nat
    OBVIOUS
  <2> HIDE DEF step, N
  <2> QED
    BY <1>1, <2>1, Loop, Zenon
<1>3. f = [n \in 0 .. N |-> D(f, n)]
  <2>1. ASSUME NEW n \in 0 .. N PROVE f[n] = D(f, n)
    <3>1. CASE n = 0
      BY <1>2, <3>1 DEF IsLoop
    <3>2. CASE n # 0
      <4>1. n \in 1 .. N /\ n - 1 \in 0 .. N /\ f[n - 1] \in Nat
        BY <1>1, <1>2, <3>2 DEF IsLoop
      <4>2. f[n] = 2 * f[n - 1]
        BY <1>2, <4>1 DEF IsLoop
      <4> QED
        BY <3>2, <4>2
    <3> QED
      BY <3>1, <3>2
  <2> QED
    BY <1>2, <2>1 DEF IsLoop
<1>4. TwoTo = [n \in 0 .. N |-> D(TwoTo, n)]
  <2> HIDE DEF D
  <2>1. \E g : g = [n \in 0 .. N |-> D(g, n)]
    BY <1>3
  <2>2. TwoTo = CHOOSE g : g = [n \in 0 .. N |-> D(g, n)]
    BY DEF TwoTo, D
  <2> QED
    BY <2>1, <2>2
<1>5. TwoTo[0] = 1 /\ \A n \in 1 .. N : TwoTo[n] = 2 * TwoTo[n - 1]
  BY <1>1, <1>4
<1> DEFINE Same == {n \in Nat : n \in 0 .. N => TwoTo[n] \in Nat}
<1>6. 0 \in Same
  BY <1>5
<1>7. ASSUME NEW n \in Same PROVE n + 1 \in Same
  BY <1>1, <1>5
<1>8. Same = Nat
  <2>1. Same \in SUBSET Nat /\ \A n \in Same : n + 1 \in Same
    BY <1>7
  <2> HIDE DEF Same
  <2> QED
    BY <1>6, <2>1, SetInduction
<1>9. \A n \in 0 .. N : TwoTo[n] \in Nat
  BY <1>8
<1> QED
  BY <1>4, <1>5, <1>9
----------------------------------------------------------------------------
(* Loops over digests. *)

\* f gives the digest after each of N steps: each hashes the one before it and
\* another, on the side that is asked for.
IsHashing(f, N, start, tag, bit, other) ==
  f = [n \in 0 .. N |-> IF n = 0 THEN start
                        ELSE IF bit[n] = 0 THEN Keccak256(<<tag, f[n - 1], other[n]>>)
                        ELSE Keccak256(<<tag, other[n], f[n - 1]>>)]

\* It has an outcome.
LEMMA Hashing ==
  ASSUME NEW N \in Nat, NEW start, NEW tag, NEW bit, NEW other
  PROVE  \E f : IsHashing(f, N, start, tag, bit, other)
<1> DEFINE D(f, n) == IF n = 0 THEN start
                        ELSE IF bit[n] = 0 THEN Keccak256(<<tag, f[n - 1], other[n]>>)
                        ELSE Keccak256(<<tag, other[n], f[n - 1]>>)
           P(k) == \E f : f = [j \in 0 .. k |-> D(f, j)]
           Good == {k \in Nat : P(k)}
<1>1. 0 \in Good
  <2> DEFINE f == [j \in 0 .. 0 |-> start]
  <2>1. f = [j \in 0 .. 0 |-> D(f, j)]
    OBVIOUS
  <2>2. P(0)
    BY <2>1
  <2> HIDE DEF P
  <2> QED
    BY <2>2
<1>2. ASSUME NEW k \in Good PROVE k + 1 \in Good
  <2>0. k \in Nat /\ P(k)
    OBVIOUS
  <2>1. PICK f : f = [j \in 0 .. k |-> D(f, j)]
    BY <2>0
  <2> DEFINE g == [j \in 0 .. k + 1 |-> IF j <= k THEN f[j] ELSE D(f, k + 1)]
  <2>2. ASSUME NEW j \in 0 .. k + 1 PROVE g[j] = D(g, j)
    <3>1. j # 0 => g[j - 1] = f[j - 1]
      BY <2>0
    <3>2. D(g, j) = D(f, j)
      <4> HIDE DEF g
      <4> QED
        BY <3>1
    <3>3. CASE j <= k
      <4>1. j \in 0 .. k /\ g[j] = f[j]
        BY <2>0, <3>3
      <4>2. f[j] = D(f, j)
        BY <2>1, <4>1
      <4> HIDE DEF D, g
      <4> QED
        BY <3>2, <4>1, <4>2
    <3>4. CASE j = k + 1
      <4>1. g[j] = D(f, j)
        BY <2>0, <3>4
      <4> HIDE DEF D, g
      <4> QED
        BY <3>2, <4>1
    <3> QED
      BY <2>0, <3>3, <3>4
  <2>3. g = [j \in 0 .. k + 1 |-> D(g, j)]
    <3>1. g = [j \in 0 .. k + 1 |-> g[j]]
      OBVIOUS
    <3> HIDE DEF g, D
    <3> QED
      BY <2>2, <3>1
  <2>4. P(k + 1)
    <3> HIDE DEF g
    <3> QED
      BY <2>3
  <2> HIDE DEF P
  <2> QED
    BY <2>0, <2>4
<1>3. P(N)
  <2>1. Good \in SUBSET Nat /\ \A k \in Good : k + 1 \in Good
    BY <1>2
  <2>2. N \in Good
    <3> HIDE DEF Good
    <3> QED
      BY <1>1, <2>1, SetInduction
  <2> HIDE DEF P
  <2> QED
    BY <2>2
<1> QED
  BY <1>3 DEF IsHashing

\* f gives the level after each of N pairings.
IsPairing(f, N, start) ==
  f = [n \in 0 .. N |-> IF n = 0 THEN start ELSE Parents(f[n - 1])]

\* It has an outcome.
LEMMA Pairing ==
  ASSUME NEW N \in Nat, NEW start
  PROVE  \E f : IsPairing(f, N, start)
<1> DEFINE D(f, n) == IF n = 0 THEN start ELSE Parents(f[n - 1])
           P(k) == \E f : f = [j \in 0 .. k |-> D(f, j)]
           Good == {k \in Nat : P(k)}
<1>1. 0 \in Good
  <2> DEFINE f == [j \in 0 .. 0 |-> start]
  <2>1. f = [j \in 0 .. 0 |-> D(f, j)]
    OBVIOUS
  <2>2. P(0)
    BY <2>1
  <2> HIDE DEF P
  <2> QED
    BY <2>2
<1>2. ASSUME NEW k \in Good PROVE k + 1 \in Good
  <2>0. k \in Nat /\ P(k)
    OBVIOUS
  <2>1. PICK f : f = [j \in 0 .. k |-> D(f, j)]
    BY <2>0
  <2> DEFINE g == [j \in 0 .. k + 1 |-> IF j <= k THEN f[j] ELSE D(f, k + 1)]
  <2>2. ASSUME NEW j \in 0 .. k + 1 PROVE g[j] = D(g, j)
    <3>1. j # 0 => g[j - 1] = f[j - 1]
      BY <2>0
    <3>2. D(g, j) = D(f, j)
      <4> HIDE DEF g
      <4> QED
        BY <3>1
    <3>3. CASE j <= k
      <4>1. j \in 0 .. k /\ g[j] = f[j]
        BY <2>0, <3>3
      <4>2. f[j] = D(f, j)
        BY <2>1, <4>1
      <4> HIDE DEF D, g
      <4> QED
        BY <3>2, <4>1, <4>2
    <3>4. CASE j = k + 1
      <4>1. g[j] = D(f, j)
        BY <2>0, <3>4
      <4> HIDE DEF D, g
      <4> QED
        BY <3>2, <4>1
    <3> QED
      BY <2>0, <3>3, <3>4
  <2>3. g = [j \in 0 .. k + 1 |-> D(g, j)]
    <3>1. g = [j \in 0 .. k + 1 |-> g[j]]
      OBVIOUS
    <3> HIDE DEF g, D
    <3> QED
      BY <2>2, <3>1
  <2>4. P(k + 1)
    <3> HIDE DEF g
    <3> QED
      BY <2>3
  <2> HIDE DEF P
  <2> QED
    BY <2>0, <2>4
<1>3. P(N)
  <2>1. Good \in SUBSET Nat /\ \A k \in Good : k + 1 \in Good
    BY <1>2
  <2>2. N \in Good
    <3> HIDE DEF Good
    <3> QED
      BY <1>1, <2>1, SetInduction
  <2> HIDE DEF P
  <2> QED
    BY <2>2
<1> QED
  BY <1>3 DEF IsPairing

\* One step of it.
LEMMA HashingStep ==
  ASSUME NEW N \in Nat, NEW f, NEW start, NEW tag, NEW bit, NEW other,
         IsHashing(f, N, start, tag, bit, other)
  PROVE  /\ f[0] = start
         /\ \A n \in 1 .. N :
              f[n] = IF bit[n] = 0 THEN Keccak256(<<tag, f[n - 1], other[n]>>)
                     ELSE Keccak256(<<tag, other[n], f[n - 1]>>)
<1> DEFINE D(n) == IF n = 0 THEN start
                   ELSE IF bit[n] = 0 THEN Keccak256(<<tag, f[n - 1], other[n]>>)
                   ELSE Keccak256(<<tag, other[n], f[n - 1]>>)
<1>1. f = [n \in 0 .. N |-> D(n)]
  BY DEF IsHashing
<1>2. \A n \in 0 .. N : f[n] = D(n)
  <2> HIDE DEF D
  <2> QED
    BY <1>1
<1>3. 0 \in 0 .. N /\ \A n \in 1 .. N : n # 0 /\ n \in 0 .. N
  OBVIOUS
<1>4. f[0] = D(0) /\ \A n \in 1 .. N : n # 0 /\ f[n] = D(n)
  <2> HIDE DEF D
  <2> QED
    BY <1>2, <1>3
<1> QED
  BY <1>4

----------------------------------------------------------------------------
(* Digests: Keccak256 is injective and the tags differ. *)

LEMMA NodeInjective ==
  ASSUME NEW a, NEW b, NEW c, NEW d, Node(a, b) = Node(c, d)
  PROVE  a = c /\ b = d
  BY DEF Node, Keccak256

LEMMA NodeIsNoLeaf ==
  ASSUME NEW a, NEW b, NEW c, NEW k, NEW n
  PROVE  Node(a, b) # RealLeaf(c) /\ Node(a, b) # PaddingLeaf(k, n) /\ RealLeaf(c) # PaddingLeaf(k, n)
  BY DEF Node, RealLeaf, PaddingLeaf, Prf, Keccak256

LEMMA LeafInjective ==
  ASSUME NEW a, NEW b, RealLeaf(a) = RealLeaf(b)
  PROVE  a = b
  BY DEF RealLeaf, Keccak256

LEMMA AdvanceInjective ==
  ASSUME NEW a, NEW b, NEW c, NEW d, AdvanceHead(a, b) = AdvanceHead(c, d)
  PROVE  a = c /\ b = d
  BY DEF AdvanceHead, Keccak256

LEMMA GenesisIsNoAdvance ==
  ASSUME NEW a, NEW b, NEW c
  PROVE  AdvanceHead(a, b) # Genesis(c)
  BY DEF AdvanceHead, Genesis, GenesisHead, Keccak256

\* A shift is by a positive number.
LEMMA TwoToPos ==
  ASSUME NEW k \in 0 .. MaxHeight
  PROVE  TwoTo[k] \in Nat /\ TwoTo[k] > 0
<1>0. MaxHeight \in Nat
  BY EpochTreeAssumption
<1> DEFINE Pos == {n \in Nat : n \in 0 .. MaxHeight => TwoTo[n] \in Nat /\ TwoTo[n] > 0}
<1>1. 0 \in Pos
  BY TwoToIs
<1>2. ASSUME NEW n \in Pos PROVE n + 1 \in Pos
  <2> SUFFICES ASSUME n + 1 \in 0 .. MaxHeight PROVE TwoTo[n + 1] \in Nat /\ TwoTo[n + 1] > 0
    OBVIOUS
  <2>1. n + 1 \in 1 .. MaxHeight /\ (n + 1) - 1 = n /\ n \in 0 .. MaxHeight
    BY <1>0
  <2>2. TwoTo[n + 1] = 2 * TwoTo[n]
    BY <2>1, TwoToIs
  <2> QED
    BY <2>1, <2>2
<1>3. Pos = Nat
  <2>1. Pos \in SUBSET Nat /\ \A n \in Pos : n + 1 \in Pos
    BY <1>2
  <2> HIDE DEF Pos
  <2> QED
    BY <1>1, <2>1, SetInduction
<1> QED
  BY <1>3

\* Shifting by one more place halves.
LEMMA Shift ==
  ASSUME NEW slot \in Nat, NEW k \in 1 .. MaxHeight
  PROVE  /\ slot \div TwoTo[k] \in Nat /\ slot \div TwoTo[k - 1] \in Nat
         /\ slot \div TwoTo[k] = (slot \div TwoTo[k - 1]) \div 2
<1>1. k - 1 \in 0 .. MaxHeight
  BY EpochTreeAssumption
<1>2. TwoTo[k - 1] \in Nat /\ TwoTo[k - 1] > 0 /\ TwoTo[k] = 2 * TwoTo[k - 1]
  BY <1>1, TwoToPos, TwoToIs
<1>3. ASSUME NEW p \in Nat, p > 0
      PROVE  /\ slot \div p \in Nat /\ slot \div (2 * p) \in Nat
             /\ slot \div (2 * p) = (slot \div p) \div 2
  BY <1>3
<1> QED
  BY <1>2, <1>3

----------------------------------------------------------------------------
(* Both verifiers climb the same path. *)

\* nd are the nodes of a path from a leaf: the slot's bits give the sides.
IsPath(nd, leaf, slot, siblings, h) ==
  /\ nd[0] = RealLeaf(leaf)
  /\ \A n \in 1 .. h :
       nd[n] = IF (slot \div TwoTo[n - 1]) % 2 = 0 THEN Node(nd[n - 1], siblings[n])
               ELSE Node(siblings[n], nd[n - 1])

\* verifyInclusion reads the bits one by one.
LEMMA PathTs ==
  ASSUME NEW leaf, NEW proof, proof.height \in 0 .. MaxHeight
  PROVE  IsPath(ClimbTs(leaf, proof), leaf, proof.slot_index, proof.siblings, proof.height)
<1> DEFINE h == proof.height
           D(f, n) == IF n = 0 THEN RealLeaf(leaf)
                      ELSE IF (proof.slot_index \div TwoTo[n - 1]) % 2 = 0
                           THEN Node(f[n - 1], proof.siblings[n])
                           ELSE Node(proof.siblings[n], f[n - 1])
           bit == [n \in 1 .. h |-> (proof.slot_index \div TwoTo[n - 1]) % 2]
<1>0. h \in Nat
  BY EpochTreeAssumption
<1>1. PICK f : IsHashing(f, h, RealLeaf(leaf), "CMv1MTN1", bit, proof.siblings)
  BY <1>0, Hashing
<1>2. f = [n \in 0 .. h |-> D(f, n)]
  <2>1. ASSUME NEW n \in 0 .. h PROVE f[n] = D(f, n)
    <3>1. f[0] = RealLeaf(leaf) /\ \A k \in 1 .. h :
            f[k] = IF bit[k] = 0 THEN Node(f[k - 1], proof.siblings[k])
                   ELSE Node(proof.siblings[k], f[k - 1])
      <4> HIDE DEF bit, h
      <4> QED
        BY <1>0, <1>1, HashingStep DEF Node
    <3>2. n = 0 \/ n \in 1 .. h
      BY <1>0
    <3> QED
      BY <3>1, <3>2
  <2>2. f = [n \in 0 .. h |-> f[n]]
    BY <1>1 DEF IsHashing
  <2> HIDE DEF D
  <2> QED
    BY <2>1, <2>2
<1> DEFINE nd == ClimbTs(leaf, proof)
<1>3. nd = CHOOSE g : g = [n \in 0 .. h |-> D(g, n)]
  BY DEF ClimbTs, BitTs
<1>4. nd = [n \in 0 .. h |-> D(nd, n)]
  <2> HIDE DEF D, nd
  <2> QED
    BY <1>2, <1>3
<1> HIDE DEF nd
<1>5. nd[0] = RealLeaf(leaf) /\ \A n \in 1 .. h : nd[n] = D(nd, n)
  BY <1>0, <1>4
<1> QED
  BY <1>0, <1>5 DEF IsPath, nd

\* verify halves the slot on the way.
LEMMA PathRust ==
  ASSUME NEW leaf, NEW proof, Len(proof.siblings) \in 0 .. MaxHeight, proof.slot_index \in Nat
  PROVE  \E nd : /\ IsPath(nd, leaf, proof.slot_index, proof.siblings, Len(proof.siblings))
                 /\ nd[Len(proof.siblings)] = Climb(leaf, proof)[Len(proof.siblings)].node
<1> DEFINE h == Len(proof.siblings)
           slot == proof.slot_index
           Step(at, n) ==
             [node  |-> IF at.index % 2 = 0 THEN Node(at.node, proof.siblings[n])
                        ELSE Node(proof.siblings[n], at.node),
              index |-> at.index \div 2]
           start == [node |-> RealLeaf(leaf), index |-> slot]
           D(f, n) == IF n = 0 THEN start ELSE Step(f[n - 1], n)
           bit == [n \in 1 .. h |-> (slot \div TwoTo[n - 1]) % 2]
<1>0. h \in Nat /\ h <= MaxHeight /\ MaxHeight \in Nat
  BY EpochTreeAssumption
<1>1. PICK nodes : IsHashing(nodes, h, RealLeaf(leaf), "CMv1MTN1", bit, proof.siblings)
  BY <1>0, Hashing
<1> DEFINE f == [n \in 0 .. h |-> [node |-> nodes[n], index |-> slot \div TwoTo[n]]]
<1>2. f = [n \in 0 .. h |-> D(f, n)]
  <2>1. ASSUME NEW n \in 0 .. h PROVE f[n] = D(f, n)
    <3>1. CASE n = 0
      <4>1. slot \div TwoTo[0] = slot
        BY TwoToIs
      <4>2. nodes[0] = RealLeaf(leaf)
        BY <1>0, <1>1 DEF IsHashing
      <4> QED
        BY <1>0, <3>1, <4>1, <4>2
    <3>2. CASE n # 0
      <4>1. n \in 1 .. h /\ n - 1 \in 0 .. h /\ n \in 1 .. MaxHeight
        BY <1>0, <3>2
      <4>2. slot \div TwoTo[n] = (slot \div TwoTo[n - 1]) \div 2
        BY <4>1, Shift
      <4>3. nodes[n] = IF (slot \div TwoTo[n - 1]) % 2 = 0
                       THEN Node(nodes[n - 1], proof.siblings[n])
                       ELSE Node(proof.siblings[n], nodes[n - 1])
        <5>1. \A k \in 1 .. h :
                nodes[k] = IF bit[k] = 0 THEN Node(nodes[k - 1], proof.siblings[k])
                           ELSE Node(proof.siblings[k], nodes[k - 1])
          <6> HIDE DEF bit, h
          <6> QED
            BY <1>0, <1>1, HashingStep DEF Node
        <5> QED
          BY <4>1, <5>1
      <4>4. f[n - 1] = [node |-> nodes[n - 1], index |-> slot \div TwoTo[n - 1]]
        BY <4>1
      <4>5. f[n] = [node |-> nodes[n], index |-> slot \div TwoTo[n]]
        OBVIOUS
      <4> HIDE DEF f
      <4>6. D(f, n) = Step(f[n - 1], n)
        BY <3>2
      <4> QED
        BY <4>2, <4>3, <4>4, <4>5, <4>6
    <3> QED
      BY <3>1, <3>2
  <2>2. f = [n \in 0 .. h |-> f[n]]
    OBVIOUS
  <2> HIDE DEF D, f
  <2> QED
    BY <2>1, <2>2
<1> DEFINE c == Climb(leaf, proof)
<1>3. c = CHOOSE g : g = [n \in 0 .. h |-> D(g, n)]
  BY DEF Climb
<1>4. c = [n \in 0 .. h |-> D(c, n)]
  <2> HIDE DEF D, c, f
  <2> QED
    BY <1>2, <1>3
<1> HIDE DEF c, f
<1> DEFINE Same == {n \in Nat : n <= h => c[n].index = slot \div TwoTo[n]}
<1>5. 0 \in Same
  <2>1. slot \div TwoTo[0] = slot
    BY TwoToIs
  <2>2. c[0] = start
    BY <1>0, <1>4
  <2> QED
    BY <2>1, <2>2
<1>6. ASSUME NEW n \in Same PROVE n + 1 \in Same
  <2> SUFFICES ASSUME n + 1 <= h PROVE c[n + 1].index = slot \div TwoTo[n + 1]
    OBVIOUS
  <2>1. n + 1 \in 0 .. h /\ n + 1 # 0 /\ (n + 1) - 1 = n /\ n + 1 \in 1 .. MaxHeight
    BY <1>0
  <2>2. c[n + 1] = Step(c[n], n + 1)
    <3>1. c[n + 1] = D(c, n + 1)
      <4> HIDE DEF D
      <4> QED
        BY <1>4, <2>1
    <3> HIDE DEF Step
    <3> QED
      BY <2>1, <3>1
  <2>3. slot \div TwoTo[n + 1] = (slot \div TwoTo[n]) \div 2
    BY <2>1, Shift
  <2>4. c[n].index = slot \div TwoTo[n]
    BY <1>0
  <2> QED
    BY <2>2, <2>3, <2>4
<1>7. Same = Nat
  <2>1. Same \in SUBSET Nat /\ \A n \in Same : n + 1 \in Same
    BY <1>6
  <2> HIDE DEF Same
  <2> QED
    BY <1>5, <2>1, SetInduction
<1> DEFINE nd == [n \in 0 .. h |-> c[n].node]
<1>8. nd[0] = RealLeaf(leaf)
  BY <1>0, <1>4
<1>9. ASSUME NEW n \in 1 .. h
      PROVE  nd[n] = IF (slot \div TwoTo[n - 1]) % 2 = 0 THEN Node(nd[n - 1], proof.siblings[n])
                     ELSE Node(proof.siblings[n], nd[n - 1])
  <2>1. n \in 0 .. h /\ n - 1 \in 0 .. h /\ n # 0 /\ n - 1 \in Nat /\ n - 1 <= h
    BY <1>0
  <2>2. c[n] = Step(c[n - 1], n)
    BY <1>4, <2>1
  <2>3. c[n - 1].index = slot \div TwoTo[n - 1]
    BY <1>7, <2>1
  <2>4. nd[n] = c[n].node /\ nd[n - 1] = c[n - 1].node
    BY <2>1
  <2> HIDE DEF nd
  <2> QED
    BY <2>2, <2>3, <2>4
<1>10. nd[h] = c[h].node
  BY <1>0
<1> HIDE DEF nd
<1>11. IsPath(nd, leaf, slot, proof.siblings, h)
  BY <1>8, <1>9 DEF IsPath
<1> QED
  BY <1>10, <1>11 DEF c

\* A path is determined by its leaf, its slot and its siblings.
LEMMA PathUnique ==
  ASSUME NEW a, NEW b, NEW leaf, NEW slot, NEW siblings, NEW h \in Nat,
         IsPath(a, leaf, slot, siblings, h), IsPath(b, leaf, slot, siblings, h)
  PROVE  a[h] = b[h]
<1> DEFINE Same == {n \in Nat : n <= h => a[n] = b[n]}
<1>1. 0 \in Same
  BY DEF IsPath
<1>2. ASSUME NEW n \in Same PROVE n + 1 \in Same
  <2> SUFFICES ASSUME n + 1 <= h PROVE a[n + 1] = b[n + 1]
    OBVIOUS
  <2>1. n + 1 \in 1 .. h /\ (n + 1) - 1 = n /\ a[n] = b[n]
    OBVIOUS
  <2> QED
    BY <2>1 DEF IsPath
<1>3. h \in Same
  <2>1. Same \in SUBSET Nat /\ \A n \in Same : n + 1 \in Same
    BY <1>2
  <2> HIDE DEF Same
  <2> QED
    BY <1>1, <2>1, SetInduction
<1> QED
  BY <1>3

\* proof.rs and tree.ts: the two verifiers give the same answer for every leaf,
\* proof and root, although one halves the slot as it climbs and the other
\* shifts it anew at every level.
THEOREM VerifiersAgree ==
  ASSUME NEW leaf, NEW proof, NEW root, proof.slot_index \in Nat
  PROVE  Verify(leaf, proof, root) = VerifyTs(leaf, proof, root)
<1>1. CASE ~WellFormed(proof)
  BY <1>1 DEF Verify, VerifyTs
<1>2. CASE WellFormed(proof)
  <2>1. Len(proof.siblings) = proof.height /\ proof.height \in 0 .. MaxHeight /\ proof.height \in Nat
    BY <1>2, EpochTreeAssumption DEF WellFormed
  <2>2. PICK nd : /\ IsPath(nd, leaf, proof.slot_index, proof.siblings, proof.height)
                  /\ nd[proof.height] = Climb(leaf, proof)[Len(proof.siblings)].node
    BY <2>1, PathRust
  <2>3. nd[proof.height] = ClimbTs(leaf, proof)[proof.height]
    BY <2>1, <2>2, PathTs, PathUnique
  <2> QED
    BY <2>2, <2>3 DEF Verify, VerifyTs
<1> QED
  BY <1>1, <1>2

----------------------------------------------------------------------------
(* The levels of a tree. *)

\* Levels that halve, and a node is over the two below it.
AreLevels(lv, leaves, h) ==
  /\ lv[0] = leaves
  /\ \A k \in 0 .. h : Len(lv[k]) = TwoTo[h - k] /\ DOMAIN lv[k] = 1 .. TwoTo[h - k]
  /\ \A k \in 1 .. h : lv[k] = Parents(lv[k - 1])
  /\ \A k \in 1 .. h : \A i \in 1 .. TwoTo[h - k] :
       lv[k][i] = Node(lv[k - 1][2 * i - 1], lv[k - 1][2 * i])

\* Levels gives such levels.
LEMMA LevelsAre ==
  ASSUME NEW h \in 0 .. MaxHeight, NEW leaves, Len(leaves) = TwoTo[h],
         DOMAIN leaves = 1 .. TwoTo[h]
  PROVE  AreLevels(Levels(leaves, h), leaves, h)
<1> DEFINE lv == Levels(leaves, h)
           D(f, n) == IF n = 0 THEN leaves ELSE Parents(f[n - 1])
<1>0. h \in Nat /\ h <= MaxHeight /\ MaxHeight \in Nat
  BY EpochTreeAssumption
<1>1. PICK f : IsPairing(f, h, leaves)
  BY <1>0, Pairing
<1>2. f = [n \in 0 .. h |-> D(f, n)]
  BY <1>1 DEF IsPairing
<1>3. lv = CHOOSE g : g = [n \in 0 .. h |-> D(g, n)]
  BY DEF Levels
<1>4. lv = [n \in 0 .. h |-> D(lv, n)]
  <2> HIDE DEF D, lv
  <2> QED
    BY <1>2, <1>3
<1> HIDE DEF lv
<1>5. lv[0] = leaves /\ \A k \in 1 .. h : lv[k] = Parents(lv[k - 1])
  <2>1. \A n \in 0 .. h : lv[n] = D(lv, n)
    <3> HIDE DEF D
    <3> QED
      BY <1>4
  <2>2. 0 \in 0 .. h /\ \A n \in 1 .. h : n # 0 /\ n \in 0 .. h
    BY <1>0
  <2>3. lv[0] = D(lv, 0) /\ \A n \in 1 .. h : n # 0 /\ lv[n] = D(lv, n)
    <3> HIDE DEF D
    <3> QED
      BY <2>1, <2>2
  <2> QED
    BY <2>3
<1> DEFINE Fits(k) == Len(lv[k]) = TwoTo[h - k] /\ DOMAIN lv[k] = 1 .. TwoTo[h - k]
           Sized == {k \in Nat : k <= h => Fits(k)}
<1>6. 0 \in Sized
  BY <1>0, <1>5
<1>7. ASSUME NEW k \in Sized PROVE k + 1 \in Sized
  <2> SUFFICES ASSUME k + 1 <= h PROVE Fits(k + 1)
    OBVIOUS
  <2>1. /\ k + 1 \in 1 .. h /\ (k + 1) - 1 = k /\ h - k \in 1 .. MaxHeight
        /\ (h - k) - 1 = h - (k + 1) /\ h - (k + 1) \in 0 .. MaxHeight
    BY <1>0
  <2>2. lv[k + 1] = Parents(lv[k])
    BY <1>5, <2>1
  <2>3. Len(lv[k]) = TwoTo[h - k] /\ TwoTo[h - k] = 2 * TwoTo[h - (k + 1)]
    BY <1>0, <2>1, TwoToIs
  <2>4. TwoTo[h - (k + 1)] \in Nat
    BY <2>1, TwoToPos
  <2>5. Len(lv[k]) \in Nat /\ Len(lv[k]) \div 2 = TwoTo[h - (k + 1)]
    BY <2>3, <2>4
  <2>6. ASSUME NEW l, Len(l) \in Nat
        PROVE  Len(Parents(l)) = Len(l) \div 2 /\ DOMAIN Parents(l) = 1 .. (Len(l) \div 2)
    BY <2>6 DEF Parents
  <2>7. Len(lv[k + 1]) = Len(lv[k]) \div 2 /\ DOMAIN lv[k + 1] = 1 .. (Len(lv[k]) \div 2)
    BY <2>2, <2>5, <2>6
  <2> QED
    BY <2>5, <2>7
<1>8. Sized = Nat
  <2>1. Sized \in SUBSET Nat /\ \A n \in Sized : n + 1 \in Sized
    BY <1>7
  <2> HIDE DEF Sized
  <2> QED
    BY <1>6, <2>1, SetInduction
<1>9. ASSUME NEW k \in 0 .. h PROVE Fits(k)
  <2>1. k \in Nat /\ k <= h
    BY <1>0
  <2> HIDE DEF Fits
  <2> QED
    BY <1>8, <2>1
<1>10. ASSUME NEW k \in 1 .. h, NEW i \in 1 .. TwoTo[h - k]
       PROVE  lv[k][i] = Node(lv[k - 1][2 * i - 1], lv[k - 1][2 * i])
  <2>1. k \in 0 .. h /\ h - k \in 0 .. MaxHeight
    BY <1>0
  <2>2. i \in DOMAIN lv[k]
    BY <1>9, <2>1
  <2>3. lv[k] = Parents(lv[k - 1])
    BY <1>5
  <2> QED
    BY <2>2, <2>3 DEF Parents
<1> QED
  BY <1>5, <1>9, <1>10 DEF AreLevels, lv

\* How far up a path has come, the slot has been halved, and where it stands
\* below the top is bounded by the width there.
LEMMA ShiftBound ==
  ASSUME NEW h \in 0 .. MaxHeight, NEW slot \in Nat, slot < TwoTo[h], NEW k \in 0 .. h
  PROVE  slot \div TwoTo[k] \in Nat /\ slot \div TwoTo[k] < TwoTo[h - k]
<1>0. h \in Nat /\ h <= MaxHeight /\ MaxHeight \in Nat
  BY EpochTreeAssumption
<1> DEFINE Fits == {n \in Nat : n <= h => slot \div TwoTo[n] \in Nat /\ slot \div TwoTo[n] < TwoTo[h - n]}
<1>1. 0 \in Fits
  <2>1. slot \div TwoTo[0] = slot /\ h - 0 = h
    BY <1>0, TwoToIs
  <2> QED
    BY <2>1
<1>2. ASSUME NEW n \in Fits PROVE n + 1 \in Fits
  <2> SUFFICES ASSUME n + 1 <= h
               PROVE  slot \div TwoTo[n + 1] \in Nat /\ slot \div TwoTo[n + 1] < TwoTo[h - (n + 1)]
    OBVIOUS
  <2>1. /\ n + 1 \in 1 .. MaxHeight /\ (n + 1) - 1 = n /\ h - n \in 1 .. MaxHeight
        /\ (h - n) - 1 = h - (n + 1) /\ h - (n + 1) \in 0 .. MaxHeight
    BY <1>0
  <2>2. slot \div TwoTo[n + 1] \in Nat /\ slot \div TwoTo[n + 1] = (slot \div TwoTo[n]) \div 2
    BY <2>1, Shift
  <2>3. TwoTo[h - n] = 2 * TwoTo[h - (n + 1)] /\ TwoTo[h - (n + 1)] \in Nat
    BY <2>1, TwoToIs, TwoToPos
  <2>4. slot \div TwoTo[n] \in Nat /\ slot \div TwoTo[n] < TwoTo[h - n]
    BY <1>0
  <2> QED
    BY <2>2, <2>3, <2>4
<1>3. Fits = Nat
  <2>1. Fits \in SUBSET Nat /\ \A n \in Fits : n + 1 \in Fits
    BY <1>2
  <2> HIDE DEF Fits
  <2> QED
    BY <1>1, <2>1, SetInduction
<1>4. k \in Nat /\ k <= h
  BY <1>0
<1> QED
  BY <1>3, <1>4

----------------------------------------------------------------------------
(* Paths in a tree. *)

\* leaves could be the leaves of a tree: as many as there are slots, and none
\* of them a node.
AreLeaves(leaves, H) ==
  /\ H \in 0 .. MaxHeight
  /\ Len(leaves) = TwoTo[H] /\ DOMAIN leaves = 1 .. TwoTo[H]
  /\ \A n \in 1 .. TwoTo[H] : \A a, b : leaves[n] # Node(a, b)

\* The levels of a tree of such leaves.
LEMMA LeavesHaveLevels ==
  ASSUME NEW H, NEW leaves, AreLeaves(leaves, H)
  PROVE  AreLevels(Levels(leaves, H), leaves, H)
<1>1. H \in 0 .. MaxHeight /\ Len(leaves) = TwoTo[H] /\ DOMAIN leaves = 1 .. TwoTo[H]
  BY DEF AreLeaves
<1> QED
  BY <1>1, LevelsAre

\* A path that ends in the root runs through the tree's own nodes: from the top,
\* level by level, as far as both go.
LEMMA Descent ==
  ASSUME NEW H, NEW leaves, AreLeaves(leaves, H), NEW h \in 0 .. MaxHeight,
         NEW nd, NEW leaf, NEW siblings, NEW slot \in Nat, slot < TwoTo[h],
         IsPath(nd, leaf, slot, siblings, h), nd[h] = Levels(leaves, H)[H][1],
         NEW j \in Nat, j <= h, j <= H
  PROVE  nd[h - j] = Levels(leaves, H)[H - j][(slot \div TwoTo[h - j]) + 1]
<1> DEFINE lv == Levels(leaves, H)
           q(k) == slot \div TwoTo[k]
           Down == {i \in Nat : i <= h /\ i <= H => nd[h - i] = lv[H - i][q(h - i) + 1]}
<1>0. h \in Nat /\ H \in Nat /\ MaxHeight \in Nat /\ h <= MaxHeight /\ H <= MaxHeight
  BY EpochTreeAssumption DEF AreLeaves
<1>1. \A k \in 1 .. H : \A i \in 1 .. TwoTo[H - k] : lv[k][i] = Node(lv[k - 1][2 * i - 1], lv[k - 1][2 * i])
  <2>1. AreLevels(lv, leaves, H)
    BY LeavesHaveLevels
  <2> HIDE DEF lv
  <2> QED
    BY <2>1 DEF AreLevels
<1> HIDE DEF lv
<1>2. 0 \in Down
  <2>1. q(h) \in Nat /\ q(h) < TwoTo[h - h]
    BY <1>0, ShiftBound
  <2>2. q(h) = 0
    BY <1>0, <2>1, TwoToIs
  <2>3. h - 0 = h /\ H - 0 = H
    BY <1>0
  <2> QED
    BY <2>2, <2>3 DEF lv
<1>3. ASSUME NEW i \in Down PROVE i + 1 \in Down
  <2> SUFFICES ASSUME i + 1 <= h, i + 1 <= H
               PROVE  nd[h - (i + 1)] = lv[H - (i + 1)][q(h - (i + 1)) + 1]
    OBVIOUS
  <2> DEFINE m == h - i
             k == H - i
  <2>1. /\ m \in 1 .. h /\ m \in 1 .. MaxHeight /\ m - 1 = h - (i + 1)
        /\ k \in 1 .. H /\ k - 1 = H - (i + 1) /\ m \in 0 .. h /\ H - k = i /\ h - m = i
    BY <1>0
  <2>2. nd[m] = lv[k][q(m) + 1]
    BY <1>0
  <2>3. q(m) \in Nat /\ q(m - 1) \in Nat /\ q(m) = q(m - 1) \div 2
    BY <2>1, Shift
  <2>4. q(m) < TwoTo[i]
    BY <2>1, ShiftBound
  <2>5. TwoTo[i] \in Nat
    BY <1>0, TwoToPos
  <2> HIDE DEF q, m, k
  <2>6. q(m) + 1 \in 1 .. TwoTo[H - k]
    BY <2>1, <2>3, <2>4, <2>5
  <2>7. nd[m] = Node(lv[k - 1][2 * (q(m) + 1) - 1], lv[k - 1][2 * (q(m) + 1)])
    BY <1>1, <2>1, <2>2, <2>6
  <2>8. nd[m] = IF q(m - 1) % 2 = 0 THEN Node(nd[m - 1], siblings[m]) ELSE Node(siblings[m], nd[m - 1])
    BY <2>1 DEF IsPath, q
  <2>9. CASE q(m - 1) % 2 = 0
    <3>1. 2 * (q(m) + 1) - 1 = q(m - 1) + 1
      BY <2>3, <2>9
    <3>2. Node(nd[m - 1], siblings[m]) = Node(lv[k - 1][q(m - 1) + 1], lv[k - 1][2 * (q(m) + 1)])
      BY <2>7, <2>8, <2>9, <3>1
    <3>3. nd[m - 1] = lv[k - 1][q(m - 1) + 1]
      BY <3>2, NodeInjective
    <3> QED
      BY <2>1, <3>3
  <2>10. CASE q(m - 1) % 2 # 0
    <3>1. 2 * (q(m) + 1) = q(m - 1) + 1
      BY <2>3, <2>10
    <3>2. Node(siblings[m], nd[m - 1]) = Node(lv[k - 1][2 * (q(m) + 1) - 1], lv[k - 1][q(m - 1) + 1])
      BY <2>7, <2>8, <2>10, <3>1
    <3>3. nd[m - 1] = lv[k - 1][q(m - 1) + 1]
      BY <3>2, NodeInjective
    <3> QED
      BY <2>1, <3>3
  <2> QED
    BY <2>9, <2>10
<1>4. j \in Down
  <2>1. Down \in SUBSET Nat /\ \A n \in Down : n + 1 \in Down
    BY <1>3
  <2> HIDE DEF Down
  <2> QED
    BY <1>2, <2>1, SetInduction
<1> QED
  BY <1>4 DEF lv

\* So it has the tree's height, and its leaf is in the slot it names.
LEMMA PathIsSound ==
  ASSUME NEW H, NEW leaves, AreLeaves(leaves, H), NEW h \in 0 .. MaxHeight,
         NEW nd, NEW leaf, NEW siblings, NEW slot \in Nat, slot < TwoTo[h],
         IsPath(nd, leaf, slot, siblings, h), nd[h] = Levels(leaves, H)[H][1]
  PROVE  h = H /\ leaves[slot + 1] = RealLeaf(leaf)
<1> DEFINE lv == Levels(leaves, H)
<1>0. h \in Nat /\ H \in Nat /\ MaxHeight \in Nat /\ h <= MaxHeight /\ H <= MaxHeight
  BY EpochTreeAssumption DEF AreLeaves
<1>1. /\ lv[0] = leaves
      /\ \A k \in 1 .. H : \A i \in 1 .. TwoTo[H - k] :
           lv[k][i] = Node(lv[k - 1][2 * i - 1], lv[k - 1][2 * i])
  <2>1. AreLevels(lv, leaves, H)
    BY LeavesHaveLevels
  <2> HIDE DEF lv
  <2> QED
    BY <2>1 DEF AreLevels
<1>2. \A j \in Nat : j <= h /\ j <= H => nd[h - j] = lv[H - j][(slot \div TwoTo[h - j]) + 1]
  BY Descent
<1> HIDE DEF lv
<1>3. nd[0] = RealLeaf(leaf)
  BY DEF IsPath
<1>4. slot \div TwoTo[0] = slot
  BY TwoToIs
<1>5. CASE h < H
  <2>1. h \in Nat /\ h <= H /\ h - h = 0 /\ H - h \in 1 .. H /\ H - (H - h) = h
    BY <1>0, <1>5
  <2>2. nd[0] = lv[H - h][slot + 1]
    BY <1>2, <1>4, <2>1
  <2>3. slot + 1 \in 1 .. TwoTo[h]
    BY TwoToPos
  <2>4. nd[0] = Node(lv[(H - h) - 1][2 * (slot + 1) - 1], lv[(H - h) - 1][2 * (slot + 1)])
    BY <1>1, <2>1, <2>2, <2>3
  <2> QED
    BY <1>3, <2>4, NodeIsNoLeaf
<1>6. CASE h > H
  <2> DEFINE m == h - H
             q(k) == slot \div TwoTo[k]
  <2>1. m \in 1 .. h /\ m \in 0 .. h /\ H - H = 0 /\ h - m = H
    BY <1>0, <1>6
  <2>2. nd[m] = leaves[q(m) + 1]
    BY <1>0, <1>1, <1>2, <1>6, <2>1
  <2>3. q(m) \in Nat /\ q(m) < TwoTo[H]
    BY <2>1, ShiftBound
  <2>4. TwoTo[H] \in Nat /\ q(m) + 1 \in 1 .. TwoTo[H]
    BY <2>3, TwoToPos DEF AreLeaves
  <2>5. \E a, b : nd[m] = Node(a, b)
    BY <2>1 DEF IsPath
  <2> QED
    BY <2>2, <2>4, <2>5 DEF AreLeaves
<1>7. CASE h = H
  <2>1. nd[h - h] = lv[H - h][(slot \div TwoTo[h - h]) + 1]
    BY <1>0, <1>2, <1>7
  <2>2. h - h = 0 /\ H - h = 0
    BY <1>0, <1>7
  <2>3. nd[0] = leaves[slot + 1]
    BY <1>1, <1>4, <2>1, <2>2
  <2> QED
    BY <1>3, <1>7, <2>3
<1> QED
  BY <1>0, <1>5, <1>6, <1>7

\* siblings are the neighbours of a slot's path, from the leaf's up.
AreSiblings(siblings, leaves, H, slot) ==
  \A n \in 1 .. H : siblings[n] = Levels(leaves, H)[n - 1][Sibling(slot \div TwoTo[n - 1]) + 1]

\* A path whose siblings are the tree's ends in the root.
LEMMA PathIsComplete ==
  ASSUME NEW H, NEW leaves, AreLeaves(leaves, H), NEW slot \in Nat, slot < TwoTo[H],
         NEW leaf, leaves[slot + 1] = RealLeaf(leaf), NEW siblings,
         AreSiblings(siblings, leaves, H, slot),
         NEW nd, IsPath(nd, leaf, slot, siblings, H)
  PROVE  nd[H] = Levels(leaves, H)[H][1]
<1> DEFINE lv == Levels(leaves, H)
           q(k) == slot \div TwoTo[k]
           Up == {i \in Nat : i <= H => nd[i] = lv[i][q(i) + 1]}
<1>0. H \in Nat /\ MaxHeight \in Nat /\ H <= MaxHeight /\ H \in 0 .. MaxHeight
  BY EpochTreeAssumption DEF AreLeaves
<1>1. /\ lv[0] = leaves
      /\ \A k \in 1 .. H : \A i \in 1 .. TwoTo[H - k] :
           lv[k][i] = Node(lv[k - 1][2 * i - 1], lv[k - 1][2 * i])
  <2>1. AreLevels(lv, leaves, H)
    BY LeavesHaveLevels
  <2> HIDE DEF lv
  <2> QED
    BY <2>1 DEF AreLevels
<1> HIDE DEF lv
<1>2. 0 \in Up
  <2>1. q(0) = slot
    BY TwoToIs
  <2> QED
    BY <1>1, <2>1 DEF IsPath
<1>3. ASSUME NEW i \in Up PROVE i + 1 \in Up
  <2> SUFFICES ASSUME i + 1 <= H PROVE nd[i + 1] = lv[i + 1][q(i + 1) + 1]
    OBVIOUS
  <2>1. i + 1 \in 1 .. H /\ i + 1 \in 1 .. MaxHeight /\ i + 1 \in 0 .. H /\ (i + 1) - 1 = i
    BY <1>0
  <2>2. nd[i] = lv[i][q(i) + 1]
    BY <1>0
  <2>3. q(i) \in Nat /\ q(i + 1) \in Nat /\ q(i + 1) = q(i) \div 2
    BY <2>1, Shift
  <2>4. q(i + 1) < TwoTo[H - (i + 1)]
    BY <1>0, <2>1, ShiftBound
  <2>5. TwoTo[H - (i + 1)] \in Nat
    BY <1>0, <2>1, TwoToPos
  <2>6. siblings[i + 1] = lv[i][Sibling(q(i)) + 1]
    BY <2>1 DEF AreSiblings, lv
  <2>7. nd[i + 1] = IF q(i) % 2 = 0 THEN Node(nd[i], siblings[i + 1]) ELSE Node(siblings[i + 1], nd[i])
    BY <2>1 DEF IsPath
  <2> HIDE DEF q
  <2>8. q(i + 1) + 1 \in 1 .. TwoTo[H - (i + 1)]
    BY <2>3, <2>4, <2>5
  <2>9. lv[i + 1][q(i + 1) + 1] = Node(lv[i][2 * (q(i + 1) + 1) - 1], lv[i][2 * (q(i + 1) + 1)])
    BY <1>1, <2>1, <2>8
  <2>10. CASE q(i) % 2 = 0
    <3>1. 2 * (q(i + 1) + 1) - 1 = q(i) + 1 /\ 2 * (q(i + 1) + 1) = Sibling(q(i)) + 1
      BY <2>3, <2>10 DEF Sibling
    <3> QED
      BY <2>2, <2>6, <2>7, <2>9, <2>10, <3>1
  <2>11. CASE q(i) % 2 # 0
    <3>1. 2 * (q(i + 1) + 1) = q(i) + 1 /\ 2 * (q(i + 1) + 1) - 1 = Sibling(q(i)) + 1
      BY <2>3, <2>11 DEF Sibling
    <3> QED
      BY <2>2, <2>6, <2>7, <2>9, <2>11, <3>1
  <2> QED
    BY <2>10, <2>11
<1>4. H \in Up
  <2>1. Up \in SUBSET Nat /\ \A n \in Up : n + 1 \in Up
    BY <1>3
  <2> HIDE DEF Up
  <2> QED
    BY <1>0, <1>2, <2>1, SetInduction
<1>5. nd[H] = lv[H][q(H) + 1]
  BY <1>0, <1>4
<1>6. q(H) \in Nat /\ q(H) < TwoTo[H - H]
  BY <1>0, ShiftBound
<1>7. q(H) = 0
  BY <1>0, <1>6, TwoToIs
<1> QED
  BY <1>5, <1>7 DEF lv

----------------------------------------------------------------------------
(* The nodes in one row, as tree.rs keeps them. *)

\* Shifting a power of two gives a power of two.
LEMMA TwoToShifted ==
  ASSUME NEW H \in 0 .. MaxHeight, NEW k \in 0 .. H
  PROVE  TwoTo[H] \div TwoTo[k] = TwoTo[H - k]
<1>0. H \in Nat /\ H <= MaxHeight /\ MaxHeight \in Nat /\ TwoTo[H] \in Nat
  BY EpochTreeAssumption, TwoToPos
<1> DEFINE Fits == {n \in Nat : n <= H => TwoTo[H] \div TwoTo[n] = TwoTo[H - n]}
<1>1. 0 \in Fits
  <2>1. TwoTo[H] \div TwoTo[0] = TwoTo[H] /\ H - 0 = H
    BY <1>0, TwoToIs
  <2> QED
    BY <2>1
<1>2. ASSUME NEW n \in Fits PROVE n + 1 \in Fits
  <2> SUFFICES ASSUME n + 1 <= H PROVE TwoTo[H] \div TwoTo[n + 1] = TwoTo[H - (n + 1)]
    OBVIOUS
  <2>1. /\ n + 1 \in 1 .. MaxHeight /\ (n + 1) - 1 = n /\ H - n \in 1 .. MaxHeight
        /\ (H - n) - 1 = H - (n + 1) /\ H - (n + 1) \in 0 .. MaxHeight
    BY <1>0
  <2>2. TwoTo[H] \div TwoTo[n + 1] = (TwoTo[H] \div TwoTo[n]) \div 2
    BY <1>0, <2>1, Shift
  <2>3. TwoTo[H - n] = 2 * TwoTo[H - (n + 1)] /\ TwoTo[H - (n + 1)] \in Nat
    BY <2>1, TwoToIs, TwoToPos
  <2>4. TwoTo[H] \div TwoTo[n] = TwoTo[H - n]
    BY <1>0
  <2> QED
    BY <2>2, <2>3, <2>4
<1>3. Fits = Nat
  <2>1. Fits \in SUBSET Nat /\ \A n \in Fits : n + 1 \in Fits
    BY <1>2
  <2> HIDE DEF Fits
  <2> QED
    BY <1>1, <2>1, SetInduction
<1>4. k \in Nat /\ k <= H
  BY <1>0
<1> QED
  BY <1>3, <1>4

\* Two sequences, one behind the other.
LEMMA Concatenated ==
  ASSUME NEW X, NEW s \in Seq(X), NEW t \in Seq(X)
  PROVE  /\ Len(s) \in Nat /\ Len(t) \in Nat /\ Len(s \o t) = Len(s) + Len(t)
         /\ \A i \in 1 .. Len(s) : (s \o t)[i] = s[i]
         /\ \A i \in 1 .. Len(t) : (s \o t)[Len(s) + i] = t[i]
  OBVIOUS

\* f[n] are the first n sequences, one behind the other.
IsFlattening(f, N, X, seqs) ==
  /\ f[N] = FlattenSeq(seqs)
  /\ f \in [0 .. N -> Seq(X)] /\ f[0] = <<>>
  /\ \A n \in 1 .. N : f[n] = f[n - 1] \o seqs[n]

\* FlattenSeq is the last of them.
LEMMA FlattenIs ==
  ASSUME NEW X, NEW N \in Nat, N > 0, NEW seqs \in [1 .. N -> Seq(X)]
  PROVE  \E f : IsFlattening(f, N, X, seqs)
<1> DEFINE step == [n \in 1 .. N |-> [s \in Seq(X) |-> s \o seqs[n]]]
<1>1. step \in [1 .. N -> [Seq(X) -> Seq(X)]] /\ <<>> \in Seq(X)
  OBVIOUS
<1>2. PICK f : IsLoop(f, N, Seq(X), <<>>, step)
  <2> HIDE DEF step
  <2> QED
    BY <1>1, Loop
<1>3. /\ f \in [0 .. N -> Seq(X)] /\ f[0] = <<>>
      /\ \A n \in 1 .. N : n - 1 \in 0 .. N /\ f[n] = f[n - 1] \o seqs[n]
  <2>1. f \in [0 .. N -> Seq(X)] /\ f[0] = <<>>
    BY <1>2 DEF IsLoop
  <2>2. ASSUME NEW n \in 1 .. N PROVE n - 1 \in 0 .. N /\ f[n] = f[n - 1] \o seqs[n]
    <3>1. n - 1 \in 0 .. N /\ f[n] = step[n][f[n - 1]]
      <4> HIDE DEF step
      <4> QED
        BY <1>2, SMTT(20) DEF IsLoop
    <3>2. f[n - 1] \in Seq(X)
      BY <2>1, <3>1
    <3>3. step[n][f[n - 1]] = f[n - 1] \o seqs[n]
      BY <3>2
    <3> QED
      BY <3>1, <3>3
  <2> QED
    BY <2>1, <2>2
<1> HIDE DEF step
<1>12. f[1] = <<>> \o seqs[1] /\ seqs[1] \in Seq(X) /\ f[1] = seqs[1]
  <2>1. 1 \in 1 .. N /\ 1 - 1 = 0
    OBVIOUS
  <2>2. f[1] = f[0] \o seqs[1] /\ seqs[1] \in Seq(X)
    BY <1>3, <2>1
  <2> QED
    BY <1>3, <2>2
<1> DEFINE D(g, n) == IF n = 1 THEN seqs[n] ELSE g[n - 1] \o seqs[n]
           e == [n \in 1 .. N |-> f[n]]
<1>4. e = [n \in 1 .. N |-> D(e, n)]
  <2>1. ASSUME NEW n \in 1 .. N PROVE f[n] = D(e, n)
    <3>1. CASE n = 1
      BY <1>12, <3>1
    <3>2. CASE n # 1
      <4>1. n - 1 \in 1 .. N /\ e[n - 1] = f[n - 1]
        BY <3>2
      <4> QED
        BY <1>3, <3>2, <4>1
    <3> QED
      BY <3>1, <3>2
  <2> HIDE DEF D
  <2> QED
    BY <2>1
<1> DEFINE flat == CHOOSE g : g = [n \in 1 .. N |-> D(g, n)]
<1>5. flat = [n \in 1 .. N |-> D(flat, n)]
  <2> HIDE DEF D, e
  <2> QED
    BY <1>4
<1>6. Len(seqs) = N
  OBVIOUS
<1>7. FlattenSeq(seqs) = flat[N]
  BY <1>6 DEF FlattenSeq
<1> HIDE DEF flat
<1> DEFINE Same == {n \in Nat : n \in 1 .. N => flat[n] = f[n]}
<1>8. 0 \in Same
  OBVIOUS
<1>9. ASSUME NEW n \in Same PROVE n + 1 \in Same
  <2> SUFFICES ASSUME n + 1 \in 1 .. N PROVE flat[n + 1] = f[n + 1]
    OBVIOUS
  <2>0. (n + 1) - 1 = n
    OBVIOUS
  <2>1. flat[n + 1] = D(flat, n + 1)
    <3> HIDE DEF D
    <3> QED
      BY <1>5
  <2>2. f[n + 1] = f[n] \o seqs[n + 1]
    BY <1>3, <2>0
  <2>3. CASE n = 0
    BY <1>12, <2>1, <2>3
  <2>4. CASE n # 0
    <3>1. n \in 1 .. N /\ n + 1 # 1
      BY <2>4
    <3> QED
      BY <2>0, <2>1, <2>2, <3>1
  <2> QED
    BY <2>3, <2>4
<1>10. Same = Nat
  <2>1. Same \in SUBSET Nat /\ \A n \in Same : n + 1 \in Same
    BY <1>9
  <2> HIDE DEF Same
  <2> QED
    BY <1>8, <2>1, SetInduction
<1>11. flat[N] = f[N]
  BY <1>10
<1> QED
  BY <1>3, <1>7, <1>11 DEF IsFlattening

\* Level k begins behind all the levels below it, and the root is the last node.
LEMMA NodesAre ==
  ASSUME NEW H \in 1 .. MaxHeight, NEW leaves, AreLeaves(leaves, H)
  PROVE  /\ Len(LevelsAbove(leaves, H)) = TwoTo[H] - 1
         /\ DOMAIN LevelsAbove(leaves, H) = 1 .. TwoTo[H] - 1
         /\ Last(LevelsAbove(leaves, H)) = Levels(leaves, H)[H][1]
         /\ \A k \in 1 .. H : \A i \in 1 .. TwoTo[H - k] :
              /\ LevelOffset(k, TwoTo[H]) + i \in 1 .. TwoTo[H] - 1
              /\ LevelsAbove(leaves, H)[LevelOffset(k, TwoTo[H]) + i] = Levels(leaves, H)[k][i]
<1> DEFINE lv == Levels(leaves, H)
           X == UNION {{lv[k][i] : i \in DOMAIN lv[k]} : k \in 1 .. H}
           seqs == [k \in 1 .. H |-> lv[k]]
           nodes == LevelsAbove(leaves, H)
<1>0. H \in Nat /\ H > 0 /\ MaxHeight \in Nat /\ H <= MaxHeight /\ H \in 0 .. MaxHeight
  BY EpochTreeAssumption
<1>1. /\ \A k \in 0 .. H : Len(lv[k]) = TwoTo[H - k] /\ DOMAIN lv[k] = 1 .. TwoTo[H - k]
      /\ \A k \in 1 .. H : lv[k] = Parents(lv[k - 1])
  <2>1. Len(leaves) = TwoTo[H] /\ DOMAIN leaves = 1 .. TwoTo[H]
    BY DEF AreLeaves
  <2>2. AreLevels(lv, leaves, H)
    BY <1>0, <2>1, LevelsAre
  <2> QED
    BY <2>2 DEF AreLevels
<1> HIDE DEF lv
<1>2. \A k \in 0 .. H : H - k \in 0 .. MaxHeight /\ TwoTo[H - k] \in Nat /\ TwoTo[H - k] > 0
  BY <1>0, TwoToPos
<1>3. ASSUME NEW k \in 1 .. H PROVE lv[k] \in Seq(X)
  <2>1. k \in 0 .. H /\ TwoTo[H - k] \in Nat /\ DOMAIN lv[k] = 1 .. TwoTo[H - k]
    BY <1>0, <1>1, <1>2
  <2>2. \A i \in DOMAIN lv[k] : lv[k][i] \in X
    OBVIOUS
  <2>3. lv[k] = [i \in DOMAIN lv[k] |-> lv[k][i]]
    BY <1>1 DEF Parents
  <2> HIDE DEF X
  <2> QED
    BY <2>1, <2>2, <2>3
<1>4. seqs \in [1 .. H -> Seq(X)]
  <2> HIDE DEF X
  <2> QED
    BY <1>3
<1>5. PICK f : IsFlattening(f, H, X, seqs)
  <2> HIDE DEF X, seqs
  <2> QED
    BY <1>0, <1>4, FlattenIs
<1>6. nodes = f[H]
  BY <1>5 DEF LevelsAbove, IsFlattening, lv
<1>7. ASSUME NEW n \in 1 .. H PROVE f[n] = f[n - 1] \o lv[n] /\ f[n] \in Seq(X) /\ f[n - 1] \in Seq(X)
  <2>1. n \in 0 .. H /\ n - 1 \in 0 .. H /\ seqs[n] = lv[n]
    BY <1>0
  <2> HIDE DEF X, seqs
  <2> QED
    BY <1>5, <2>1 DEF IsFlattening
<1> HIDE DEF X, seqs, nodes
<1> DEFINE Off(k) == TwoTo[H] - TwoTo[H - (k - 1)]
           Fits(n) == /\ Len(f[n]) = TwoTo[H] - TwoTo[H - n]
                      /\ \A k \in 1 .. n : \A i \in 1 .. TwoTo[H - k] :
                           /\ Off(k) + i \in 1 .. Len(f[n])
                           /\ f[n][Off(k) + i] = lv[k][i]
           Row == {n \in Nat : n <= H => Fits(n)}
<1>8. 0 \in Row
  <2>1. Len(f[0]) = 0 /\ TwoTo[H] - TwoTo[H - 0] = 0
    BY <1>0, <1>2, <1>5 DEF IsFlattening
  <2> QED
    BY <2>1
<1>9. ASSUME NEW n \in Row PROVE n + 1 \in Row
  <2> HIDE DEF Fits
  <2> SUFFICES ASSUME n + 1 <= H PROVE Fits(n + 1)
    OBVIOUS
  <2> USE DEF Fits
  <2>1. /\ n + 1 \in 1 .. H /\ (n + 1) - 1 = n /\ H - n \in 1 .. MaxHeight
        /\ (H - n) - 1 = H - (n + 1) /\ n + 1 \in 0 .. H /\ n \in 0 .. H
    BY <1>0
  <2>2. Fits(n)
    BY <1>0
  <2>3. f[n + 1] = f[n] \o lv[n + 1] /\ f[n + 1] \in Seq(X) /\ f[n] \in Seq(X)
    BY <1>7, <2>1
  <2>4. lv[n + 1] \in Seq(X) /\ Len(lv[n + 1]) = TwoTo[H - (n + 1)]
    BY <1>1, <1>3, <2>1
  <2>5. /\ TwoTo[H - n] = 2 * TwoTo[H - (n + 1)]
        /\ TwoTo[H - n] \in Nat /\ TwoTo[H - (n + 1)] \in Nat /\ TwoTo[H] \in Nat
    BY <1>0, <1>2, <2>1, TwoToIs, TwoToPos
  <2>8. /\ Len(f[n + 1]) = Len(f[n]) + Len(lv[n + 1]) /\ Len(f[n]) \in Nat /\ Len(lv[n + 1]) \in Nat
        /\ \A i \in 1 .. Len(f[n]) : f[n + 1][i] = f[n][i]
        /\ \A i \in 1 .. Len(lv[n + 1]) : f[n + 1][Len(f[n]) + i] = lv[n + 1][i]
    <3> DEFINE s == f[n]
               t == lv[n + 1]
    <3>1. s \in Seq(X) /\ t \in Seq(X) /\ f[n + 1] = s \o t
      BY <2>3, <2>4
    <3> HIDE DEF s, t
    <3>2. /\ Len(s) \in Nat /\ Len(t) \in Nat /\ Len(s \o t) = Len(s) + Len(t)
          /\ \A i \in 1 .. Len(s) : (s \o t)[i] = s[i]
          /\ \A i \in 1 .. Len(t) : (s \o t)[Len(s) + i] = t[i]
      BY <3>1, Concatenated
    <3>3. /\ Len(f[n + 1]) = Len(s) + Len(t) /\ Len(s) \in Nat /\ Len(t) \in Nat
          /\ \A i \in 1 .. Len(s) : f[n + 1][i] = s[i]
          /\ \A i \in 1 .. Len(t) : f[n + 1][Len(s) + i] = t[i]
      BY <3>1, <3>2
    <3> QED
      BY <3>3 DEF s, t
  <2>9. PICK a, b, c : /\ a = Len(f[n]) /\ b = Len(lv[n + 1]) /\ c = Len(f[n + 1])
                       /\ a \in Nat /\ b \in Nat /\ c = a + b
    BY <2>8
  <2>10. a \in Nat /\ b \in Nat /\ c = a + b
    BY <2>9
  <2>6. Len(f[n + 1]) = TwoTo[H] - TwoTo[H - (n + 1)]
    BY <2>2, <2>4, <2>5, <2>8, SMTT(20)
  <2>7. ASSUME NEW k \in 1 .. n + 1, NEW i \in 1 .. TwoTo[H - k]
        PROVE  Off(k) + i \in 1 .. Len(f[n + 1]) /\ f[n + 1][Off(k) + i] = lv[k][i]
    <3>1. CASE k \in 1 .. n
      <4>1. Off(k) + i \in 1 .. Len(f[n]) /\ f[n][Off(k) + i] = lv[k][i]
        BY <2>2, <3>1
      <4>2. PICK p : p = Off(k) + i
        OBVIOUS
      <4>3. p \in 1 .. Len(f[n]) /\ f[n][p] = lv[k][i]
        BY <4>1, <4>2
      <4>6. p \in 1 .. a
        BY <2>9, <4>3
      <4>7. p \in 1 .. c
        BY <2>10, <4>6
      <4>4. p \in 1 .. Len(f[n + 1])
        BY <2>9, <4>7
      <4>5. f[n + 1][p] = f[n][p]
        BY <2>8, <4>3, Zenon
      <4> QED
        BY <4>2, <4>3, <4>4, <4>5
    <3>2. CASE k = n + 1
      <4>1. Off(k) = Len(f[n])
        BY <2>1, <2>2, <3>2
      <4>3. i \in 1 .. Len(lv[n + 1])
        BY <2>4, <3>2
      <4>6. i \in 1 .. b
        BY <2>9, <4>3
      <4>7. a + i \in 1 .. c
        BY <2>10, <4>6
      <4>2. Len(f[n]) + i \in 1 .. Len(f[n + 1])
        BY <2>9, <4>7
      <4>4. f[n + 1][Len(f[n]) + i] = lv[n + 1][i]
        BY <2>8, <4>3, Zenon
      <4> QED
        BY <3>2, <4>1, <4>2, <4>4
    <3> QED
      BY <2>1, <3>1, <3>2
  <2> HIDE DEF Off
  <2> QED
    BY <2>6, <2>7
<1>10. Row = Nat
  <2>1. Row \in SUBSET Nat /\ \A n \in Row : n + 1 \in Row
    BY <1>9
  <2> HIDE DEF Row
  <2> QED
    BY <1>8, <2>1, SetInduction
<1>11. Fits(H)
  <2> HIDE DEF Fits
  <2> QED
    BY <1>0, <1>10
<1>12. Len(nodes) = TwoTo[H] - 1 /\ nodes \in Seq(X) /\ DOMAIN nodes = 1 .. TwoTo[H] - 1
  <2>1. TwoTo[H - H] = 1
    BY <1>0, TwoToIs
  <2>2. H \in 1 .. H
    BY <1>0
  <2>3. nodes \in Seq(X)
    BY <1>6, <1>7, <2>2
  <2>4. Len(nodes) = TwoTo[H] - 1
    BY <1>6, <1>11, <2>1
  <2> QED
    BY <2>3, <2>4
<1>13. ASSUME NEW k \in 1 .. H, NEW i \in 1 .. TwoTo[H - k]
       PROVE  /\ LevelOffset(k, TwoTo[H]) = Off(k)
              /\ LevelOffset(k, TwoTo[H]) + i \in 1 .. TwoTo[H] - 1
              /\ nodes[LevelOffset(k, TwoTo[H]) + i] = lv[k][i]
  <2>1. k - 1 \in 0 .. H
    BY <1>0
  <2>2. LevelOffset(k, TwoTo[H]) = Off(k)
    BY <1>0, <2>1, TwoToShifted DEF LevelOffset
  <2>3. Off(k) + i \in 1 .. Len(f[H]) /\ f[H][Off(k) + i] = lv[k][i]
    BY <1>11
  <2> HIDE DEF Off
  <2> QED
    BY <1>6, <1>12, <2>2, <2>3
<1>14. Last(nodes) = lv[H][1]
  <2>1. H \in 1 .. H /\ TwoTo[H - H] = 1 /\ H - (H - 1) = 1 /\ 1 \in 1 .. MaxHeight
    BY <1>0, TwoToIs
  <2>2. TwoTo[1] = 2
    BY <2>1, TwoToIs
  <2>3. TwoTo[H] \in Nat /\ Off(H) + 1 = TwoTo[H] - 1
    BY <1>0, <2>1, <2>2, TwoToPos
  <2>4. nodes[TwoTo[H] - 1] = lv[H][1]
    BY <1>13, <2>1, <2>3
  <2> QED
    BY <1>12, <2>4 DEF Last
<1> QED
  BY <1>12, <1>13, <1>14 DEF lv, nodes


----------------------------------------------------------------------------
(* The order of the submissions. *)

\* Submissions a tree is built from: no identifier comes twice.
AreDistinct(real) ==
  /\ Len(real) \in Nat /\ DOMAIN real = 1 .. Len(real)
  /\ \A i \in DOMAIN real : real[i].id \in Nat
  /\ \A i, j \in DOMAIN real : real[i].id = real[j].id => i = j

Below(real, e) == {f \in ToSet(real) : f.id < e.id}

\* There are as many of them as the sequence is long.
LEMMA Counted ==
  ASSUME NEW real, AreDistinct(real)
  PROVE  IsFiniteSet(ToSet(real)) /\ Cardinality(ToSet(real)) = Len(real)
<1> DEFINE N == Len(real)
           S == ToSet(real)
           b == [i \in 1 .. N |-> real[i]]
<1>1. N \in Nat /\ DOMAIN real = 1 .. N
  BY DEF AreDistinct
<1>2. S = {real[i] : i \in 1 .. N}
  BY <1>1 DEF ToSet
<1>3. \A i, j \in 1 .. N : real[i] = real[j] => i = j
  BY <1>1 DEF AreDistinct
<1> HIDE DEF N, S
<1>4. b \in [1 .. N -> S] /\ \A i, j \in 1 .. N : b[i] = b[j] => i = j
  BY <1>2, <1>3
<1>5. \A e \in S : \E i \in 1 .. N : b[i] = e
  BY <1>2
<1> HIDE DEF b
<1>6. b \in Bijection(1 .. N, S)
  BY <1>4, <1>5 DEF Bijection, Injection, Surjection, IsInjective
<1>7. ExistsBijection(1 .. N, S)
  BY <1>6 DEF ExistsBijection
<1>8. IsFiniteSet(S) /\ Cardinality(S) = N
  BY <1>1, <1>7, FS_NatBijection, FS_CountingElements
<1> QED
  BY <1>8 DEF N, S

\* What has the smaller identifier has fewer below it.
LEMMA RankOf ==
  ASSUME NEW real, AreDistinct(real)
  PROVE  /\ \A e \in ToSet(real) : Cardinality(Below(real, e)) \in 0 .. Len(real) - 1
         /\ \A e, f \in ToSet(real) :
              Cardinality(Below(real, e)) = Cardinality(Below(real, f)) => e = f
<1> DEFINE N == Len(real)
           S == ToSet(real)
           B(e) == Below(real, e)
<1>1. N \in Nat /\ IsFiniteSet(S) /\ Cardinality(S) = N
  BY Counted DEF AreDistinct
<1>2. /\ \A e \in S : e.id \in Nat
      /\ \A e, f \in S : e.id = f.id => e = f
  BY DEF AreDistinct, ToSet
<1>3. \A e \in S : B(e) = {f \in S : f.id < e.id}
  BY DEF Below
<1> HIDE DEF N, S, B
<1>4. \A e \in S : B(e) \in SUBSET S /\ e \notin B(e)
  BY <1>2, <1>3
<1>5. ASSUME NEW e \in S PROVE IsFiniteSet(B(e)) /\ Cardinality(B(e)) \in Nat
  BY <1>1, <1>4, FS_Subset, FS_CardinalityType
<1>6. ASSUME NEW e \in S PROVE Cardinality(B(e)) \in 0 .. N - 1
  <2>1. B(e) \in SUBSET (S \ {e})
    BY <1>4
  <2>2. IsFiniteSet(S \ {e}) /\ Cardinality(S \ {e}) = N - 1
    BY <1>1, FS_RemoveElement
  <2>3. Cardinality(B(e)) <= N - 1
    BY <2>1, <2>2, FS_Subset
  <2> QED
    BY <1>1, <1>5, <2>3
<1>7. ASSUME NEW e \in S, NEW f \in S, e.id < f.id
      PROVE  Cardinality(B(e)) < Cardinality(B(f))
  <2>1. B(e) \cup {e} \in SUBSET B(f)
    BY <1>2, <1>3, <1>7
  <2>2. Cardinality(B(e) \cup {e}) = Cardinality(B(e)) + 1
    BY <1>4, <1>5, FS_AddElement
  <2>3. Cardinality(B(e) \cup {e}) <= Cardinality(B(f))
    BY <1>5, <2>1, FS_Subset
  <2> QED
    BY <1>5, <2>2, <2>3
<1>8. ASSUME NEW e \in S, NEW f \in S, Cardinality(B(e)) = Cardinality(B(f)) PROVE e = f
  <2>1. ~ (e.id < f.id) /\ ~ (f.id < e.id)
    BY <1>5, <1>7, <1>8
  <2>2. e.id = f.id
    BY <1>2, <2>1
  <2> QED
    BY <1>2, <2>2
<1> QED
  BY <1>6, <1>8 DEF N, S, B

\* o holds what real holds, each once.
IsOrder(o, real) ==
  /\ Len(o) = Len(real) /\ DOMAIN o = 1 .. Len(real)
  /\ \A n \in 1 .. Len(real) : o[n] \in ToSet(real) /\ o[n].id \in Nat
  /\ \A e \in ToSet(real) : \E n \in 1 .. Len(real) : o[n] = e
  /\ \A m, n \in 1 .. Len(real) : o[m].id = o[n].id => m = n

\* The submissions in ascending order are such.
LEMMA OrderedIs ==
  ASSUME NEW real, AreDistinct(real)
  PROVE  IsOrder(Ordered(real), real)
<1> DEFINE N == Len(real)
           S == ToSet(real)
           C(e) == Cardinality(Below(real, e))
           r == [e \in S |-> C(e) + 1]
           o == Ordered(real)
<1>1. N \in Nat /\ IsFiniteSet(S) /\ Cardinality(S) = N
  BY Counted DEF AreDistinct
<1>2. /\ \A e \in S : e.id \in Nat
      /\ \A e, f \in S : e.id = f.id => e = f
  BY DEF AreDistinct, ToSet
<1>3. /\ \A e \in S : C(e) \in 0 .. N - 1
      /\ \A e, f \in S : C(e) = C(f) => e = f
  BY RankOf
<1>4. o = [n \in 1 .. N |-> CHOOSE e \in S : C(e) = n - 1]
  BY DEF Ordered, Below
<1> HIDE DEF N, S, C, o
<1>5. r \in Injection(S, 1 .. N)
  <2>1. r \in [S -> 1 .. N] /\ \A e, f \in S : r[e] = r[f] => e = f
    BY <1>1, <1>3
  <2> HIDE DEF r
  <2> QED
    BY <2>1 DEF Injection, IsInjective
<1>6. IsFiniteSet(1 .. N) /\ Cardinality(1 .. N) = N
  BY <1>1, FS_Interval
<1>7. r \in Surjection(S, 1 .. N)
  <2> HIDE DEF r
  <2> QED
    BY <1>1, <1>5, <1>6, FS_Injection
<1>8. \A n \in 1 .. N : \E e \in S : r[e] = n
  <2> HIDE DEF r
  <2> QED
    BY <1>7 DEF Surjection
<1>9. \A n \in 1 .. N : \E e \in S : C(e) = n - 1
  <2>1. ASSUME NEW n \in 1 .. N PROVE \E e \in S : C(e) = n - 1
    <3>1. PICK e \in S : r[e] = n
      BY <1>8
    <3>2. C(e) + 1 = n /\ C(e) \in 0 .. N - 1
      BY <1>3, <3>1
    <3>3. C(e) = n - 1
      BY <1>1, <3>2
    <3> QED
      BY <3>3
  <2> QED
    BY <2>1
<1>10. ASSUME NEW n \in 1 .. N PROVE o[n] \in S /\ C(o[n]) = n - 1
  <2>1. o[n] = CHOOSE e \in S : C(e) = n - 1
    BY <1>4
  <2> QED
    BY <1>9, <2>1
<1>11. ASSUME NEW e \in S PROVE \E n \in 1 .. N : o[n] = e
  <2>1. C(e) + 1 \in 1 .. N /\ (C(e) + 1) - 1 = C(e)
    BY <1>1, <1>3
  <2>2. o[C(e) + 1] = e
    BY <1>3, <1>10, <2>1
  <2> QED
    BY <2>1, <2>2
<1>12. ASSUME NEW m \in 1 .. N, NEW n \in 1 .. N, o[m].id = o[n].id PROVE m = n
  <2>1. o[m] = o[n]
    BY <1>2, <1>10, <1>12
  <2>2. m - 1 = n - 1
    BY <1>10, <2>1
  <2> QED
    BY <1>1, <2>2
<1>13. Len(o) = N /\ DOMAIN o = 1 .. N
  BY <1>1, <1>4
<1> QED
  BY <1>2, <1>10, <1>11, <1>12, <1>13 DEF IsOrder, N, S, o

\* Sorting looks at the set alone.
LEMMA OrderedOfSet ==
  ASSUME NEW a, NEW b, Len(a) = Len(b), ToSet(a) = ToSet(b)
  PROVE  Ordered(a) = Ordered(b)
  BY DEF Ordered

----------------------------------------------------------------------------
(* Probing for a free slot. *)

\* A set of naturals that is not empty has a least element.
LEMMA Least ==
  ASSUME NEW S \in SUBSET Nat, S # {}
  PROVE  \E x \in S : \A y \in S : x <= y
<1> DEFINE R == {ss \in Nat \X Nat : ss[1] < ss[2]}
<1>1. IsWellFoundedOn(R, Nat)
  BY NatLessThanWellFounded, Zenon DEF OpToRel
<1> HIDE DEF R
<1>2. PICK x \in S : \A y \in S : ~ (<<y, x>> \in R)
  BY <1>1, WFMin
<1>3. ASSUME NEW y \in S PROVE x <= y
  <2>1. <<y, x>> \in Nat \X Nat /\ ~ (<<y, x>> \in R)
    BY <1>2
  <2> QED
    BY <2>1 DEF R
<1> QED
  BY <1>3

\* One subtraction is enough below twice the modulus.
LEMMA Wrapped ==
  ASSUME NEW a \in Nat, NEW c \in Nat, c > 0, a < 2 * c
  PROVE  a % c = IF a < c THEN a ELSE a - c
<1>1. CASE a < c
  BY <1>1
<1>2. CASE a >= c
  BY <1>2
<1> QED
  BY <1>1, <1>2

\* first is how often the probe steps.
IsFirst(first, taken, start, capacity) ==
  /\ first \in 0 .. capacity - 1
  /\ (start + first) % capacity \notin taken
  /\ \A s \in 0 .. first - 1 : (start + s) % capacity \in taken
  /\ Probe(taken, start, capacity) = (start + first) % capacity

\* While there is a free slot, the probe finds one.
LEMMA ProbeIs ==
  ASSUME NEW capacity \in Nat, NEW start \in 0 .. capacity - 1, NEW taken,
         NEW free \in 0 .. capacity - 1, free \notin taken
  PROVE  \E first : IsFirst(first, taken, start, capacity)
<1> DEFINE At(s) == (start + s) % capacity
           Free == {s \in 0 .. capacity - 1 : At(s) \notin taken}
           P(s) == At(s) \notin taken /\ \A t \in 0 .. s - 1 : At(t) \in taken
<1>0. capacity > 0
  OBVIOUS
<1>1. \E s \in 0 .. capacity - 1 : At(s) = free
  <2>1. CASE free >= start
    <3>1. free - start \in 0 .. capacity - 1 /\ start + (free - start) = free
      BY <2>1
    <3>2. free % capacity = free
      BY Wrapped
    <3> QED
      BY <3>1, <3>2
  <2>2. CASE free < start
    <3>1. (free + capacity) - start \in 0 .. capacity - 1
          /\ start + ((free + capacity) - start) = free + capacity
      BY <2>2
    <3>2. free + capacity \in Nat /\ free + capacity < 2 * capacity /\ ~ (free + capacity < capacity)
          /\ (free + capacity) - capacity = free
      OBVIOUS
    <3>3. (free + capacity) % capacity = free
      BY <1>0, <3>2, Wrapped
    <3> QED
      BY <3>1, <3>3
  <2> QED
    BY <2>1, <2>2
<1>2. Free # {} /\ Free \in SUBSET Nat
  <2>1. PICK s \in 0 .. capacity - 1 : At(s) = free
    BY <1>1
  <2>2. s \in Free
    BY <2>1
  <2>3. Free \in SUBSET Nat
    OBVIOUS
  <2> QED
    BY <2>2, <2>3
<1>3. PICK x \in Free : \A y \in Free : x <= y
  <2> HIDE DEF Free
  <2> QED
    BY <1>2, Least
<1>4. x \in 0 .. capacity - 1 /\ P(x)
  <2>1. x \in 0 .. capacity - 1 /\ At(x) \notin taken
    OBVIOUS
  <2>2. ASSUME NEW t \in 0 .. x - 1 PROVE At(t) \in taken
    <3>1. t \in 0 .. capacity - 1 /\ ~ (x <= t)
      BY <2>1
    <3>2. t \notin Free
      BY <1>3, <3>1
    <3> QED
      BY <3>1, <3>2
  <2> QED
    BY <2>1, <2>2
<1> DEFINE first == CHOOSE s \in 0 .. capacity - 1 : P(s)
<1>5. first \in 0 .. capacity - 1 /\ P(first)
  <2> HIDE DEF P
  <2> QED
    BY <1>4
<1>6. Probe(taken, start, capacity) = At(first)
  BY DEF Probe
<1> HIDE DEF first
<1> QED
  BY <1>5, <1>6 DEF IsFirst

\* The loop of tree.ts stops where tree.rs does.
LEMMA ProbesAgree ==
  ASSUME NEW capacity \in Nat, NEW start \in 0 .. capacity - 1, NEW taken,
         NEW first, IsFirst(first, taken, start, capacity)
  PROVE  ProbeTs(taken, start, capacity) = Probe(taken, start, capacity)
<1> DEFINE T == 0 .. capacity - 1
           Turn(x) == IF x \in taken THEN (x + 1) % capacity ELSE x
           D(f, n) == IF n = 0 THEN start ELSE Turn(f[n - 1])
           step == [n \in 1 .. capacity |-> [x \in T |-> Turn(x)]]
           At(s) == (start + s) % capacity
<1>0. /\ capacity > 0 /\ first \in 0 .. capacity - 1
      /\ At(first) \notin taken /\ \A s \in 0 .. first - 1 : At(s) \in taken
      /\ Probe(taken, start, capacity) = At(first)
  BY DEF IsFirst
<1>1. ASSUME NEW x \in T PROVE Turn(x) \in T
  <2>1. (x + 1) % capacity = IF x + 1 < capacity THEN x + 1 ELSE (x + 1) - capacity
    BY <1>0, Wrapped
  <2> QED
    BY <1>0, <2>1
<1>2. PICK f : IsLoop(f, capacity, T, start, step)
  <2>1. step \in [1 .. capacity -> [T -> T]] /\ start \in T
    BY <1>1
  <2> HIDE DEF step, T
  <2> QED
    BY <2>1, Loop
<1>3. f \in [0 .. capacity -> T] /\ f[0] = start /\ \A n \in 1 .. capacity : f[n] = Turn(f[n - 1])
  <2>1. f \in [0 .. capacity -> T] /\ f[0] = start /\ \A n \in 1 .. capacity : f[n] = step[n][f[n - 1]]
    <3> HIDE DEF step, T
    <3> QED
      BY <1>2 DEF IsLoop
  <2>2. \A n \in 1 .. capacity : f[n - 1] \in T
    <3>1. \A n \in 1 .. capacity : n - 1 \in 0 .. capacity
      OBVIOUS
    <3> HIDE DEF step, T
    <3> QED
      BY <2>1, <3>1
  <2>3. \A n \in 1 .. capacity : step[n][f[n - 1]] = Turn(f[n - 1])
    <3> HIDE DEF T, Turn
    <3> QED
      BY <2>2
  <2> HIDE DEF step, T, Turn
  <2> QED
    BY <2>1, <2>3
<1>4. f = [n \in 0 .. capacity |-> D(f, n)]
  <2>1. ASSUME NEW n \in 0 .. capacity PROVE f[n] = D(f, n)
    <3>1. n = 0 \/ n \in 1 .. capacity
      OBVIOUS
    <3> HIDE DEF Turn
    <3> QED
      BY <1>3, <3>1
  <2>2. f = [n \in 0 .. capacity |-> f[n]]
    BY <1>3
  <2> HIDE DEF D
  <2> QED
    BY <2>1, <2>2
<1> DEFINE at == CHOOSE g : g = [n \in 0 .. capacity |-> D(g, n)]
<1>5. at = [n \in 0 .. capacity |-> D(at, n)]
  <2> HIDE DEF D
  <2> QED
    BY <1>4
<1>6. ProbeTs(taken, start, capacity) = at[capacity]
  BY DEF ProbeTs
<1> HIDE DEF at
<1>7. at[0] = start /\ \A n \in 1 .. capacity : at[n] = Turn(at[n - 1])
  <2>1. 0 \in 0 .. capacity /\ \A n \in 1 .. capacity : n # 0 /\ n \in 0 .. capacity
    OBVIOUS
  <2>2. at[0] = D(at, 0) /\ \A n \in 1 .. capacity : n # 0 /\ at[n] = D(at, n)
    <3> HIDE DEF D
    <3> QED
      BY <1>5, <2>1
  <2> HIDE DEF Turn
  <2> QED
    BY <2>2
<1> HIDE DEF T, D, step
<1> DEFINE Goes == {k \in Nat : k <= capacity => at[k] = IF k <= first THEN At(k) ELSE At(first)}
<1>8. 0 \in Goes
  <2>1. start \in Nat /\ start < 2 * capacity /\ start < capacity /\ start + 0 = start
    BY <1>0
  <2>2. start % capacity = start
    BY <1>0, <2>1, Wrapped
  <2> QED
    BY <1>0, <1>7, <2>1, <2>2
<1>9. ASSUME NEW k \in Goes PROVE k + 1 \in Goes
  <2> SUFFICES ASSUME k + 1 <= capacity
               PROVE  at[k + 1] = IF k + 1 <= first THEN At(k + 1) ELSE At(first)
    OBVIOUS
  <2>1. at[k] = IF k <= first THEN At(k) ELSE At(first)
    OBVIOUS
  <2>2. at[k + 1] = Turn(at[k])
    BY <1>7
  <2>3. CASE k + 1 <= first
    <3>1. k \in 0 .. first - 1 /\ k <= first
      BY <1>0, <2>3
    <3>2. at[k] = At(k) /\ At(k) \in taken
      BY <1>0, <2>1, <3>1
    <3>3. at[k + 1] = (At(k) + 1) % capacity
      BY <2>2, <3>2
    <3>4. At(k) = IF start + k < capacity THEN start + k ELSE (start + k) - capacity
      BY <1>0, <3>1, Wrapped
    <3>5. start + (k + 1) \in Nat /\ start + (k + 1) < 2 * capacity
      BY <1>0, <2>3
    <3>6. At(k + 1) = IF start + (k + 1) < capacity THEN start + (k + 1) ELSE (start + (k + 1)) - capacity
      BY <1>0, <3>5, Wrapped
    <3>7. PICK a : a = At(k)
      OBVIOUS
    <3>8. a = IF start + k < capacity THEN start + k ELSE (start + k) - capacity
      BY <3>4, <3>7
    <3>9. a \in Nat /\ a + 1 < 2 * capacity
      BY <1>0, <3>5, <3>8
    <3>10. (a + 1) % capacity = IF a + 1 < capacity THEN a + 1 ELSE (a + 1) - capacity
      BY <1>0, <3>9, Wrapped
    <3>12. PICK b : b = At(k + 1)
      OBVIOUS
    <3>13. b = IF start + (k + 1) < capacity THEN start + (k + 1) ELSE (start + (k + 1)) - capacity
      BY <3>6, <3>12
    <3>14. PICK d : d = (a + 1) % capacity
      OBVIOUS
    <3>15. d = IF a + 1 < capacity THEN a + 1 ELSE (a + 1) - capacity
      BY <3>10, <3>14
    <3>11. d = b
      BY <1>0, <3>5, <3>8, <3>13, <3>15
    <3> QED
      BY <2>3, <3>3, <3>7, <3>11, <3>12, <3>14
  <2>4. CASE k + 1 > first
    <3>1. at[k] = At(first)
      BY <1>0, <2>1, <2>4
    <3>2. at[k + 1] = At(first)
      BY <1>0, <2>2, <3>1
    <3> QED
      BY <1>0, <2>4, <3>2
  <2> QED
    BY <1>0, <2>3, <2>4
<1>10. Goes = Nat
  <2>1. Goes \in SUBSET Nat /\ \A n \in Goes : n + 1 \in Goes
    BY <1>9
  <2> HIDE DEF Goes
  <2> QED
    BY <1>8, <2>1, SetInduction
<1>11. at[capacity] = At(first)
  <2>1. capacity \in Goes /\ ~ (capacity <= first)
    BY <1>0, <1>10
  <2> HIDE DEF At
  <2> QED
    BY <2>1
<1> QED
  BY <1>0, <1>6, <1>11

----------------------------------------------------------------------------
(* Every submission gets a slot of its own. *)

\* p holds the first N of o, each in a slot that no other has.
IsAssigned(p, o, N, capacity) ==
  /\ Len(p) = N /\ DOMAIN p = 1 .. N
  /\ \A i \in 1 .. N :
       p[i].id = o[i].id /\ p[i].leaf = o[i].leaf /\ p[i].slot \in 0 .. capacity - 1
  /\ \A i, j \in 1 .. N : p[i].slot = p[j].slot => i = j

\* While fewer are placed than there are slots, a slot is free.
LEMMA FreeSlot ==
  ASSUME NEW N \in Nat, NEW capacity \in Nat, N < capacity, NEW p, NEW o,
         IsAssigned(p, o, N, capacity)
  PROVE  \E x \in 0 .. capacity - 1 : x \notin Taken(p)
<1> SUFFICES ASSUME 0 .. capacity - 1 \subseteq Taken(p) PROVE FALSE
  OBVIOUS
<1> DEFINE f == [i \in 1 .. N |-> p[i].slot]
           T == Taken(p)
<1>1. T = {p[i].slot : i \in 1 .. N}
  BY DEF Taken, IsAssigned
<1> HIDE DEF T
<1>2. f \in Surjection(1 .. N, T)
  <2>1. f \in [1 .. N -> T] /\ \A t \in T : \E i \in 1 .. N : f[i] = t
    BY <1>1
  <2> HIDE DEF f
  <2> QED
    BY <2>1 DEF Surjection
<1>3. IsFiniteSet(T) /\ Cardinality(T) <= N
  <2>1. IsFiniteSet(1 .. N) /\ Cardinality(1 .. N) = N
    BY FS_Interval
  <2> HIDE DEF f
  <2> QED
    BY <1>2, <2>1, FS_Surjection
<1>4. Cardinality(0 .. capacity - 1) = capacity
  BY FS_Interval
<1>5. Cardinality(0 .. capacity - 1) <= Cardinality(T)
  BY <1>3, FS_Subset DEF T
<1>6. Cardinality(T) \in Nat
  BY <1>3, FS_CardinalityType
<1> QED
  BY <1>3, <1>4, <1>5, <1>6

\* What a tree is built from, under which seeds.
IsInput(real, k_e, H, bytes) ==
  /\ AreDistinct(real) /\ H \in 1 .. MaxHeight /\ Len(real) <= TwoTo[H]
  /\ \A i \in DOMAIN real : bytes[SlotSeed(k_e, real[i].id)] \in Nat

Start(real, k_e, H, bytes, n) == Seeded(Ordered(real)[n], k_e, H, bytes)

\* A slot computed from a seed is in the tree.
LEMMA StartIs ==
  ASSUME NEW real, NEW k_e, NEW H, NEW bytes, IsInput(real, k_e, H, bytes),
         NEW n \in 1 .. Len(real)
  PROVE  Start(real, k_e, H, bytes, n) \in 0 .. TwoTo[H] - 1
<1> DEFINE e == Ordered(real)[n]
<1>1. e \in ToSet(real)
  BY OrderedIs DEF IsInput, IsOrder
<1>2. bytes[SlotSeed(k_e, e.id)] \in Nat
  <2> HIDE DEF e
  <2> QED
    BY <1>1 DEF ToSet, IsInput
<1>3. TwoTo[H] \in Nat /\ TwoTo[H] > 0
  <2>1. H \in 0 .. MaxHeight
    BY EpochTreeAssumption DEF IsInput
  <2> QED
    BY <2>1, TwoToPos
<1>4. Start(real, k_e, H, bytes, n) = bytes[SlotSeed(k_e, e.id)] % TwoTo[H]
  BY DEF Start, Seeded, SlotFromSeed, Capacity
<1>5. ASSUME NEW a \in Nat, NEW c \in Nat, c > 0 PROVE a % c \in 0 .. c - 1
  BY <1>5
<1> QED
  BY <1>2, <1>3, <1>4, <1>5

\* f are the submissions placed after each step.
IsPlacing(f, real, k_e, H, bytes) ==
  /\ f[0] = <<>>
  /\ \A n \in 1 .. Len(real) :
       f[n] = Append(f[n - 1],
                     Placed(Ordered(real)[n],
                            Probe(Taken(f[n - 1]), Start(real, k_e, H, bytes, n), TwoTo[H])))

\* The steps determine what is placed.
LEMMA PlacingUnique ==
  ASSUME NEW real, NEW k_e, NEW H, NEW bytes, Len(real) \in Nat,
         NEW f, IsPlacing(f, real, k_e, H, bytes),
         NEW g, IsPlacing(g, real, k_e, H, bytes)
  PROVE  f[Len(real)] = g[Len(real)]
<1> DEFINE Same == {n \in Nat : n <= Len(real) => f[n] = g[n]}
<1>1. 0 \in Same
  BY DEF IsPlacing
<1>2. ASSUME NEW n \in Same PROVE n + 1 \in Same
  <2> SUFFICES ASSUME n + 1 <= Len(real) PROVE f[n + 1] = g[n + 1]
    OBVIOUS
  <2>1. n + 1 \in 1 .. Len(real) /\ (n + 1) - 1 = n /\ f[n] = g[n]
    OBVIOUS
  <2> QED
    BY <2>1 DEF IsPlacing
<1>3. Len(real) \in Same
  <2>1. Same \in SUBSET Nat /\ \A n \in Same : n + 1 \in Same
    BY <1>2
  <2> HIDE DEF Same
  <2> QED
    BY <1>1, <2>1, SetInduction
<1> QED
  BY <1>3

\* One more is placed.
LEMMA PlacedOnce ==
  ASSUME NEW P, NEW s \in Seq(P), NEW e \in P, NEW n \in Nat, NEW capacity \in Nat, NEW o,
         IsAssigned(s, o, n, capacity),
         e.id = o[n + 1].id, e.leaf = o[n + 1].leaf, e.slot \in 0 .. capacity - 1,
         e.slot \notin Taken(s)
  PROVE  IsAssigned(Append(s, e), o, n + 1, capacity)
<1> DEFINE t == Append(s, e)
<1>1. /\ Len(t) = n + 1 /\ DOMAIN t = 1 .. n + 1
      /\ \A i \in 1 .. n : t[i] = s[i]
      /\ t[n + 1] = e
  BY DEF IsAssigned
<1>2. \A i \in 1 .. n : s[i].slot # e.slot
  BY DEF Taken, IsAssigned
<1> HIDE DEF t
<1>3. \A i \in 1 .. n + 1 : i \in 1 .. n \/ i = n + 1
  OBVIOUS
<1>4. ASSUME NEW i \in 1 .. n + 1
      PROVE  t[i].id = o[i].id /\ t[i].leaf = o[i].leaf /\ t[i].slot \in 0 .. capacity - 1
  BY <1>1, <1>3 DEF IsAssigned
<1>5. ASSUME NEW i \in 1 .. n + 1, NEW j \in 1 .. n + 1, t[i].slot = t[j].slot PROVE i = j
  BY <1>1, <1>2, <1>3, <1>5 DEF IsAssigned
<1> QED
  BY <1>1, <1>4, <1>5 DEF IsAssigned, t

\* The steps exist, and each finds a free slot.
LEMMA PlacingExists ==
  ASSUME NEW real, NEW k_e, NEW H, NEW bytes, IsInput(real, k_e, H, bytes)
  PROVE  \E f : /\ IsPlacing(f, real, k_e, H, bytes)
                /\ f = [n \in 0 .. Len(real) |-> f[n]]
                /\ \A n \in 0 .. Len(real) : IsAssigned(f[n], Ordered(real), n, TwoTo[H])
<1> DEFINE N == Len(real)
           o == Ordered(real)
           c == TwoTo[H]
           S(n) == Start(real, k_e, H, bytes, n)
           In(x) == IF x \in 0 .. c - 1 THEN x ELSE 0
           P == [id : {o[n].id : n \in 1 .. N}, leaf : {o[n].leaf : n \in 1 .. N}, slot : 0 .. c - 1]
           Put(s, n) == Append(s, Placed(o[n], In(Probe(Taken(s), S(n), c))))
           step == [n \in 1 .. N |-> [s \in Seq(P) |-> Put(s, n)]]
<1>1. N \in Nat /\ c \in Nat /\ c > 0 /\ N <= c
  <2>1. H \in 0 .. MaxHeight
    BY EpochTreeAssumption DEF IsInput
  <2> QED
    BY <2>1, TwoToPos DEF IsInput, AreDistinct
<1>2. \A n \in 1 .. N : S(n) \in 0 .. c - 1
  BY StartIs
<1> HIDE DEF N, o, c, S
<1>3. ASSUME NEW n \in 1 .. N, NEW x PROVE Placed(o[n], In(x)) \in P
  <2>1. In(x) \in 0 .. c - 1
    BY <1>1
  <2> HIDE DEF In
  <2> QED
    BY <2>1 DEF Placed
<1> HIDE DEF P, In
<1>4. step \in [1 .. N -> [Seq(P) -> Seq(P)]] /\ <<>> \in Seq(P)
  <2>1. ASSUME NEW n \in 1 .. N, NEW s \in Seq(P) PROVE Put(s, n) \in Seq(P)
    BY <1>3
  <2> HIDE DEF Put
  <2> QED
    BY <2>1
<1>5. PICK f : IsLoop(f, N, Seq(P), <<>>, step)
  <2> HIDE DEF step
  <2> QED
    BY <1>1, <1>4, Loop
<1>6. /\ f \in [0 .. N -> Seq(P)] /\ f[0] = <<>>
      /\ \A n \in 1 .. N : f[n - 1] \in Seq(P) /\ f[n] = Put(f[n - 1], n)
  <2>1. f \in [0 .. N -> Seq(P)] /\ f[0] = <<>> /\ \A n \in 1 .. N : f[n] = step[n][f[n - 1]]
    <3> HIDE DEF step
    <3> QED
      BY <1>5 DEF IsLoop
  <2>2. \A n \in 1 .. N : n - 1 \in 0 .. N
    BY <1>1
  <2>3. \A n \in 1 .. N : f[n - 1] \in Seq(P)
    <3> HIDE DEF step
    <3> QED
      BY <2>1, <2>2
  <2>4. \A n \in 1 .. N : step[n][f[n - 1]] = Put(f[n - 1], n)
    <3> HIDE DEF Put
    <3> QED
      BY <2>3
  <2> HIDE DEF step, Put
  <2> QED
    BY <2>1, <2>3, <2>4
<1> HIDE DEF step
<1> DEFINE Fine(n) == IsAssigned(f[n], o, n, c)
           Probed(n) == /\ Probe(Taken(f[n - 1]), S(n), c) \in 0 .. c - 1
                        /\ Probe(Taken(f[n - 1]), S(n), c) \notin Taken(f[n - 1])
           Good == {n \in Nat : n <= N => Fine(n)}
<1>7. ASSUME NEW n \in 1 .. N, Fine(n - 1) PROVE Probed(n)
  <2>1. n - 1 \in Nat /\ n - 1 < c
    BY <1>1
  <2>2. PICK x \in 0 .. c - 1 : x \notin Taken(f[n - 1])
    BY <1>1, <1>7, <2>1, FreeSlot
  <2>3. PICK first : IsFirst(first, Taken(f[n - 1]), S(n), c)
    BY <1>1, <1>2, <2>2, ProbeIs
  <2>4. S(n) \in 0 .. c - 1 /\ first \in 0 .. c - 1
    BY <1>2, <2>3 DEF IsFirst
  <2>5. (S(n) + first) % c \in 0 .. c - 1
    BY <1>1, <2>4
  <2> QED
    BY <2>3, <2>5 DEF IsFirst
<1>8. 0 \in Good
  <2>1. Len(f[0]) = 0 /\ DOMAIN f[0] = 1 .. 0 /\ 1 .. 0 = {}
    BY <1>6
  <2> QED
    BY <2>1 DEF IsAssigned
<1>9. ASSUME NEW n \in Good PROVE n + 1 \in Good
  <2> SUFFICES ASSUME n + 1 <= N PROVE Fine(n + 1)
    OBVIOUS
  <2>1. n + 1 \in 1 .. N /\ (n + 1) - 1 = n /\ n \in 0 .. N
    BY <1>1
  <2>2. Fine(n)
    BY <1>1
  <2>3. Probed(n + 1)
    BY <1>7, <2>1, <2>2
  <2> DEFINE x == Probe(Taken(f[n]), S(n + 1), c)
             e == Placed(o[n + 1], In(x))
  <2>4. x \in 0 .. c - 1 /\ x \notin Taken(f[n]) /\ In(x) = x
    BY <2>1, <2>3 DEF In
  <2>5. f[n + 1] = Append(f[n], e) /\ f[n] \in Seq(P) /\ e \in P
    BY <1>3, <1>6, <2>1
  <2>6. e.id = o[n + 1].id /\ e.leaf = o[n + 1].leaf /\ e.slot = x
    BY <2>4 DEF Placed
  <2> HIDE DEF x, e
  <2>7. IsAssigned(Append(f[n], e), o, n + 1, c)
    BY <1>1, <2>2, <2>4, <2>5, <2>6, PlacedOnce
  <2> QED
    BY <2>5, <2>7
<1>10. Good = Nat
  <2>1. Good \in SUBSET Nat /\ \A n \in Good : n + 1 \in Good
    BY <1>9
  <2> HIDE DEF Good
  <2> QED
    BY <1>8, <2>1, SetInduction
<1>11. \A n \in 0 .. N : Fine(n)
  <2>1. \A n \in 0 .. N : n \in Nat /\ n <= N
    BY <1>1
  <2> HIDE DEF Fine
  <2> QED
    BY <1>10, <2>1
<1>12. ASSUME NEW n \in 1 .. N
       PROVE  f[n] = Append(f[n - 1], Placed(o[n], Probe(Taken(f[n - 1]), S(n), c)))
  <2>1. n - 1 \in 0 .. N
    BY <1>1
  <2>2. Probed(n)
    BY <1>7, <1>11, <2>1
  <2>3. In(Probe(Taken(f[n - 1]), S(n), c)) = Probe(Taken(f[n - 1]), S(n), c)
    BY <2>2 DEF In
  <2> QED
    BY <1>6, <2>3
<1>13. IsPlacing(f, real, k_e, H, bytes)
  BY <1>6, <1>12 DEF IsPlacing, N, o, c, S
<1>14. f = [n \in 0 .. N |-> f[n]]
  BY <1>6
<1> QED
  BY <1>11, <1>13, <1>14 DEF N, o, c

\* The assignment of tree.rs takes those steps.
LEMMA AssignIs ==
  ASSUME NEW real, NEW k_e, NEW H, NEW bytes, IsInput(real, k_e, H, bytes)
  PROVE  /\ \A f : IsPlacing(f, real, k_e, H, bytes)
                     => Assign(real, k_e, H, bytes) = f[Len(real)]
         /\ IsAssigned(Assign(real, k_e, H, bytes), Ordered(real), Len(real), TwoTo[H])
<1> DEFINE N == Len(real)
           o == Ordered(real)
           c == TwoTo[H]
           S(n) == Start(real, k_e, H, bytes, n)
           D(f, n) == IF n = 0 THEN <<>>
                      ELSE Append(f[n - 1], Placed(o[n], Probe(Taken(f[n - 1]), S(n), c)))
<1>1. N \in Nat
  BY DEF IsInput, AreDistinct
<1>2. PICK f : /\ IsPlacing(f, real, k_e, H, bytes)
               /\ f = [n \in 0 .. N |-> f[n]]
               /\ \A n \in 0 .. N : IsAssigned(f[n], o, n, c)
  BY PlacingExists
<1>3. f = [n \in 0 .. N |-> D(f, n)]
  <2>1. ASSUME NEW n \in 0 .. N PROVE f[n] = D(f, n)
    <3>1. n = 0 \/ n \in 1 .. N
      BY <1>1
    <3> QED
      BY <1>2, <3>1 DEF IsPlacing
  <2> HIDE DEF D
  <2> QED
    BY <1>2, <2>1
<1> DEFINE placed == CHOOSE g : g = [n \in 0 .. N |-> D(g, n)]
<1>4. placed = [n \in 0 .. N |-> D(placed, n)]
  <2> HIDE DEF D
  <2> QED
    BY <1>3
<1>5. Assign(real, k_e, H, bytes) = placed[N]
  BY DEF Assign, Start, Capacity
<1> HIDE DEF placed
<1>6. IsPlacing(placed, real, k_e, H, bytes)
  <2>1. 0 \in 0 .. N /\ \A n \in 1 .. N : n # 0 /\ n \in 0 .. N
    BY <1>1
  <2>2. placed[0] = D(placed, 0) /\ \A n \in 1 .. N : n # 0 /\ placed[n] = D(placed, n)
    <3> HIDE DEF D
    <3> QED
      BY <1>4, <2>1
  <2> QED
    BY <2>2 DEF IsPlacing
<1>7. \A g : IsPlacing(g, real, k_e, H, bytes) => placed[N] = g[N]
  BY <1>1, <1>6, PlacingUnique
<1>8. IsAssigned(placed[N], o, N, c)
  BY <1>1, <1>2, <1>7
<1> QED
  BY <1>5, <1>7, <1>8

\* That of tree.ts takes the same ones.
LEMMA AssignsAgree ==
  ASSUME NEW real, NEW k_e, NEW H, NEW bytes, IsInput(real, k_e, H, bytes)
  PROVE  AssignTs(real, k_e, H, bytes) = Assign(real, k_e, H, bytes)
<1> DEFINE N == Len(real)
           o == Ordered(real)
           c == TwoTo[H]
           S(n) == Start(real, k_e, H, bytes, n)
           D(f, n) == IF n = 0 THEN <<>>
                      ELSE Append(f[n - 1], Placed(o[n], ProbeTs(Taken(f[n - 1]), S(n), c)))
<1>1. N \in Nat /\ c \in Nat /\ N <= c
  <2>1. H \in 0 .. MaxHeight
    BY EpochTreeAssumption DEF IsInput
  <2> QED
    BY <2>1, TwoToPos DEF IsInput, AreDistinct
<1>2. PICK f : /\ IsPlacing(f, real, k_e, H, bytes)
               /\ f = [n \in 0 .. N |-> f[n]]
               /\ \A n \in 0 .. N : IsAssigned(f[n], o, n, c)
  BY PlacingExists
<1>3. ASSUME NEW n \in 1 .. N
      PROVE  ProbeTs(Taken(f[n - 1]), S(n), c) = Probe(Taken(f[n - 1]), S(n), c)
  <2>1. n - 1 \in Nat /\ n - 1 < c /\ n - 1 \in 0 .. N
    BY <1>1
  <2>2. S(n) \in 0 .. c - 1
    BY StartIs
  <2> HIDE DEF S, c, o, N
  <2>3. PICK x \in 0 .. c - 1 : x \notin Taken(f[n - 1])
    BY <1>1, <1>2, <2>1, FreeSlot
  <2>4. PICK first : IsFirst(first, Taken(f[n - 1]), S(n), c)
    BY <1>1, <2>2, <2>3, ProbeIs
  <2> QED
    BY <1>1, <2>2, <2>4, ProbesAgree
<1>4. \A n \in 1 .. N : f[n] = D(f, n)
  BY <1>1, <1>2, <1>3 DEF IsPlacing
<1>5. f = [n \in 0 .. N |-> D(f, n)]
  <2>1. ASSUME NEW n \in 0 .. N PROVE f[n] = D(f, n)
    <3>1. n = 0 \/ n \in 1 .. N
      BY <1>1
    <3>2. f[0] = D(f, 0)
      BY <1>2 DEF IsPlacing
    <3> HIDE DEF D
    <3> QED
      BY <1>4, <3>1, <3>2
  <2> HIDE DEF D
  <2> QED
    BY <1>2, <2>1
<1> DEFINE placed == CHOOSE g : g = [n \in 0 .. N |-> D(g, n)]
<1>6. placed = [n \in 0 .. N |-> D(placed, n)]
  <2> HIDE DEF D
  <2> QED
    BY <1>5
<1>7. AssignTs(real, k_e, H, bytes) = placed[N]
  BY DEF AssignTs, Start, Capacity
<1> HIDE DEF placed
<1> DEFINE Same == {n \in Nat : n <= N => placed[n] = f[n]}
<1>8. 0 \in Same
  <2>1. 0 \in 0 .. N
    BY <1>1
  <2>2. placed[0] = D(placed, 0) /\ f[0] = D(f, 0)
    <3> HIDE DEF D
    <3> QED
      BY <1>5, <1>6, <2>1
  <2> QED
    BY <2>2
<1>9. ASSUME NEW n \in Same PROVE n + 1 \in Same
  <2> SUFFICES ASSUME n + 1 <= N PROVE placed[n + 1] = f[n + 1]
    OBVIOUS
  <2>1. n + 1 \in 0 .. N /\ (n + 1) - 1 = n /\ n + 1 # 0 /\ placed[n] = f[n]
    BY <1>1
  <2>2. placed[n + 1] = D(placed, n + 1) /\ f[n + 1] = D(f, n + 1)
    <3> HIDE DEF D
    <3> QED
      BY <1>5, <1>6, <2>1
  <2> QED
    BY <2>1, <2>2
<1>10. N \in Same
  <2>1. Same \in SUBSET Nat /\ \A n \in Same : n + 1 \in Same
    BY <1>9
  <2> HIDE DEF Same
  <2> QED
    BY <1>1, <1>8, <2>1, SetInduction
<1>11. placed[N] = f[N]
  BY <1>1, <1>10
<1> QED
  BY <1>2, <1>7, <1>11, AssignIs

\* It looks at the submissions as a set, and at no seeds but theirs.
LEMMA AssignOfSet ==
  ASSUME NEW k_e, NEW H, NEW a, NEW lowA, IsInput(a, k_e, H, lowA),
         NEW b, NEW lowB, IsInput(b, k_e, H, lowB), Len(a) = Len(b), ToSet(a) = ToSet(b),
         \A i \in DOMAIN a : lowA[SlotSeed(k_e, a[i].id)] = lowB[SlotSeed(k_e, a[i].id)]
  PROVE  Assign(a, k_e, H, lowA) = Assign(b, k_e, H, lowB)
<1>1. Ordered(a) = Ordered(b)
  BY OrderedOfSet
<1>2. PICK f : IsPlacing(f, a, k_e, H, lowA)
  BY PlacingExists
<1>3. ASSUME NEW n \in 1 .. Len(a)
      PROVE  Start(a, k_e, H, lowA, n) = Start(b, k_e, H, lowB, n)
  <2>1. Ordered(a)[n] \in ToSet(a)
    BY OrderedIs DEF IsInput, IsOrder
  <2>2. lowA[SlotSeed(k_e, Ordered(a)[n].id)] = lowB[SlotSeed(k_e, Ordered(a)[n].id)]
    BY <2>1 DEF ToSet
  <2> QED
    BY <1>1, <2>2 DEF Start, Seeded
<1>4. IsPlacing(f, b, k_e, H, lowB)
  BY <1>1, <1>2, <1>3 DEF IsPlacing
<1> QED
  BY <1>2, <1>4, AssignIs

----------------------------------------------------------------------------
(* The tree that is built. *)

\* The proof that the leaf in a slot has: its neighbour at every level.
PathProof(leaves, H, slot, epoch) ==
  [height |-> H, slot_index |-> slot, epoch |-> epoch,
   siblings |-> [n \in 1 .. H |->
     Levels(leaves, H)[n - 1][Sibling(slot \div TwoTo[n - 1]) + 1]]]

\* built is a tree over real: every submission is in its slot, and there is no
\* real leaf besides.
IsTree(built, real, epoch, H) ==
  /\ H \in MinHeight .. MaxHeight
  /\ built.epoch = epoch /\ built.height = H
  /\ AreLeaves(built.leaves, H)
  /\ built.root = Levels(built.leaves, H)[H][1]
  /\ \A i \in DOMAIN real :
       /\ SlotOf(built, real[i].id) \in 0 .. TwoTo[H] - 1
       /\ built.leaves[SlotOf(built, real[i].id) + 1] = RealLeaf(real[i].leaf)
       /\ Proof(built, real[i].id)
            = PathProof(built.leaves, H, SlotOf(built, real[i].id), epoch)
  /\ \A slot \in 0 .. TwoTo[H] - 1 : \A leaf :
       built.leaves[slot + 1] = RealLeaf(leaf)
         => \E i \in DOMAIN real : real[i].leaf = leaf /\ SlotOf(built, real[i].id) = slot

\* The submissions are in their slots, and there are no real leaves besides.
AreFilled(leaves, p, N, capacity) ==
  /\ \A j \in 1 .. N : leaves[p[j].slot + 1] = RealLeaf(p[j].leaf)
  /\ \A slot \in 0 .. capacity - 1 : \A leaf :
       leaves[slot + 1] = RealLeaf(leaf) => \E j \in 1 .. N : p[j].leaf = leaf /\ p[j].slot = slot

\* The leaves: the submissions in their slots, and padding in the others.
LEMMA LeavesAre ==
  ASSUME NEW p, NEW o, NEW N \in Nat, NEW H \in 1 .. MaxHeight,
         IsAssigned(p, o, N, TwoTo[H]), NEW k_e
  PROVE  AreLeaves(Leaves(p, k_e, H), H) /\ AreFilled(Leaves(p, k_e, H), p, N, TwoTo[H])
<1> DEFINE c == TwoTo[H]
           lv == Leaves(p, k_e, H)
           Here(n) == \E i \in 1 .. N : p[i].slot = n - 1
           L(n) == IF Here(n) THEN RealLeaf((CHOOSE e \in ToSet(p) : e.slot = n - 1).leaf)
                   ELSE PaddingLeaf(k_e, n - 1)
<1>0. H \in 0 .. MaxHeight
  BY EpochTreeAssumption
<1>1. c \in Nat /\ c > 0
  BY <1>0, TwoToPos
<1>2. /\ Len(p) = N /\ DOMAIN p = 1 .. N
      /\ \A i \in 1 .. N : p[i].slot \in 0 .. c - 1
      /\ \A i, j \in 1 .. N : p[i].slot = p[j].slot => i = j
  BY DEF IsAssigned
<1>3. lv = [n \in 1 .. c |-> L(n)]
  BY <1>2 DEF Leaves, Capacity
<1>4. Len(lv) = c /\ DOMAIN lv = 1 .. c
  <2> HIDE DEF L
  <2> QED
    BY <1>1, <1>3
<1>5. \A n \in 1 .. c : lv[n] = L(n)
  <2> HIDE DEF L
  <2> QED
    BY <1>3
<1> HIDE DEF lv
<1>6. ASSUME NEW j \in 1 .. N PROVE lv[p[j].slot + 1] = RealLeaf(p[j].leaf)
  <2> DEFINE n == p[j].slot + 1
             e == CHOOSE x \in ToSet(p) : x.slot = n - 1
  <2>1. n \in 1 .. c /\ n - 1 = p[j].slot
    BY <1>1, <1>2
  <2>2. p[j] \in ToSet(p) /\ p[j].slot = n - 1
    BY <1>2, <2>1 DEF ToSet
  <2>3. e \in ToSet(p) /\ e.slot = n - 1
    <3> HIDE DEF n
    <3> QED
      BY <2>2
  <2> HIDE DEF e
  <2>4. e = p[j]
    <3>1. PICK i \in 1 .. N : e = p[i]
      BY <1>2, <2>3 DEF ToSet
    <3> QED
      BY <1>2, <2>1, <2>3, <3>1
  <2>5. lv[n] = L(n) /\ Here(n)
    BY <1>5, <2>1
  <2>6. L(n) = RealLeaf(e.leaf)
    BY <2>5 DEF e
  <2> QED
    BY <2>4, <2>5, <2>6
<1>7. ASSUME NEW n \in 1 .. c, NEW a, NEW b PROVE lv[n] # Node(a, b)
  <2>1. lv[n] = L(n)
    BY <1>5
  <2> QED
    BY <2>1, NodeIsNoLeaf
<1>8. ASSUME NEW slot \in 0 .. c - 1, NEW leaf, lv[slot + 1] = RealLeaf(leaf)
      PROVE  \E j \in 1 .. N : p[j].leaf = leaf /\ p[j].slot = slot
  <2>1. slot + 1 \in 1 .. c /\ (slot + 1) - 1 = slot
    BY <1>1
  <2>2. Here(slot + 1)
    <3>1. lv[slot + 1] = L(slot + 1)
      BY <1>5, <2>1
    <3> HIDE DEF Here
    <3> QED
      BY <1>8, <3>1, NodeIsNoLeaf
  <2>3. PICK j \in 1 .. N : p[j].slot = slot
    BY <2>1, <2>2
  <2>4. RealLeaf(p[j].leaf) = RealLeaf(leaf)
    BY <1>6, <1>8, <2>3
  <2> QED
    BY <2>3, <2>4, LeafInjective
<1> QED
  BY <1>0, <1>4, <1>6, <1>7, <1>8 DEF AreLeaves, AreFilled, lv

\* The neighbour at a level is one of that level.
LEMMA SiblingIs ==
  ASSUME NEW H \in 1 .. MaxHeight, NEW slot \in Nat, slot < TwoTo[H], NEW n \in 1 .. H
  PROVE  Sibling(slot \div TwoTo[n - 1]) + 1 \in 1 .. TwoTo[H - (n - 1)]
<1>0. H \in 0 .. MaxHeight /\ n - 1 \in 0 .. H /\ H - (n - 1) \in 1 .. MaxHeight
      /\ (H - (n - 1)) - 1 \in 0 .. MaxHeight
  BY EpochTreeAssumption
<1> DEFINE q == slot \div TwoTo[n - 1]
<1>1. q \in Nat /\ q < TwoTo[H - (n - 1)]
  BY <1>0, ShiftBound
<1>2. TwoTo[H - (n - 1)] = 2 * TwoTo[(H - (n - 1)) - 1] /\ TwoTo[(H - (n - 1)) - 1] \in Nat
  BY <1>0, TwoToIs, TwoToPos
<1> HIDE DEF q
<1>3. Sibling(q) + 1 \in 1 .. TwoTo[H - (n - 1)]
  BY <1>1, <1>2 DEF Sibling
<1> QED
  BY <1>3 DEF q

\* The proof read off the row of nodes is the neighbour at every level.
LEMMA ProofIs ==
  ASSUME NEW H \in 1 .. MaxHeight, NEW built, built.height = H, AreLeaves(built.leaves, H),
         built.nodes = LevelsAbove(built.leaves, H), NEW id,
         SlotOf(built, id) \in 0 .. TwoTo[H] - 1
  PROVE  Proof(built, id) = PathProof(built.leaves, H, SlotOf(built, id), built.epoch)
<1> DEFINE slot == SlotOf(built, id)
           lv == Levels(built.leaves, H)
           c == TwoTo[H]
           At(n) == Sibling(slot \div TwoTo[n])
           Got(n) == IF n = 1 THEN built.leaves[At(0) + 1]
                     ELSE LET at == LevelOffset(n - 1, c) + At(n - 1) + 1
                          IN  IF at \in DOMAIN built.nodes THEN built.nodes[at] ELSE UnknownDigest
<1>0. H \in Nat /\ H \in 0 .. MaxHeight /\ c \in Nat /\ slot \in Nat /\ slot < c
  <2>1. H \in Nat /\ H \in 0 .. MaxHeight
    BY EpochTreeAssumption
  <2> QED
    BY <2>1, TwoToPos
<1>1. lv[0] = built.leaves
  <2>1. AreLevels(lv, built.leaves, H)
    BY LeavesHaveLevels
  <2> HIDE DEF lv
  <2> QED
    BY <2>1 DEF AreLevels
<1>2. /\ DOMAIN built.nodes = 1 .. c - 1
      /\ \A k \in 1 .. H : \A i \in 1 .. TwoTo[H - k] :
           /\ LevelOffset(k, c) + i \in 1 .. c - 1
           /\ built.nodes[LevelOffset(k, c) + i] = lv[k][i]
  BY NodesAre
<1> HIDE DEF lv
<1>3. ASSUME NEW n \in 1 .. H PROVE Got(n) = lv[n - 1][At(n - 1) + 1]
  <2>1. CASE n = 1
    BY <1>1, <2>1
  <2>2. CASE n # 1
    <3>1. n - 1 \in 1 .. H
      BY <1>0, <2>2
    <3>2. At(n - 1) + 1 \in 1 .. TwoTo[H - (n - 1)]
      BY <1>0, SiblingIs
    <3>7. At(n - 1) \in Int
      <4>1. slot \div TwoTo[n - 1] \in Nat
        BY <1>0, ShiftBound
      <4> QED
        BY <4>1 DEF Sibling
    <3>8. LevelOffset(n - 1, c) \in Int
      <4>1. n - 2 \in 0 .. MaxHeight /\ (n - 1) - 1 = n - 2
        BY <1>0, <2>2, EpochTreeAssumption
      <4>2. TwoTo[n - 2] \in Nat /\ TwoTo[n - 2] > 0
        BY <4>1, TwoToPos
      <4> QED
        BY <1>0, <4>1, <4>2 DEF LevelOffset
    <3> HIDE DEF At
    <3>3. PICK a, i : a = LevelOffset(n - 1, c) /\ i = At(n - 1)
      OBVIOUS
    <3>4. a + (i + 1) \in 1 .. c - 1 /\ built.nodes[a + (i + 1)] = lv[n - 1][i + 1]
      BY <1>2, <3>1, <3>2, <3>3
    <3>5. a + i + 1 = a + (i + 1)
      BY <3>3, <3>7, <3>8
    <3>6. Got(n) = IF a + i + 1 \in DOMAIN built.nodes THEN built.nodes[a + i + 1] ELSE UnknownDigest
      BY <2>2, <3>3
    <3> HIDE DEF Got
    <3> QED
      BY <1>2, <3>3, <3>4, <3>5, <3>6
  <2> QED
    BY <2>1, <2>2
<1>4. Proof(built, id)
        = [height |-> H, slot_index |-> slot, epoch |-> built.epoch,
           siblings |-> [n \in 1 .. H |-> Got(n)]]
  BY DEF Proof, Capacity
<1>5. [n \in 1 .. H |-> Got(n)] = [n \in 1 .. H |-> lv[n - 1][At(n - 1) + 1]]
  <2> HIDE DEF Got, At
  <2> QED
    BY <1>3
<1>6. PathProof(built.leaves, H, slot, built.epoch)
        = [height |-> H, slot_index |-> slot, epoch |-> built.epoch,
           siblings |-> [n \in 1 .. H |-> lv[n - 1][At(n - 1) + 1]]]
  BY DEF PathProof, lv
<1> HIDE DEF Got, At
<1> QED
  BY <1>4, <1>5, <1>6

\* p and real say the same of leaves and slots.
AreSlots(built, real, p) ==
  /\ \A i \in DOMAIN real : \E j \in 1 .. Len(real) :
       p[j].leaf = real[i].leaf /\ SlotOf(built, real[i].id) = p[j].slot
  /\ \A j \in 1 .. Len(real) : \E i \in DOMAIN real :
       p[j].leaf = real[i].leaf /\ SlotOf(built, real[i].id) = p[j].slot

\* Where the submissions of real were placed.
LEMMA PlacedAt ==
  ASSUME NEW real, AreDistinct(real), NEW p, NEW c,
         IsAssigned(p, Ordered(real), Len(real), c), NEW built,
         built.assignment = [i \in DOMAIN p |-> [id |-> p[i].id, slot |-> p[i].slot]]
  PROVE  AreSlots(built, real, p)
<1> DEFINE N == Len(real)
           o == Ordered(real)
           A == ToSet(built.assignment)
<1>1. /\ \A n \in 1 .. N : o[n] \in ToSet(real)
      /\ \A e \in ToSet(real) : \E n \in 1 .. N : o[n] = e
      /\ \A m, n \in 1 .. N : o[m].id = o[n].id => m = n
  BY OrderedIs DEF IsOrder
<1>2. /\ DOMAIN p = 1 .. N
      /\ \A i \in 1 .. N : p[i].id = o[i].id /\ p[i].leaf = o[i].leaf
  BY DEF IsAssigned
<1>3. A = {[id |-> p[i].id, slot |-> p[i].slot] : i \in 1 .. N}
  BY <1>2 DEF ToSet
<1> HIDE DEF A, o, N
<1>4. ASSUME NEW j \in 1 .. N PROVE SlotOf(built, o[j].id) = p[j].slot
  <2> DEFINE a == CHOOSE x \in A : x.id = o[j].id
             e == [id |-> p[j].id, slot |-> p[j].slot]
  <2>1. e \in A /\ e.id = o[j].id
    BY <1>2, <1>3
  <2>2. a \in A /\ a.id = o[j].id
    <3> HIDE DEF e
    <3> QED
      BY <2>1
  <2>3. PICK i \in 1 .. N : a = [id |-> p[i].id, slot |-> p[i].slot]
    <3> HIDE DEF a
    <3> QED
      BY <1>3, <2>2
  <2>4. SlotOf(built, o[j].id) = a.slot
    BY DEF SlotOf, A
  <2> HIDE DEF a, e
  <2>5. p[i].id = o[j].id /\ a.slot = p[i].slot
    BY <2>2, <2>3
  <2>6. i = j
    BY <1>1, <1>2, <2>5
  <2> QED
    BY <2>4, <2>5, <2>6
<1>5. ASSUME NEW i \in DOMAIN real
      PROVE  \E j \in 1 .. N : p[j].leaf = real[i].leaf /\ SlotOf(built, real[i].id) = p[j].slot
  <2>1. real[i] \in ToSet(real)
    BY DEF ToSet
  <2>2. PICK j \in 1 .. N : o[j] = real[i]
    BY <1>1, <2>1
  <2> QED
    BY <1>2, <1>4, <2>2
<1>6. ASSUME NEW j \in 1 .. N
      PROVE  \E i \in DOMAIN real : p[j].leaf = real[i].leaf /\ SlotOf(built, real[i].id) = p[j].slot
  <2>1. PICK i \in DOMAIN real : o[j] = real[i]
    BY <1>1 DEF ToSet
  <2> QED
    BY <1>2, <1>4, <2>1
<1> QED
  BY <1>5, <1>6 DEF N, AreSlots

\* EpochTree::build gives a tree over what it was given.
LEMMA BuildIs ==
  ASSUME NEW epoch, NEW H \in MinHeight .. MaxHeight, NEW master, NEW real, NEW bytes,
         IsInput(real, EpochKey(master, epoch), H, bytes)
  PROVE  IsTree(Build(epoch, H, master, real, bytes), real, epoch, H)
<1> DEFINE k_e == EpochKey(master, epoch)
           p == Assign(real, k_e, H, bytes)
           b == Build(epoch, H, master, real, bytes)
           c == TwoTo[H]
<1>0. H \in 1 .. MaxHeight /\ Len(real) \in Nat /\ AreDistinct(real)
  BY EpochTreeAssumption DEF IsInput, AreDistinct
<1>1. IsAssigned(p, Ordered(real), Len(real), c)
  BY AssignIs
<1>2. /\ b.epoch = epoch /\ b.height = H /\ b.leaves = Leaves(p, k_e, H)
      /\ b.nodes = LevelsAbove(b.leaves, H) /\ b.root = Last(b.nodes)
      /\ b.assignment = [i \in DOMAIN p |-> [id |-> p[i].id, slot |-> p[i].slot]]
  BY DEF Build
<1> HIDE DEF k_e, p, b, c
<1>3. /\ AreLeaves(b.leaves, H)
      /\ \A j \in 1 .. Len(real) : b.leaves[p[j].slot + 1] = RealLeaf(p[j].leaf)
      /\ \A slot \in 0 .. c - 1 : \A leaf :
           b.leaves[slot + 1] = RealLeaf(leaf)
             => \E j \in 1 .. Len(real) : p[j].leaf = leaf /\ p[j].slot = slot
  <2>1. AreLeaves(b.leaves, H) /\ AreFilled(b.leaves, p, Len(real), c)
    <3>1. IsAssigned(p, Ordered(real), Len(real), TwoTo[H])
      BY <1>1 DEF c
    <3>2. AreLeaves(Leaves(p, k_e, H), H) /\ AreFilled(Leaves(p, k_e, H), p, Len(real), TwoTo[H])
      BY <1>0, <3>1, LeavesAre
    <3> QED
      BY <1>2, <3>2 DEF c
  <2> QED
    BY <2>1 DEF AreFilled
<1>4. b.root = Levels(b.leaves, H)[H][1]
  BY <1>0, <1>2, <1>3, NodesAre
<1>5. \A j \in 1 .. Len(real) : p[j].slot \in 0 .. c - 1
  BY <1>1 DEF IsAssigned
<1>6. /\ \A i \in DOMAIN real : \E j \in 1 .. Len(real) :
           p[j].leaf = real[i].leaf /\ SlotOf(b, real[i].id) = p[j].slot
      /\ \A j \in 1 .. Len(real) : \E i \in DOMAIN real :
           p[j].leaf = real[i].leaf /\ SlotOf(b, real[i].id) = p[j].slot
  <2>1. AreSlots(b, real, p)
    BY <1>0, <1>1, <1>2, PlacedAt
  <2> QED
    BY <2>1 DEF AreSlots
<1>7. ASSUME NEW i \in DOMAIN real
      PROVE  /\ SlotOf(b, real[i].id) \in 0 .. c - 1
             /\ b.leaves[SlotOf(b, real[i].id) + 1] = RealLeaf(real[i].leaf)
             /\ Proof(b, real[i].id) = PathProof(b.leaves, H, SlotOf(b, real[i].id), epoch)
  <2>1. SlotOf(b, real[i].id) \in 0 .. c - 1
    BY <1>5, <1>6
  <2>2. b.leaves[SlotOf(b, real[i].id) + 1] = RealLeaf(real[i].leaf)
    BY <1>3, <1>6
  <2>3. Proof(b, real[i].id) = PathProof(b.leaves, H, SlotOf(b, real[i].id), epoch)
    BY <1>0, <1>2, <1>3, <2>1, ProofIs DEF c
  <2> QED
    BY <2>1, <2>2, <2>3
<1>8. ASSUME NEW slot \in 0 .. c - 1, NEW leaf, b.leaves[slot + 1] = RealLeaf(leaf)
      PROVE  \E i \in DOMAIN real : real[i].leaf = leaf /\ SlotOf(b, real[i].id) = slot
  <2>1. PICK j \in 1 .. Len(real) : p[j].leaf = leaf /\ p[j].slot = slot
    BY <1>3, <1>8
  <2> QED
    BY <1>6, <2>1
<1> QED
  BY <1>2, <1>3, <1>4, <1>7, <1>8 DEF IsTree, b, c

\* buildEpoch gives the tree of build, and proofFor the proof of proof.
LEMMA BuildsAgree ==
  ASSUME NEW epoch, NEW H \in MinHeight .. MaxHeight, NEW master, NEW real, NEW bytes,
         IsInput(real, EpochKey(master, epoch), H, bytes)
  PROVE  LET b  == Build(epoch, H, master, real, bytes)
             ts == BuildTs(epoch, H, master, real, bytes)
         IN  /\ ts = [epoch |-> b.epoch, height |-> b.height, root |-> b.root,
                      leaves |-> b.leaves, assignment |-> b.assignment]
             /\ \A i \in DOMAIN real : ProofTs(ts, real[i].id) = Proof(b, real[i].id)
<1> DEFINE b  == Build(epoch, H, master, real, bytes)
           ts == BuildTs(epoch, H, master, real, bytes)
<1>1. AssignTs(real, EpochKey(master, epoch), H, bytes)
        = Assign(real, EpochKey(master, epoch), H, bytes)
  BY AssignsAgree
<1>2. IsTree(b, real, epoch, H)
  BY BuildIs
<1>5. b.root = Levels(b.leaves, H)[H][1]
  BY <1>2 DEF IsTree
<1>3. ts = [epoch |-> b.epoch, height |-> b.height, root |-> b.root,
            leaves |-> b.leaves, assignment |-> b.assignment]
  <2>1. /\ b.epoch = epoch /\ b.height = H
        /\ ts = [epoch |-> epoch, height |-> H, root |-> Levels(b.leaves, H)[H][1],
                 leaves |-> b.leaves, assignment |-> b.assignment]
    BY <1>1 DEF Build, BuildTs
  <2> QED
    BY <1>5, <2>1
<1>4. ASSUME NEW i \in DOMAIN real PROVE ProofTs(ts, real[i].id) = Proof(b, real[i].id)
  <2>1. /\ Proof(b, real[i].id) = PathProof(b.leaves, H, SlotOf(b, real[i].id), epoch)
        /\ b.height = H /\ b.epoch = epoch
    <3> HIDE DEF b, ts
    <3> QED
      BY <1>2 DEF IsTree
  <2> HIDE DEF b, ts
  <2>2. /\ SlotOf(ts, real[i].id) = SlotOf(b, real[i].id)
        /\ ts.height = H /\ ts.epoch = epoch /\ ts.leaves = b.leaves
    BY <1>3, <2>1 DEF SlotOf
  <2>3. ProofTs(ts, real[i].id) = PathProof(b.leaves, H, SlotOf(b, real[i].id), epoch)
    BY <2>2 DEF ProofTs, PathProof
  <2> QED
    BY <2>1, <2>3
<1> QED
  BY <1>3, <1>4

\* One set of submissions is one tree, and only its own seeds decide it.
LEMMA BuildOfSet ==
  ASSUME NEW epoch, NEW H, NEW master, NEW a, NEW lowA, NEW b, NEW lowB,
         IsInput(a, EpochKey(master, epoch), H, lowA),
         IsInput(b, EpochKey(master, epoch), H, lowB), Len(a) = Len(b), ToSet(a) = ToSet(b),
         \A i \in DOMAIN a : lowA[SlotSeed(EpochKey(master, epoch), a[i].id)]
                               = lowB[SlotSeed(EpochKey(master, epoch), a[i].id)]
  PROVE  Build(epoch, H, master, a, lowA) = Build(epoch, H, master, b, lowB)
<1>1. Assign(a, EpochKey(master, epoch), H, lowA) = Assign(b, EpochKey(master, epoch), H, lowB)
  BY AssignOfSet
<1> QED
  BY <1>1 DEF Build

----------------------------------------------------------------------------
(* What proves against a root. *)

\* tree.rs and proof.rs: the proof that a tree gives for a submission verifies
\* against its root, at the tree's height, wherever the probe put the leaf.
THEOREM TreeProves ==
  ASSUME NEW H, NEW built, NEW real, NEW epoch, IsTree(built, real, epoch, H),
         NEW i \in DOMAIN real
  PROVE  /\ Verify(real[i].leaf, Proof(built, real[i].id), built.root) = "Ok"
         /\ Proof(built, real[i].id).height = H
         /\ Proof(built, real[i].id).epoch = epoch
         /\ Proof(built, real[i].id).slot_index \in Nat
<1> DEFINE proof == Proof(built, real[i].id)
           slot == SlotOf(built, real[i].id)
           leaf == real[i].leaf
           lv == Levels(built.leaves, H)
           Up(n) == lv[n - 1][Sibling(slot \div TwoTo[n - 1]) + 1]
<1>1. /\ H \in MinHeight .. MaxHeight /\ AreLeaves(built.leaves, H) /\ built.root = lv[H][1]
      /\ slot \in 0 .. TwoTo[H] - 1 /\ built.leaves[slot + 1] = RealLeaf(leaf)
      /\ proof = PathProof(built.leaves, H, slot, epoch)
  BY DEF IsTree
<1>2. H \in Nat /\ H \in 0 .. MaxHeight /\ TwoTo[H] \in Nat
  <2>1. H \in Nat /\ H \in 0 .. MaxHeight
    BY <1>1, EpochTreeAssumption
  <2> QED
    BY <2>1, TwoToPos
<1>3. slot \in Nat /\ slot < TwoTo[H]
  BY <1>1, <1>2
<1>4. proof = [height |-> H, slot_index |-> slot, epoch |-> epoch,
               siblings |-> [n \in 1 .. H |-> Up(n)]]
  BY <1>1 DEF PathProof
<1> HIDE DEF proof, slot, leaf, lv, Up
<1>5. /\ proof.height = H /\ proof.slot_index = slot /\ proof.epoch = epoch
      /\ Len(proof.siblings) = H /\ \A n \in 1 .. H : proof.siblings[n] = Up(n)
  BY <1>2, <1>4
<1>6. WellFormed(proof)
  BY <1>1, <1>3, <1>5 DEF WellFormed, Capacity
<1>7. PICK nd : /\ IsPath(nd, leaf, slot, proof.siblings, H)
                /\ nd[H] = Climb(leaf, proof)[Len(proof.siblings)].node
  BY <1>2, <1>3, <1>5, PathRust
<1>8. nd[H] = lv[H][1]
  <2>1. AreSiblings(proof.siblings, built.leaves, H, slot)
    BY <1>5 DEF AreSiblings, lv, Up
  <2>3. nd[H] = Levels(built.leaves, H)[H][1]
    BY <1>1, <1>3, <1>7, <2>1, PathIsComplete
  <2> QED
    BY <2>3 DEF lv
<1>9. Verify(leaf, proof, built.root) = "Ok"
  BY <1>1, <1>5, <1>6, <1>7, <1>8 DEF Verify
<1> QED
  BY <1>3, <1>5, <1>9 DEF proof, leaf

\* proof.rs: whatever the proof, verify accepts it against the root of a tree
\* only at the tree's height, for a leaf that was submitted and sits in the slot
\* the proof names.
THEOREM OnlyTheTreeProves ==
  ASSUME NEW H, NEW built, NEW real, NEW epoch, IsTree(built, real, epoch, H),
         NEW leaf, NEW proof, proof.slot_index \in Nat, Verify(leaf, proof, built.root) = "Ok"
  PROVE  /\ proof.height = H
         /\ \E i \in DOMAIN real :
              real[i].leaf = leaf /\ SlotOf(built, real[i].id) = proof.slot_index
<1> DEFINE slot == proof.slot_index
           h == proof.height
<1>1. /\ H \in MinHeight .. MaxHeight /\ AreLeaves(built.leaves, H)
      /\ built.root = Levels(built.leaves, H)[H][1]
      /\ \A s \in 0 .. TwoTo[H] - 1 : \A l :
           built.leaves[s + 1] = RealLeaf(l)
             => \E i \in DOMAIN real : real[i].leaf = l /\ SlotOf(built, real[i].id) = s
  BY DEF IsTree
<1>2. /\ h \in MinHeight .. MaxHeight /\ Len(proof.siblings) = h /\ slot < TwoTo[h]
      /\ Climb(leaf, proof)[Len(proof.siblings)].node = built.root
  BY DEF Verify, WellFormed, Capacity
<1>3. h \in 0 .. MaxHeight /\ h \in Nat
  BY <1>2, EpochTreeAssumption
<1>4. PICK nd : /\ IsPath(nd, leaf, slot, proof.siblings, h)
                /\ nd[h] = Climb(leaf, proof)[Len(proof.siblings)].node
  BY <1>2, <1>3, PathRust
<1>5. h = H /\ built.leaves[slot + 1] = RealLeaf(leaf)
  BY <1>1, <1>2, <1>3, <1>4, PathIsSound
<1>6. slot \in 0 .. TwoTo[H] - 1
  <2>1. TwoTo[H] \in Nat
    BY <1>3, <1>5, TwoToPos
  <2> QED
    BY <1>2, <1>5, <2>1
<1> QED
  BY <1>1, <1>5, <1>6

----------------------------------------------------------------------------
(* Walks over heads. *)

\* f are the heads of a walk over the first N leaves.
IsWalk(f, head, leaves, N) ==
  f[0] = head /\ \A n \in 1 .. N : f[n] = AdvanceHead(f[n - 1], leaves[n])

\* Two walks from one head over the same leaves come to the same heads.
LEMMA WalkUnique ==
  ASSUME NEW f, NEW g, NEW head, NEW a, NEW b, NEW N \in Nat,
         IsWalk(f, head, a, N), IsWalk(g, head, b, N), \A n \in 1 .. N : a[n] = b[n]
  PROVE  f[N] = g[N]
<1> DEFINE Same == {n \in Nat : n <= N => f[n] = g[n]}
<1>1. 0 \in Same
  BY DEF IsWalk
<1>2. ASSUME NEW n \in Same PROVE n + 1 \in Same
  <2> SUFFICES ASSUME n + 1 <= N PROVE f[n + 1] = g[n + 1]
    OBVIOUS
  <2>1. n + 1 \in 1 .. N /\ (n + 1) - 1 = n /\ f[n] = g[n]
    OBVIOUS
  <2> QED
    BY <2>1 DEF IsWalk
<1>3. N \in Same
  <2>1. Same \in SUBSET Nat /\ \A n \in Same : n + 1 \in Same
    BY <1>2
  <2> HIDE DEF Same
  <2> QED
    BY <1>1, <2>1, SetInduction
<1> QED
  BY <1>3

\* HeadAfter is the end of a walk.
LEMMA HeadAfterIs ==
  ASSUME NEW head, NEW leaves, Len(leaves) \in Nat
  PROVE  \E f : IsWalk(f, head, leaves, Len(leaves)) /\ HeadAfter(head, leaves) = f[Len(leaves)]
<1> DEFINE N == Len(leaves)
           D(f, n) == IF n = 0 THEN head ELSE AdvanceHead(f[n - 1], leaves[n])
           zero == [n \in 1 .. N |-> 0]
<1>1. PICK f : IsHashing(f, N, head, "CMv1HEAD", zero, leaves)
  BY Hashing
<1>2. f[0] = head /\ \A n \in 1 .. N : f[n] = AdvanceHead(f[n - 1], leaves[n])
  <2>1. /\ f[0] = head
        /\ \A n \in 1 .. N :
             f[n] = IF zero[n] = 0 THEN Keccak256(<<"CMv1HEAD", f[n - 1], leaves[n]>>)
                    ELSE Keccak256(<<"CMv1HEAD", leaves[n], f[n - 1]>>)
    <3>1. N \in Nat
      OBVIOUS
    <3> HIDE DEF zero, N
    <3> QED
      BY <1>1, <3>1, HashingStep
  <2> QED
    BY <2>1 DEF AdvanceHead
<1>3. f = [n \in 0 .. N |-> D(f, n)]
  <2>1. ASSUME NEW n \in 0 .. N PROVE f[n] = D(f, n)
    <3>1. n = 0 \/ n \in 1 .. N
      OBVIOUS
    <3> QED
      BY <1>2, <3>1
  <2>2. f = [n \in 0 .. N |-> f[n]]
    BY <1>1 DEF IsHashing
  <2> HIDE DEF D
  <2> QED
    BY <2>1, <2>2
<1> DEFINE after == CHOOSE g : g = [n \in 0 .. N |-> D(g, n)]
<1>4. after = [n \in 0 .. N |-> D(after, n)]
  <2> HIDE DEF D
  <2> QED
    BY <1>3
<1>5. HeadAfter(head, leaves) = after[N]
  BY DEF HeadAfter
<1> HIDE DEF after
<1>6. IsWalk(after, head, leaves, N)
  <2>1. 0 \in 0 .. N /\ \A n \in 1 .. N : n # 0 /\ n \in 0 .. N
    OBVIOUS
  <2>2. after[0] = D(after, 0) /\ \A n \in 1 .. N : n # 0 /\ after[n] = D(after, n)
    <3> HIDE DEF D
    <3> QED
      BY <1>4, <2>1
  <2> QED
    BY <2>2 DEF IsWalk
<1> QED
  BY <1>5, <1>6

\* And the end of every walk over these leaves.
LEMMA HeadAfterWalk ==
  ASSUME NEW head, NEW leaves, NEW N \in Nat, Len(leaves) = N, NEW f, NEW b,
         IsWalk(f, head, b, N), \A n \in 1 .. N : leaves[n] = b[n]
  PROVE  HeadAfter(head, leaves) = f[N]
<1>1. PICK g : IsWalk(g, head, leaves, Len(leaves)) /\ HeadAfter(head, leaves) = g[Len(leaves)]
  BY HeadAfterIs
<1>2. g[N] = f[N]
  BY <1>1, WalkUnique
<1> QED
  BY <1>1, <1>2

\* Two walks that end in the same head came through the same heads, as far back
\* as both go.
LEMMA WalkBack ==
  ASSUME NEW f, NEW a, NEW x, NEW M \in Nat, IsWalk(f, x, a, M),
         NEW g, NEW b, NEW y, NEW N \in Nat, IsWalk(g, y, b, N), f[M] = g[N], N <= M
  PROVE  f[M - N] = y
<1> DEFINE Same == {j \in Nat : j <= N => f[M - j] = g[N - j]}
<1>1. 0 \in Same
  <2>1. M - 0 = M /\ N - 0 = N
    OBVIOUS
  <2> QED
    BY <2>1
<1>2. ASSUME NEW j \in Same PROVE j + 1 \in Same
  <2> SUFFICES ASSUME j + 1 <= N PROVE f[M - (j + 1)] = g[N - (j + 1)]
    OBVIOUS
  <2>1. /\ M - j \in 1 .. M /\ N - j \in 1 .. N /\ f[M - j] = g[N - j]
        /\ (M - j) - 1 = M - (j + 1) /\ (N - j) - 1 = N - (j + 1)
    OBVIOUS
  <2>2. AdvanceHead(f[(M - j) - 1], a[M - j]) = AdvanceHead(g[(N - j) - 1], b[N - j])
    BY <2>1 DEF IsWalk
  <2>3. f[(M - j) - 1] = g[(N - j) - 1]
    BY <2>2, AdvanceInjective
  <2> QED
    BY <2>1, <2>3
<1>3. N \in Same
  <2>1. Same \in SUBSET Nat /\ \A n \in Same : n + 1 \in Same
    BY <1>2
  <2> HIDE DEF Same
  <2> QED
    BY <1>1, <2>1, SetInduction
<1>4. f[M - N] = g[N - N] /\ N - N = 0
  BY <1>3
<1> QED
  BY <1>4 DEF IsWalk

\* A walk that ends where n leaves of the chain do is no longer than that; if it
\* is as long, it began at the genesis head.
LEMMA WalkToChain ==
  ASSUME NEW f, NEW a, NEW x, NEW M \in Nat, IsWalk(f, x, a, M),
         NEW g, NEW b, NEW c, NEW N \in Nat, IsWalk(g, Genesis(c), b, N), f[M] = g[N]
  PROVE  M <= N /\ (M = N => x = Genesis(c))
<1>1. ASSUME N < M PROVE FALSE
  <2>1. f[M - N] = Genesis(c)
    BY <1>1, WalkBack
  <2>2. M - N \in 1 .. M
    BY <1>1
  <2>3. f[M - N] = AdvanceHead(f[(M - N) - 1], a[M - N])
    BY <2>2 DEF IsWalk
  <2> QED
    BY <2>1, <2>3, GenesisIsNoAdvance
<1>2. ASSUME M = N PROVE x = Genesis(c)
  <2>1. f[M - N] = Genesis(c) /\ M - N = 0
    BY <1>2, WalkBack
  <2> QED
    BY <2>1 DEF IsWalk
<1> QED
  BY <1>1, <1>2

----------------------------------------------------------------------------
(* The inductive invariant. *)

Digests == {Keccak256(b) : b \in Signed}

Entry == [id : Id, leaf : Digests]

\* Every epoch is a tree over the submissions it was built from.
SealedOK ==
  /\ Len(sealed) \in Nat /\ (\E X : sealed \in Seq(X))
  /\ \A n \in 1 .. Len(sealed) : IsTree(sealed[n].built, sealed[n].real, n - 1, height)

\* The newest is the tree that the seeds known now give.
NewestOK ==
  sealed # <<>> =>
    LET s == sealed[Len(sealed)]
        e == Len(sealed) - 1
    IN  /\ s.built = Build(e, height, Master, s.real, low)
        /\ IsInput(s.real, EpochKey(Master, e), height, low)

IsSegment(segment) == segment = Nothing \/ \E n \in Nat : segment = [i \in 1 .. n |-> segment[i]]

\* What nobody can make up in a package is a signature over other bytes than
\* somebody signed; a package nothing was replaced in is what was released.
PackageOK ==
  package # Nothing =>
    /\ Len(sealed) = 1
    /\ DOMAIN package = Part
    /\ package.qp_signature \in {SignatureOf(b) : b \in Signed} \cup {Nothing}
    /\ IsSegment(package.segment)
    /\ package.inclusion.slot_index \in Nat
    /\ replaced = {} =>
         \E bytes \in Signed, run \in Seq(AnyLeaf) : \E base, withSegment, proof :
           package = PackageOf(bytes, base, run, withSegment, proof)

IInv ==
  /\ height \in Heights /\ aside \in Aside /\ queue \in Seq(Entry)
  /\ SealedOK /\ NewestOK /\ PackageOK

\* Some submissions of the queue are submissions.
LEMMA AmongIs ==
  ASSUME queue \in Seq(Entry), NEW ids
  PROVE  Among(ids) \in Seq(Entry)
<1> DEFINE N == Len(queue)
           T == Seq(Entry)
           Put(s, n) == IF queue[n].id \in ids THEN Append(s, queue[n]) ELSE s
           D(f, n) == IF n = 0 THEN <<>> ELSE Put(f[n - 1], n)
           step == [n \in 1 .. N |-> [s \in T |-> Put(s, n)]]
<1>1. N \in Nat /\ \A n \in 1 .. N : queue[n] \in Entry
  OBVIOUS
<1> HIDE DEF N
<1>2. step \in [1 .. N -> [T -> T]] /\ <<>> \in T
  <2>1. ASSUME NEW n \in 1 .. N, NEW s \in T PROVE Put(s, n) \in T
    BY <1>1
  <2>2. <<>> \in T
    OBVIOUS
  <2> HIDE DEF Put, T
  <2> QED
    BY <2>1, <2>2
<1> HIDE DEF T
<1>3. PICK f : IsLoop(f, N, T, <<>>, step)
  <2> HIDE DEF step
  <2> QED
    BY <1>1, <1>2, Loop
<1>4. f \in [0 .. N -> T] /\ f[0] = <<>> /\ \A n \in 1 .. N : f[n] = Put(f[n - 1], n)
  <2>1. f \in [0 .. N -> T] /\ f[0] = <<>> /\ \A n \in 1 .. N : f[n] = step[n][f[n - 1]]
    <3> HIDE DEF step
    <3> QED
      BY <1>3 DEF IsLoop
  <2>2. \A n \in 1 .. N : n - 1 \in 0 .. N
    BY <1>1
  <2>3. \A n \in 1 .. N : f[n - 1] \in T
    <3> HIDE DEF step
    <3> QED
      BY <2>1, <2>2
  <2>4. \A n \in 1 .. N : step[n][f[n - 1]] = Put(f[n - 1], n)
    <3> HIDE DEF Put
    <3> QED
      BY <2>3
  <2> HIDE DEF step, Put
  <2> QED
    BY <2>1, <2>4
<1> HIDE DEF step
<1>5. f = [n \in 0 .. N |-> D(f, n)]
  <2>1. ASSUME NEW n \in 0 .. N PROVE f[n] = D(f, n)
    <3>1. n = 0 \/ n \in 1 .. N
      BY <1>1
    <3> HIDE DEF Put
    <3> QED
      BY <1>4, <3>1
  <2>2. f = [n \in 0 .. N |-> f[n]]
    BY <1>4
  <2> HIDE DEF D
  <2> QED
    BY <2>1, <2>2
<1> DEFINE among == CHOOSE g : g = [n \in 0 .. N |-> D(g, n)]
<1>6. among = [n \in 0 .. N |-> D(among, n)]
  <2> HIDE DEF D
  <2> QED
    BY <1>5
<1>7. Among(ids) = among[N]
  BY DEF Among, N
<1> HIDE DEF among
<1> DEFINE Fine == {n \in Nat : n <= N => among[n] \in T}
<1>8. 0 \in Fine
  <2>1. 0 \in 0 .. N
    BY <1>1
  <2>2. among[0] = D(among, 0)
    <3> HIDE DEF D
    <3> QED
      BY <1>6, <2>1
  <2> QED
    BY <1>2, <2>2
<1>9. ASSUME NEW n \in Fine PROVE n + 1 \in Fine
  <2> SUFFICES ASSUME n + 1 <= N PROVE among[n + 1] \in T
    OBVIOUS
  <2>1. n + 1 \in 0 .. N /\ n + 1 \in 1 .. N /\ (n + 1) - 1 = n /\ n + 1 # 0 /\ among[n] \in T
    BY <1>1
  <2>2. among[n + 1] = D(among, n + 1)
    <3> HIDE DEF D
    <3> QED
      BY <1>6, <2>1
  <2>3. among[n + 1] = Put(among[n], n + 1)
    BY <2>1, <2>2
  <2> QED
    BY <1>1, <2>1, <2>3 DEF T
<1>10. N \in Fine
  <2>1. Fine \in SUBSET Nat /\ \A n \in Fine : n + 1 \in Fine
    BY <1>9
  <2> HIDE DEF Fine
  <2> QED
    BY <1>1, <1>8, <2>1, SetInduction
<1>11. among[N] \in T
  BY <1>1, <1>10
<1> QED
  BY <1>7, <1>11 DEF T

LEMMA InvInit ==
  ASSUME Init PROVE IInv
<1>1. height \in Heights /\ aside \in Aside /\ queue = <<>> /\ sealed = <<>> /\ package = Nothing
  BY DEF Init
<1>2. Len(sealed) = 0 /\ sealed \in Seq({}) /\ 1 .. 0 = {}
  BY <1>1
<1>3. SealedOK
  BY <1>2 DEF SealedOK
<1>4. NewestOK /\ PackageOK
  BY <1>1 DEF NewestOK, PackageOK
<1> QED
  BY <1>1, <1>3, <1>4 DEF IInv

LEMMA InvSubmit ==
  ASSUME IInv, NEW bytes \in Signed, NEW id \in Id, Submit(bytes, id)
  PROVE  IInv'
<1>1. /\ UNCHANGED <<height, aside, sealed, low, package, replaced>>
      /\ queue' = Append(queue, [id |-> id, leaf |-> Keccak256(bytes)])
      /\ package = Nothing
  BY DEF Submit
<1>2. Entry' = Entry
  BY <1>1 DEF Entry, Digests, Signed
<1>3. [id |-> id, leaf |-> Keccak256(bytes)] \in Entry
  BY DEF Entry, Digests
<1>4. queue' \in Seq(Entry)
  <2> HIDE DEF Entry
  <2> QED
    BY <1>1, <1>3 DEF IInv
<1>5. SealedOK' /\ NewestOK'
  BY <1>1 DEF IInv, SealedOK, NewestOK
<1>6. PackageOK'
  BY <1>1 DEF PackageOK
<1> QED
  BY <1>1, <1>2, <1>4, <1>5, <1>6 DEF IInv

\* What is not refused can be built from.
LEMMA Buildable ==
  ASSUME IInv, NEW real \in Seq(Entry), BuildRefused(real, height) = "Ok", NEW k_e, NEW bytes,
         \A i \in DOMAIN real : bytes[SlotSeed(k_e, real[i].id)] \in Nat
  PROVE  IsInput(real, k_e, height, bytes)
<1>1. height \in MinHeight .. MaxHeight /\ height \in 1 .. MaxHeight
  <2>1. height \in Heights
    BY DEF IInv
  <2> QED
    BY <2>1, EpochTreeAssumption, DisclosureAssumption
<1>2. Len(real) <= TwoTo[height] /\ ~Duplicated(real)
  BY <1>1, TwoToPos, EpochTreeAssumption DEF BuildRefused, Capacity
<1>3. Len(real) \in Nat /\ DOMAIN real = 1 .. Len(real)
  OBVIOUS
<1>4. ASSUME NEW i \in DOMAIN real PROVE real[i].id \in Nat
  <2>1. real[i] \in Entry
    <3> HIDE DEF Entry
    <3> QED
      OBVIOUS
  <2> QED
    BY <2>1, DisclosureAssumption DEF Entry
<1>5. \A i, j \in DOMAIN real : real[i].id = real[j].id => i = j
  BY <1>2 DEF Duplicated
<1> QED
  BY <1>1, <1>2, <1>3, <1>4, <1>5 DEF IsInput, AreDistinct

LEMMA InvSeal ==
  ASSUME IInv, NEW left, NEW bytes \in [SeedsOf(Without(left)) -> Low], Seal(left, bytes)
  PROVE  IInv'
<1> DEFINE epoch == Len(sealed)
           real == Without(left)
           built == Build(epoch, height, Master, real, bytes)
           k_e == EpochKey(Master, epoch)
<1>1. /\ UNCHANGED <<height, aside, package, replaced>> /\ package = Nothing
      /\ BuildRefused(real, height) = "Ok"
      /\ sealed' = Append(sealed, [real |-> real, built |-> built])
      /\ low' = [seed \in DOMAIN bytes \cup DOMAIN low |->
                   IF seed \in DOMAIN bytes THEN bytes[seed] ELSE low[seed]]
      /\ queue' = Among(left)
  BY DEF Seal
<1>2. queue \in Seq(Entry) /\ height \in MinHeight .. MaxHeight
  BY DisclosureAssumption DEF IInv
<1>3. real \in Seq(Entry) /\ queue' \in Seq(Entry)
  BY <1>1, <1>2, AmongIs DEF Without
<1>4. Entry' = Entry
  BY <1>1 DEF Entry, Digests, Signed
<1>5. ASSUME NEW i \in DOMAIN real
      PROVE  /\ SlotSeed(k_e, real[i].id) \in DOMAIN bytes
             /\ bytes[SlotSeed(k_e, real[i].id)] \in Nat
             /\ low'[SlotSeed(k_e, real[i].id)] = bytes[SlotSeed(k_e, real[i].id)]
  <2>1. SlotSeed(k_e, real[i].id) \in SeedsOf(real)
    BY DEF SeedsOf
  <2> HIDE DEF real, k_e
  <2>2. SlotSeed(k_e, real[i].id) \in DOMAIN bytes /\ bytes[SlotSeed(k_e, real[i].id)] \in Low
    BY <2>1 DEF real
  <2>3. bytes[SlotSeed(k_e, real[i].id)] \in Nat
    BY <2>2, DisclosureAssumption
  <2>4. low'[SlotSeed(k_e, real[i].id)] = bytes[SlotSeed(k_e, real[i].id)]
    BY <1>1, <2>2
  <2> QED
    BY <2>2, <2>3, <2>4
<1> HIDE DEF epoch, real, built, k_e
<1>6. IsInput(real, k_e, height, bytes) /\ IsInput(real, k_e, height, low')
  BY <1>1, <1>3, <1>5, Buildable
<1>7. built = Build(epoch, height, Master, real, low')
  BY <1>5, <1>6, BuildOfSet DEF built, k_e
<1>8. IsTree(built, real, epoch, height)
  BY <1>2, <1>6, BuildIs DEF built, k_e
<1> DEFINE s == [real |-> real, built |-> built]
<1>9. PICK X : sealed \in Seq(X)
  BY DEF IInv, SealedOK
<1>10. s.real = real /\ s.built = built
  OBVIOUS
<1> HIDE DEF s
<1>11. sealed' = Append(sealed, s)
  BY <1>1 DEF s
<1>12. sealed \in Seq(X \cup {s}) /\ s \in X \cup {s}
  BY <1>9
<1>13. /\ sealed' \in Seq(X \cup {s}) /\ Len(sealed') = epoch + 1 /\ epoch \in Nat
       /\ \A n \in 1 .. epoch : sealed'[n] = sealed[n]
       /\ sealed'[epoch + 1] = s
  BY <1>11, <1>12 DEF epoch
<1>14. SealedOK'
  <2>1. ASSUME NEW n \in 1 .. Len(sealed')
        PROVE  IsTree(sealed'[n].built, sealed'[n].real, n - 1, height')
    <3>1. CASE n \in 1 .. epoch
      BY <1>1, <1>13, <3>1 DEF IInv, SealedOK, epoch
    <3>2. CASE n = epoch + 1
      <4>1. n - 1 = epoch
        BY <1>13, <3>2
      <4> QED
        BY <1>1, <1>8, <1>10, <1>13, <3>2, <4>1
    <3> QED
      BY <1>13, <3>1, <3>2
  <2> QED
    BY <1>13, <2>1 DEF SealedOK
<1>15. NewestOK'
  <2>1. sealed'[Len(sealed')] = s /\ Len(sealed') - 1 = epoch
    BY <1>13
  <2>2. s.built = Build(epoch, height', Master, s.real, low')
    BY <1>1, <1>7, <1>10
  <2>3. IsInput(s.real, EpochKey(Master, epoch), height', low')
    BY <1>1, <1>6, <1>10 DEF k_e
  <2> QED
    BY <2>1, <2>2, <2>3 DEF NewestOK
<1>16. PackageOK'
  BY <1>1 DEF PackageOK
<1> QED
  BY <1>1, <1>3, <1>4, <1>14, <1>15, <1>16 DEF IInv

\* A run is of leaves, some of them invented.
LEMMA RunIs ==
  ASSUME NEW run \in Runs
  PROVE  run \in Seq(AnyLeaf)
<1>1. Filing \in Seq(0 .. 4)
  BY DisclosureAssumption
<1>2. Len(Filing) \in Nat /\ DOMAIN Filing = 1 .. Len(Filing)
  BY <1>1
<1>3. Len(Chain) = Len(Filing) /\ DOMAIN Chain = 1 .. Len(Filing)
  BY <1>2 DEF Chain
<1>4. ASSUME NEW r \in ChainRuns PROVE r \in Seq(AnyLeaf)
  <2>4. PICK m \in 0 .. Len(Chain) : \E n \in m .. Len(Chain) : r = ChainLeaves(m, n)
    BY <1>4 DEF ChainRuns
  <2>5. PICK n \in m .. Len(Chain) : r = ChainLeaves(m, n)
    BY <2>4
  <2>6. m \in Nat /\ n \in Nat /\ m <= n /\ n <= Len(Filing) /\ n - m \in Nat
    BY <1>2, <1>3
  <2>7. ASSUME NEW i \in 1 .. n - m PROVE Keccak256(Chain[m + i]) \in AnyLeaf
    <3>1. m + i \in DOMAIN Chain
      BY <1>2, <1>3, <2>6
    <3> QED
      BY <3>1 DEF AnyLeaf, Signed, ToSet
  <2>8. r = [i \in 1 .. n - m |-> Keccak256(Chain[m + i])]
    BY <2>5 DEF ChainLeaves
  <2> QED
    BY <2>6, <2>7, <2>8
<1>5. CASE run \in ChainRuns
  BY <1>4, <1>5
<1>6. CASE run \notin ChainRuns
  <2>1. PICK r \in ChainRuns : \E i \in DOMAIN r : run = [r EXCEPT ![i] = UnknownDigest]
    BY <1>6 DEF Runs
  <2>2. PICK i \in DOMAIN r : run = [r EXCEPT ![i] = UnknownDigest]
    BY <2>1
  <2>3. r \in Seq(AnyLeaf) /\ UnknownDigest \in AnyLeaf
    BY <1>4 DEF AnyLeaf
  <2> QED
    BY <2>2, <2>3
<1> QED
  BY <1>5, <1>6

\* A segment over some leaves.
LEMMA StepsAre ==
  ASSUME NEW head, NEW leaves \in Seq(AnyLeaf)
  PROVE  /\ IsSegment(Steps(head, leaves))
         /\ Len(Steps(head, leaves)) = Len(leaves) /\ Len(leaves) \in Nat
         /\ DOMAIN Steps(head, leaves) = 1 .. Len(leaves)
<1>1. Len(leaves) \in Nat /\ DOMAIN leaves = 1 .. Len(leaves)
  OBVIOUS
<1> DEFINE S(n) == [leaf |-> leaves[n], head |-> HeadAfter(head, SubSeq(leaves, 1, n))]
<1>2. Steps(head, leaves) = [n \in 1 .. Len(leaves) |-> S(n)]
  BY <1>1 DEF Steps
<1> HIDE DEF S
<1>3. /\ Len(Steps(head, leaves)) = Len(leaves)
      /\ \A i \in 1 .. Len(leaves) : Steps(head, leaves)[i] = S(i)
      /\ DOMAIN Steps(head, leaves) = 1 .. Len(leaves)
  BY <1>1, <1>2
<1>4. Steps(head, leaves) = [i \in 1 .. Len(leaves) |-> Steps(head, leaves)[i]]
  BY <1>2, <1>3
<1> QED
  BY <1>1, <1>3, <1>4 DEF IsSegment

\* A segment severed at its first head is a segment.
LEMMA SeveredIs ==
  ASSUME NEW segment, segment # Nothing, IsSegment(segment)
  PROVE  IsSegment(Severed(segment))
<1>1. PICK n \in Nat : segment = [i \in 1 .. n |-> segment[i]]
  BY DEF IsSegment
<1>2. DOMAIN segment = 1 .. n
  BY <1>1
<1>3. Severed(segment) = [i \in 1 .. n |-> Severed(segment)[i]]
  BY <1>2 DEF Severed
<1> QED
  BY <1>3 DEF IsSegment

\* A genuine proof names a slot.
LEMMA GenuineSlot ==
  ASSUME IInv, NEW proof \in GenuineProofs
  PROVE  /\ proof.slot_index \in Nat
         /\ \A x : [proof EXCEPT !.epoch = x].slot_index \in Nat
         /\ [proof EXCEPT !.height = 1].slot_index \in Nat
         /\ [proof EXCEPT !.slot_index = 3].slot_index \in Nat
<1>1. PICK s \in ToSet(sealed) : \E i \in DOMAIN s.real : proof = Proof(s.built, s.real[i].id)
  BY DEF GenuineProofs
<1>2. PICK i \in DOMAIN s.real : proof = Proof(s.built, s.real[i].id)
  BY <1>1
<1>3. PICK n \in 1 .. Len(sealed) : s = sealed[n]
  <2>1. PICK X : sealed \in Seq(X)
    BY DEF IInv, SealedOK
  <2>2. DOMAIN sealed = 1 .. Len(sealed)
    BY <2>1
  <2> QED
    BY <1>1, <2>2 DEF ToSet
<1>4. IsTree(s.built, s.real, n - 1, height)
  BY <1>3 DEF IInv, SealedOK
<1>5. proof.slot_index \in Nat
  BY <1>2, <1>4, TreeProves
<1>6. DOMAIN proof = {"height", "slot_index", "epoch", "siblings"}
  <2>1. proof = PathProof(s.built.leaves, height, SlotOf(s.built, s.real[i].id), n - 1)
    BY <1>2, <1>4 DEF IsTree
  <2> QED
    BY <2>1 DEF PathProof
<1> QED
  BY <1>5, <1>6

LEMMA InvRelease ==
  ASSUME IInv, NEW bytes \in Signed, NEW base, NEW run \in Runs, NEW withSegment \in BOOLEAN,
         NEW proof \in GenuineProofs, Release(bytes, base, run, withSegment, proof)
  PROVE  IInv'
<1> DEFINE p == PackageOf(bytes, base, run, withSegment, proof)
<1>1. /\ UNCHANGED <<height, aside, queue, sealed, low, replaced>>
      /\ package' = p /\ Len(sealed) = 1
  BY DEF Release, ReleasePoint, InOrder
<1>2. AnyLeaf' = AnyLeaf /\ Signed' = Signed /\ Entry' = Entry
  BY <1>1 DEF Entry, Digests, AnyLeaf, Signed
<1>3. run \in Seq(AnyLeaf)
  BY RunIs
<1>4. /\ DOMAIN p = Part
      /\ p.qp_signature = SignatureOf(bytes)
      /\ p.segment = IF withSegment THEN Steps(base, Append(run, Keccak256(bytes))) ELSE Nothing
      /\ p.inclusion = proof
  BY DEF PackageOf, Part
<1>5. Append(run, Keccak256(bytes)) \in Seq(AnyLeaf)
  <2>1. Keccak256(bytes) \in AnyLeaf
    BY DEF AnyLeaf
  <2> QED
    BY <1>3, <2>1
<1>6. IsSegment(p.segment)
  <2>1. CASE withSegment
    <3>1. p.segment = Steps(base, Append(run, Keccak256(bytes)))
      BY <1>4, <2>1
    <3> QED
      BY <1>5, <3>1, StepsAre
  <2>2. CASE ~withSegment
    <3>1. p.segment = Nothing
      BY <1>4, <2>2
    <3> QED
      BY <3>1 DEF IsSegment
  <2> QED
    BY <2>1, <2>2
<1>7. p.inclusion.slot_index \in Nat
  BY <1>4, GenuineSlot
<1> HIDE DEF p
<1>9. PackageOK'
  <2>1. \E b \in Signed, r \in Seq(AnyLeaf) : \E x, w, q : p = PackageOf(b, x, r, w, q)
    BY <1>3 DEF p
  <2> QED
    BY <1>1, <1>2, <1>4, <1>6, <1>7, <2>1 DEF PackageOK, IsSegment
<1>10. SealedOK' /\ NewestOK'
  BY <1>1 DEF IInv, SealedOK, NewestOK
<1> QED
  BY <1>1, <1>2, <1>9, <1>10 DEF IInv

LEMMA InvReplace ==
  ASSUME IInv, package # Nothing, NEW part \in Part \ replaced, NEW value \in Replacement(part),
         Replace(part, value)
  PROVE  IInv'
<1>1. /\ UNCHANGED <<height, aside, queue, sealed, low>>
      /\ package' = [package EXCEPT ![part] = value] /\ replaced' = replaced \cup {part}
  BY DEF Replace
<1>2. AnyLeaf' = AnyLeaf /\ Signed' = Signed /\ Entry' = Entry
  BY <1>1 DEF Entry, Digests, AnyLeaf, Signed
<1>3. /\ Len(sealed) = 1 /\ DOMAIN package = Part
      /\ package.qp_signature \in {SignatureOf(b) : b \in Signed} \cup {Nothing}
      /\ IsSegment(package.segment)
      /\ package.inclusion.slot_index \in Nat
  BY DEF IInv, PackageOK
<1>4. DOMAIN package' = Part /\ \A q \in Part : package'[q] = IF q = part THEN value ELSE package[q]
  BY <1>1, <1>3
<1>5. package'.qp_signature \in {SignatureOf(b) : b \in Signed} \cup {Nothing}
  <2>1. CASE part = "qp_signature"
    <3>1. value \in {SignatureOf(b) : b \in Signed} \cup {Nothing}
      BY <2>1 DEF Replacement
    <3>2. package'["qp_signature"] = value
      BY <1>4, <2>1
    <3> QED
      BY <3>1, <3>2
  <2>2. CASE part # "qp_signature"
    <3>1. package'["qp_signature"] = package["qp_signature"]
      BY <1>4, <2>2 DEF Part
    <3> QED
      BY <1>3, <3>1
  <2> QED
    BY <2>1, <2>2
<1>6. IsSegment(package'.segment)
  <2>1. CASE part = "segment"
    <3>1. value \in {Nothing, <<>>} \cup {Steps(Genesis(Asset), r) : r \in Runs}
                    \cup {Severed(s) : s \in {package.segment} \ {Nothing}}
      BY <2>1 DEF Replacement
    <3>2. package'["segment"] = value
      BY <1>4, <2>1
    <3>3. IsSegment(Nothing) /\ IsSegment(<<>>)
      <4>1. 0 \in Nat /\ <<>> = [i \in 1 .. 0 |-> <<>>[i]]
        OBVIOUS
      <4> QED
        BY <4>1 DEF IsSegment
    <3>4. ASSUME NEW r \in Runs PROVE IsSegment(Steps(Genesis(Asset), r))
      BY RunIs, StepsAre
    <3>5. package.segment # Nothing => IsSegment(Severed(package.segment))
      BY <1>3, SeveredIs
    <3>6. IsSegment(value)
      BY <3>1, <3>3, <3>4, <3>5
    <3> QED
      BY <3>2, <3>6
  <2>2. CASE part # "segment"
    <3>1. package'["segment"] = package["segment"]
      BY <1>4, <2>2 DEF Part
    <3> QED
      BY <1>3, <3>1
  <2> QED
    BY <2>1, <2>2
<1>7. package'.inclusion.slot_index \in Nat
  <2>1. CASE part = "inclusion"
    <3>1. value \in GenuineProofs \cup {[p EXCEPT !.epoch = 1] : p \in GenuineProofs}
                    \cup {[p EXCEPT !.height = 1] : p \in GenuineProofs}
                    \cup {[p EXCEPT !.slot_index = 3] : p \in GenuineProofs}
      BY <2>1 DEF Replacement
    <3>2. package'["inclusion"] = value
      BY <1>4, <2>1
    <3>3. value.slot_index \in Nat
      BY <3>1, GenuineSlot
    <3> QED
      BY <3>2, <3>3
  <2>2. CASE part # "inclusion"
    <3>1. package'["inclusion"] = package["inclusion"]
      BY <1>4, <2>2 DEF Part
    <3> QED
      BY <1>3, <3>1
  <2> QED
    BY <2>1, <2>2
<1>8. PackageOK'
  <2>1. replaced' # {}
    BY <1>1
  <2> QED
    BY <1>1, <1>2, <1>3, <1>4, <1>5, <1>6, <1>7, <2>1 DEF PackageOK, IsSegment
<1>9. SealedOK' /\ NewestOK'
  BY <1>1 DEF IInv, SealedOK, NewestOK
<1> QED
  BY <1>1, <1>2, <1>8, <1>9 DEF IInv

\* The invariant holds of every log, package and replacement.
THEOREM Inductive == Spec => []IInv
<1>1. Init => IInv
  BY InvInit
<1>2. IInv /\ [Next]_vars => IInv'
  <2> SUFFICES ASSUME IInv, [Next]_vars PROVE IInv'
    OBVIOUS
  <2>1. CASE \E bytes \in Signed, id \in Id : Submit(bytes, id)
    BY <2>1, InvSubmit
  <2>2. CASE \E left \in SUBSET {queue[i].id : i \in DOMAIN queue} :
               \E bytes \in [SeedsOf(Without(left)) -> Low] : Seal(left, bytes)
    BY <2>2, InvSeal
  <2>3. CASE \E bytes \in Signed, base \in Bases, run \in Runs, withSegment \in BOOLEAN,
                proof \in GenuineProofs : Release(bytes, base, run, withSegment, proof)
    BY <2>3, InvRelease
  <2>4. CASE /\ package # Nothing
             /\ \E part \in Part \ replaced : \E value \in Replacement(part) : Replace(part, value)
    BY <2>4, InvReplace
  <2>5. CASE UNCHANGED vars
    <3>1. UNCHANGED <<height, aside, queue, sealed, low, package, replaced>>
      BY <2>5 DEF vars
    <3>2. AnyLeaf' = AnyLeaf /\ Signed' = Signed /\ Entry' = Entry
      BY <3>1 DEF Entry, Digests, AnyLeaf, Signed
    <3>3. SealedOK' /\ NewestOK'
      BY <3>1 DEF IInv, SealedOK, NewestOK
    <3>4. PackageOK'
      BY <3>1, <3>2, SMTT(30) DEF IInv, PackageOK, IsSegment
    <3> QED
      BY <3>1, <3>2, <3>3, <3>4 DEF IInv
  <2> QED
    BY <2>1, <2>2, <2>3, <2>4, <2>5 DEF Next
<1> QED
  BY <1>1, <1>2, PTL DEF Spec

----------------------------------------------------------------------------
(* What verifies is what was submitted. *)

\* The newest epoch, as the properties take it.
LEMMA NewestIs ==
  ASSUME IInv, NEW s \in Newest
  PROVE  /\ package = Nothing /\ s = sealed[Len(sealed)] /\ s \in ToSet(sealed)
         /\ Len(sealed) - 1 \in Nat /\ height \in MinHeight .. MaxHeight
         /\ IsTree(s.built, s.real, Len(sealed) - 1, height)
         /\ s.built = Build(Len(sealed) - 1, height, Master, s.real, low)
         /\ IsInput(s.real, EpochKey(Master, Len(sealed) - 1), height, low)
<1>1. package = Nothing /\ sealed # <<>> /\ s = sealed[Len(sealed)]
  BY DEF Newest, Last
<1>2. PICK X : sealed \in Seq(X)
  BY DEF IInv, SealedOK
<1>3. Len(sealed) \in 1 .. Len(sealed) /\ DOMAIN sealed = 1 .. Len(sealed)
  BY <1>1, <1>2
<1>4. IsTree(s.built, s.real, Len(sealed) - 1, height)
  BY <1>1, <1>3 DEF IInv, SealedOK
<1>5. /\ s.built = Build(Len(sealed) - 1, height, Master, s.real, low)
      /\ IsInput(s.real, EpochKey(Master, Len(sealed) - 1), height, low)
  BY <1>1 DEF IInv, NewestOK
<1>6. height \in MinHeight .. MaxHeight
  BY <1>4 DEF IsTree
<1>7. s \in ToSet(sealed)
  BY <1>1, <1>3 DEF ToSet
<1> QED
  BY <1>1, <1>3, <1>4, <1>5, <1>6, <1>7

LEMMA EveryProves ==
  ASSUME IInv
  PROVE  EverySubmissionProves
<1> SUFFICES ASSUME NEW s \in Newest, NEW i \in DOMAIN s.real
             PROVE  LET leaf  == s.real[i].leaf
                        proof == Proof(s.built, s.real[i].id)
                    IN  /\ Verify(leaf, proof, s.built.root) = "Ok"
                        /\ VerifyForHeight(leaf, proof, s.built.root, height) = "Ok"
                        /\ VerifyForHeight(leaf, proof, s.built.root, height - 1) # "Ok"
  BY DEF EverySubmissionProves
<1> DEFINE leaf  == s.real[i].leaf
           proof == Proof(s.built, s.real[i].id)
<1>1. IsTree(s.built, s.real, Len(sealed) - 1, height) /\ height \in MinHeight .. MaxHeight
  BY NewestIs
<1>2. Verify(leaf, proof, s.built.root) = "Ok" /\ proof.height = height
  BY <1>1, TreeProves
<1>3. height # height - 1
  BY <1>1, EpochTreeAssumption
<1> HIDE DEF leaf, proof
<1>4. /\ VerifyForHeight(leaf, proof, s.built.root, height) = "Ok"
      /\ VerifyForHeight(leaf, proof, s.built.root, height - 1) # "Ok"
  BY <1>2, <1>3 DEF VerifyForHeight
<1> QED
  BY <1>2, <1>4 DEF leaf, proof

LEMMA OnlyReal ==
  ASSUME IInv
  PROVE  OnlyRealLeavesProve
<1> SUFFICES ASSUME InOrder PROVE OnlyRealLeavesProve
  BY DEF OnlyRealLeavesProve
<1> DEFINE built == sealed[1].built
           real == sealed[1].real
<1>1. IsTree(built, real, 0, height)
  <2>1. Len(sealed) = 1
    BY DEF InOrder
  <2>2. 1 \in 1 .. Len(sealed) /\ 1 - 1 = 0
    BY <2>1
  <2> QED
    BY <2>2 DEF IInv, SealedOK
<1>2. ASSUME NEW h \in MinHeight .. MaxHeight, NEW siblings, NEW slot \in 0 .. Capacity(h) - 1,
             NEW leaf,
             Verify(leaf, [height |-> h, siblings |-> siblings, slot_index |-> slot,
                           epoch |-> 0], built.root) = "Ok"
      PROVE  \E i \in DOMAIN real : real[i].leaf = leaf /\ SlotOf(built, real[i].id) = slot
  <2> DEFINE proof == [height |-> h, siblings |-> siblings, slot_index |-> slot, epoch |-> 0]
  <2>1. proof.slot_index = slot /\ slot \in Nat
    <3>1. TwoTo[h] \in Nat
      BY EpochTreeAssumption, TwoToPos
    <3> QED
      BY <3>1 DEF Capacity
  <2>2. Verify(leaf, proof, built.root) = "Ok"
    BY <1>2
  <2> HIDE DEF proof, built, real
  <2> QED
    BY <1>1, <2>1, <2>2, OnlyTheTreeProves
<1> HIDE DEF built, real
<1> QED
  BY <1>2 DEF OnlyRealLeavesProve, built, real

\* proof.rs: verify answers for exactly what a tree holds.  Every submission of
\* an epoch has a proof, at the configured height alone, and no proof put
\* together from whatever digests shows a leaf that is not in that slot.
THEOREM ExactlyWhatIsThere == Spec => []ProvesExactlyWhatIsThere
<1>1. IInv => ProvesExactlyWhatIsThere
  BY EveryProves, OnlyReal DEF ProvesExactlyWhatIsThere
<1> QED
  BY <1>1, Inductive, PTL

LEMMA SetIsTree ==
  ASSUME IInv
  PROVE  TreeIsItsSet
<1> SUFFICES ASSUME NEW s \in Newest, NEW order \in Bijection(DOMAIN s.real, DOMAIN s.real)
             PROVE  Build(s.built.epoch, height, Master, [i \in DOMAIN s.real |-> s.real[order[i]]], low)
                      = s.built
  BY DEF TreeIsItsSet
<1> DEFINE a == s.real
           b == [i \in DOMAIN s.real |-> s.real[order[i]]]
           epoch == Len(sealed) - 1
           k_e == EpochKey(Master, epoch)
<1>1. /\ IsTree(s.built, a, epoch, height) /\ s.built = Build(epoch, height, Master, a, low)
      /\ IsInput(a, k_e, height, low)
  BY NewestIs
<1>2. s.built.epoch = epoch
  BY <1>1 DEF IsTree
<1>3. /\ Len(a) \in Nat /\ DOMAIN a = 1 .. Len(a)
      /\ \A i \in DOMAIN a : a[i].id \in Nat
      /\ \A i, j \in DOMAIN a : a[i].id = a[j].id => i = j
      /\ height \in 1 .. MaxHeight /\ Len(a) <= TwoTo[height]
      /\ \A i \in DOMAIN a : low[SlotSeed(k_e, a[i].id)] \in Nat
  BY <1>1 DEF IsInput, AreDistinct
<1>4. /\ \A i \in DOMAIN a : order[i] \in DOMAIN a
      /\ \A i, j \in DOMAIN a : order[i] = order[j] => i = j
      /\ \A j \in DOMAIN a : \E i \in DOMAIN a : order[i] = j
  BY DEF Bijection, Injection, Surjection, IsInjective
<1>5. /\ Len(b) = Len(a) /\ DOMAIN b = DOMAIN a
      /\ \A i \in DOMAIN a : b[i] = a[order[i]]
  BY <1>3
<1> HIDE DEF a, b, epoch, k_e
<1>6. ToSet(a) = ToSet(b)
  BY <1>4, <1>5 DEF ToSet
<1>7. AreDistinct(b)
  <2>1. Len(b) \in Nat /\ DOMAIN b = 1 .. Len(b)
    BY <1>3, <1>5
  <2>2. \A i \in DOMAIN b : b[i].id \in Nat
    BY <1>3, <1>4, <1>5
  <2>3. ASSUME NEW i \in DOMAIN b, NEW j \in DOMAIN b, b[i].id = b[j].id PROVE i = j
    <3>1. a[order[i]].id = a[order[j]].id /\ order[i] \in DOMAIN a /\ order[j] \in DOMAIN a
      BY <1>4, <1>5, <2>3
    <3>2. order[i] = order[j]
      BY <1>3, <3>1
    <3> QED
      BY <1>4, <1>5, <3>2
  <2> QED
    BY <2>1, <2>2, <2>3 DEF AreDistinct
<1>8. IsInput(b, k_e, height, low)
  <2>1. ASSUME NEW i \in DOMAIN b PROVE low[SlotSeed(k_e, b[i].id)] \in Nat
    <3>1. i \in DOMAIN a /\ b[i] = a[order[i]] /\ order[i] \in DOMAIN a
      BY <1>4, <1>5
    <3>2. low[SlotSeed(k_e, a[order[i]].id)] \in Nat
      BY <1>3, <3>1, Zenon
    <3> QED
      BY <3>1, <3>2
  <2>2. height \in 1 .. MaxHeight /\ Len(b) <= TwoTo[height]
    BY <1>3, <1>5
  <2> QED
    BY <1>7, <2>1, <2>2 DEF IsInput
<1>9. Build(epoch, height, Master, a, low) = Build(epoch, height, Master, b, low)
  BY <1>1, <1>5, <1>6, <1>8, BuildOfSet DEF k_e
<1>10. Build(epoch, height, Master, b, low) = s.built
  BY <1>1, <1>9
<1> QED
  BY <1>2, <1>10 DEF b

\* tree.rs: one set of submissions is one tree, in whatever order and however
\* many of them the caller supplies.
THEOREM SetDecides == Spec => []TreeIsItsSet
<1>1. IInv => TreeIsItsSet
  BY SetIsTree
<1> QED
  BY <1>1, Inductive, PTL

\* The checks of a promise, by differences and by sums.
LEMMA PromisesAgree ==
  ASSUME NEW key, NEW accepted \in Nat, NEW promised \in Nat, NEW observed \in Nat, NEW delay \in Nat
  PROVE  LET p == SignedPromise(key, UnknownDigest, 1, accepted, promised, delay)
         IN  VerifyPromise(p, Batcher, observed) = VerifyPromiseTs(p, Batcher, observed)
<1> DEFINE p == SignedPromise(key, UnknownDigest, 1, accepted, promised, delay)
<1>1. /\ p.batcher_key = key /\ p.max_merge_delay = delay
      /\ p.accepted_epoch = accepted /\ p.promised_epoch = promised
  BY DEF SignedPromise
<1>4. p.signature = Sign(key, PromiseDigest(p))
  BY DEF SignedPromise, PromiseDigest
<1> HIDE DEF p
<1>2. observed - accepted \notin 0 .. 1 <=> accepted > observed \/ accepted + 1 < observed
  OBVIOUS
<1>3. promised - accepted \notin 0 .. delay
        <=> promised < accepted \/ promised > accepted + delay
  OBVIOUS
<1>5. VerifyPromise(p, Batcher, observed) = VerifyPromiseTs(p, Batcher, observed)
  <2>1. CASE key # Batcher
    BY <1>1, <2>1 DEF VerifyPromise, VerifyPromiseTs
  <2>2. CASE key = Batcher /\ delay # MaxMergeDelay
    BY <1>1, <2>2 DEF VerifyPromise, VerifyPromiseTs
  <2>3. CASE key = Batcher /\ delay = MaxMergeDelay
    <3>1. VerifyStrict(Batcher, PromiseDigest(p), p.signature)
            <=> Ed25519Verify(p.batcher_key, PromiseDigest(p), p.signature)
      BY <1>1, <1>4, <2>3 DEF VerifyStrict, Ed25519Verify, VerifiedBy
    <3> QED
      BY <1>1, <1>2, <1>3, <2>3, <3>1 DEF VerifyPromise, VerifyPromiseTs
  <2> QED
    BY <2>1, <2>2, <2>3
<1> QED
  BY <1>5 DEF p

LEMMA Agree ==
  ASSUME IInv
  PROVE  ImplementationsAgree
<1>1. ASSUME NEW key, NEW accepted \in 0 .. MaxMergeDelay + 3, NEW promised \in 0 .. MaxMergeDelay + 3,
             NEW observed \in 0 .. MaxMergeDelay + 3, NEW delay \in {0, MaxMergeDelay}
      PROVE  LET p == SignedPromise(key, UnknownDigest, 1, accepted, promised, delay)
             IN  VerifyPromise(p, Batcher, observed) = VerifyPromiseTs(p, Batcher, observed)
  <2>1. accepted \in Nat /\ promised \in Nat /\ observed \in Nat /\ delay \in Nat
    BY PromiseAssumption
  <2> QED
    BY <2>1, PromisesAgree
<1>2. ASSUME NEW s \in Newest
      PROVE  LET ts == BuildTs(s.built.epoch, height, Master, s.real, low)
             IN  /\ \A field \in DOMAIN ts : ts[field] = s.built[field]
                 /\ \A i \in DOMAIN s.real :
                      LET proof == Proof(s.built, s.real[i].id)
                      IN  /\ ProofTs(ts, s.real[i].id) = proof
                          /\ \A leaf \in LeavesOf(s), slot \in 0 .. Capacity(height) :
                               LET moved == [proof EXCEPT !.slot_index = slot]
                               IN  Verify(leaf, moved, ts.root) = VerifyTs(leaf, moved, ts.root)
  <2> DEFINE epoch == Len(sealed) - 1
             b == s.built
             ts == BuildTs(epoch, height, Master, s.real, low)
  <2>1. /\ IsTree(b, s.real, epoch, height) /\ b = Build(epoch, height, Master, s.real, low)
        /\ IsInput(s.real, EpochKey(Master, epoch), height, low)
        /\ height \in MinHeight .. MaxHeight
    BY NewestIs
  <2>2. b.epoch = epoch
    BY <2>1 DEF IsTree
  <2>3. /\ ts = [epoch |-> b.epoch, height |-> b.height, root |-> b.root,
                 leaves |-> b.leaves, assignment |-> b.assignment]
        /\ \A i \in DOMAIN s.real : ProofTs(ts, s.real[i].id) = Proof(b, s.real[i].id)
    <3> HIDE DEF b, epoch
    <3> QED
      BY <2>1, BuildsAgree
  <2> HIDE DEF ts, b, epoch
  <2>4. ASSUME NEW field \in DOMAIN ts PROVE ts[field] = b[field]
    BY <2>3
  <2>5. ASSUME NEW i \in DOMAIN s.real, NEW leaf, NEW slot \in 0 .. Capacity(height)
        PROVE  LET moved == [Proof(b, s.real[i].id) EXCEPT !.slot_index = slot]
               IN  Verify(leaf, moved, ts.root) = VerifyTs(leaf, moved, ts.root)
    <3> DEFINE proof == Proof(b, s.real[i].id)
               moved == [proof EXCEPT !.slot_index = slot]
    <3>1. proof = PathProof(b.leaves, height, SlotOf(b, s.real[i].id), epoch)
      BY <2>1 DEF IsTree
    <3>2. "slot_index" \in DOMAIN proof
      BY <3>1 DEF PathProof
    <3> HIDE DEF proof
    <3>3. moved.slot_index = slot /\ slot \in Nat
      <4>1. TwoTo[height] \in Nat
        BY <2>1, EpochTreeAssumption, TwoToPos
      <4> QED
        BY <3>2, <4>1 DEF Capacity
    <3> HIDE DEF moved
    <3>4. Verify(leaf, moved, ts.root) = VerifyTs(leaf, moved, ts.root)
      BY <3>3, VerifiersAgree
    <3> QED
      BY <3>4 DEF moved, proof
  <2>6. BuildTs(s.built.epoch, height, Master, s.real, low) = ts
    BY <2>2 DEF ts, b
  <2> QED
    BY <2>3, <2>4, <2>5, <2>6 DEF b
<1> QED
  BY <1>1, <1>2 DEF ImplementationsAgree

\* tree.ts, promise.ts: the second implementation builds the tree of the first,
\* gives its proofs, and answers every proof and every promise as it does.
THEOREM TwoImplementationsAgree == Spec => []ImplementationsAgree
<1>1. IInv => ImplementationsAgree
  BY Agree
<1> QED
  BY <1>1, Inductive, PTL

LEMMA KeptIsIncluded ==
  ASSUME IInv
  PROVE  KeptMeansIncluded
<1> SUFFICES ASSUME NEW s \in Newest, NEW leaf, NEW promised \in 0 .. MaxEpochs - 1
             PROVE  LET p       == SignedPromise(Batcher, leaf, 1, promised, promised, MaxMergeDelay)
                        offered == GenuineProofs
                                     \cup {[proof EXCEPT !.epoch = s.built.epoch] : proof \in GenuineProofs}
                        kept    == [proof \in offered |-> PromiseKept(p, proof, Published(s))]
                    IN  /\ \A proof \in offered : kept[proof] = PromiseKeptTs(p, proof, Published(s))
                        /\ (\E proof \in offered : kept[proof] = "Ok")
                             <=> /\ leaf \in LeavesOf(s)
                                 /\ s.built.epoch \in promised .. promised + MaxMergeDelay
  BY DEF KeptMeansIncluded
<1> DEFINE p       == SignedPromise(Batcher, leaf, 1, promised, promised, MaxMergeDelay)
           offered == GenuineProofs
                        \cup {[proof EXCEPT !.epoch = s.built.epoch] : proof \in GenuineProofs}
           kept    == [proof \in offered |-> PromiseKept(p, proof, Published(s))]
           e       == s.built.epoch
           root    == s.built.root
           d       == MaxMergeDelay
           In      == e \in promised .. promised + d
<1>1. /\ IsTree(s.built, s.real, e, height) /\ e \in Nat /\ s \in ToSet(sealed)
  BY NewestIs DEF IsTree
<1>2. p.leaf = leaf /\ p.promised_epoch = promised /\ p.max_merge_delay = d
  BY DEF SignedPromise
<1>3. Published(s).epoch = e /\ Published(s).root = root
  BY DEF Published
<1>4. promised \in Nat /\ d \in Nat
  BY DisclosureAssumption, PromiseAssumption
<1>5. \A proof \in offered : proof.slot_index \in Nat
  BY GenuineSlot
<1>6. /\ e - promised \notin 0 .. d <=> ~In
      /\ e < promised \/ e > promised + d <=> ~In
  BY <1>1, <1>4
<1>7. \A proof \in offered : kept[proof] = PromiseKept(p, proof, Published(s))
  OBVIOUS
<1> HIDE DEF p, offered, kept, e, root, d, In
<1>8. ASSUME NEW proof \in offered
      PROVE  kept[proof] = IF proof.epoch # e THEN "InclusionProofInvalid"
                           ELSE IF ~In THEN "MergeDelayExceeded" ELSE Verify(leaf, proof, root)
  BY <1>2, <1>3, <1>6, <1>7 DEF PromiseKept
<1>9. ASSUME NEW proof \in offered PROVE kept[proof] = PromiseKeptTs(p, proof, Published(s))
  <2>1. Verify(leaf, proof, root) = VerifyTs(leaf, proof, root)
    BY <1>5, VerifiersAgree
  <2> QED
    BY <1>2, <1>3, <1>6, <1>8, <2>1 DEF PromiseKeptTs
<1>10. ASSUME NEW proof \in offered, kept[proof] = "Ok" PROVE leaf \in LeavesOf(s) /\ In
  <2>1. In /\ Verify(leaf, proof, root) = "Ok"
    BY <1>8, <1>10
  <2>2. PICK i \in DOMAIN s.real : s.real[i].leaf = leaf
    BY <1>1, <1>5, <2>1, OnlyTheTreeProves DEF root
  <2> QED
    BY <2>1, <2>2 DEF LeavesOf
<1>11. ASSUME leaf \in LeavesOf(s), In PROVE \E proof \in offered : kept[proof] = "Ok"
  <2>1. PICK i \in DOMAIN s.real : s.real[i].leaf = leaf
    BY <1>11 DEF LeavesOf
  <2> DEFINE proof == Proof(s.built, s.real[i].id)
  <2>2. proof \in offered
    BY <1>1 DEF offered, GenuineProofs
  <2>3. Verify(leaf, proof, root) = "Ok" /\ proof.epoch = e
    BY <1>1, <2>1, TreeProves DEF root
  <2> HIDE DEF proof
  <2>4. kept[proof] = "Ok"
    BY <1>8, <1>11, <2>2, <2>3
  <2> QED
    BY <2>2, <2>4
<1>12. (\E proof \in offered : kept[proof] = "Ok") <=> leaf \in LeavesOf(s) /\ In
  BY <1>10, <1>11
<1> QED
  BY <1>9, <1>12 DEF p, offered, kept, e, d, In

\* promise.rs: a promise is kept by a published root if and only if the leaf is
\* in that epoch's tree and the epoch is in the promised window.
THEOREM KeptIffIncluded == Spec => []KeptMeansIncluded
<1>1. IInv => KeptMeansIncluded
  BY KeptIsIncluded
<1> QED
  BY <1>1, Inductive, PTL

----------------------------------------------------------------------------
(* Packages. *)

ContextOf(o) == IF o.chainContext = Nothing THEN NoContext ELSE o.chainContext

\* Every check of verifyDisclosurePackage passes.
Passes(p, o) ==
  /\ ShapeVerdict(p) = "Ok" /\ BytesVerdict(p.preimage_borsh) = "Ok"
  /\ DisplayVerdict(p) = "Ok" /\ SignatureVerdict(p) = "Ok" /\ GenesisVerdict(p) = "Ok"
  /\ ExpectedVerdict(p, ContextOf(o)) = "Ok" /\ Position(p, ContextOf(o)).verdict = "Ok"
  /\ StepVerdict(p) = "Ok" /\ InclusionVerdict(p, o) = "Ok"

\* The report of a package that is accepted.
LEMMA ReportIs ==
  ASSUME NEW p, NEW o, p # Nothing
  PROVE  /\ Passes(p, o) => VerifyText(p, o)
              = Report("Ok", Position(p, ContextOf(o)).established, FlagReport(p, o))
         /\ VerifyText(p, o).verdict = "Ok" => Passes(p, o)
<1>1. VerifyText(p, o) = VerifyPackage(p, o)
  BY DEF VerifyText
<1>2. \A v : Refused(v).verdict = v
  BY DEF Refused, Report
<1>3. \A v, x, f : Report(v, x, f).verdict = v
  BY DEF Report
<1>4. Passes(p, o) => VerifyPackage(p, o)
        = Report("Ok", Position(p, ContextOf(o)).established, FlagReport(p, o))
  BY DEF Passes, VerifyPackage, ContextOf
<1>5. VerifyPackage(p, o).verdict = "Ok" => Passes(p, o)
  BY <1>2, <1>3 DEF Passes, VerifyPackage, ContextOf
<1> QED
  BY <1>1, <1>4, <1>5

\* What the options of a package are.
LEMMA OptionsAre ==
  ASSUME IInv, NEW o \in Options
  PROVE  /\ package # Nothing /\ Len(sealed) = 1
         /\ o.root = Published(sealed[1]) /\ o.configuredHeight \in {Nothing, height}
         /\ o.chainContext \in Contexts
         /\ IsTree(sealed[1].built, sealed[1].real, 0, height)
<1>1. /\ package # Nothing
      /\ o \in [root : {Published(s) : s \in ToSet(sealed)}, configuredHeight : {Nothing, height},
                chainContext : Contexts]
  BY DEF Options
<1>2. Len(sealed) = 1
  BY <1>1 DEF IInv, PackageOK
<1>3. PICK X : sealed \in Seq(X)
  BY DEF IInv, SealedOK
<1>4. DOMAIN sealed = {1}
  BY <1>2, <1>3
<1>5. PICK s \in ToSet(sealed) : o.root = Published(s)
  BY <1>1
<1>6. s = sealed[1]
  BY <1>4, <1>5 DEF ToSet
<1>7. IsTree(sealed[1].built, sealed[1].real, 0, height)
  <2>1. 1 \in 1 .. Len(sealed) /\ 1 - 1 = 0
    BY <1>2
  <2> QED
    BY <2>1 DEF IInv, SealedOK
<1> QED
  BY <1>1, <1>2, <1>5, <1>6, <1>7

\* A sequence number is a natural number.
LEMMA SeqIs ==
  ASSUME IInv, NEW bytes \in Signed
  PROVE  SeqIn(bytes) \in Nat
<1>1. CASE bytes \in ToSet(Chain)
  <2>1. PICK n \in DOMAIN Chain : bytes = Chain[n]
    BY <1>1 DEF ToSet
  <2>2. n \in DOMAIN Filing /\ bytes = Record(n)
    BY <2>1 DEF Chain
  <2>3. n \in Nat
    BY <2>2, DisclosureAssumption
  <2> QED
    BY <2>2, <2>3 DEF SeqIn, Record, LeafPreimage
<1>2. CASE bytes = aside
  BY <1>2, SignedAssumption DEF IInv
<1> QED
  BY <1>1, <1>2 DEF Signed

\* The bytes of an accepted package were signed.
LEMMA AcceptedSigned ==
  ASSUME IInv, package # Nothing, SignatureVerdict(package) = "Ok"
  PROVE  package.preimage_borsh \in Signed
<1> DEFINE bytes == package.preimage_borsh
<1>1. package.qp_signature # Nothing /\ package.qp_signature = SignatureOf(bytes)
  BY DEF SignatureVerdict
<1>2. PICK b \in Signed : package.qp_signature = SignatureOf(b)
  BY <1>1 DEF IInv, PackageOK
<1>3. b = bytes
  BY <1>1, <1>2 DEF SignatureOf, Sign
<1> QED
  BY <1>3

LEMMA Filed ==
  ASSUME IInv
  PROVE  AcceptedIsFiled
<1> SUFFICES ASSUME NEW o \in Options, VerifyText(package, o).verdict = "Ok"
             PROVE  LET bytes == package.preimage_borsh
                        s     == sealed[package.inclusion.epoch + 1]
                    IN  /\ bytes \in Signed /\ SeqIn(bytes) > 0 /\ CategoryIn(bytes) \in 0 .. 4
                        /\ package.record = <<SeqIn(bytes), bytes[4], KeyIn(bytes), CategoryIn(bytes)>>
                        /\ \E i \in DOMAIN s.real :
                             /\ s.real[i].leaf = Keccak256(bytes)
                             /\ SlotOf(s.built, s.real[i].id) = package.inclusion.slot_index
  BY DEF AcceptedIsFiled
<1> DEFINE bytes == package.preimage_borsh
           s == sealed[1]
<1>1. /\ package # Nothing /\ o.root = Published(s) /\ IsTree(s.built, s.real, 0, height)
  BY OptionsAre
<1>2. Passes(package, o)
  BY <1>1, ReportIs
<1>3. bytes \in Signed
  BY <1>1, <1>2, AcceptedSigned DEF Passes
<1>4. SeqIn(bytes) # 0 /\ CategoryIn(bytes) \in 0 .. 4
  BY <1>2 DEF Passes, BytesVerdict
<1>5. SeqIn(bytes) \in Nat
  BY <1>3, SeqIs
<1>6. package.record = Display(bytes)
  BY <1>2 DEF Passes, DisplayVerdict
<1>7. InclusionVerdict(package, o) = "Ok"
  BY <1>2 DEF Passes
<1>8. /\ package.inclusion.epoch = o.root.epoch
      /\ VerifyTs(Keccak256(bytes), package.inclusion, o.root.root) = "Ok"
  BY <1>7 DEF InclusionVerdict
<1>9. o.root.epoch = 0 /\ o.root.root = s.built.root
  BY <1>1 DEF Published, IsTree
<1>10. package.inclusion.slot_index \in Nat
  BY <1>1 DEF IInv, PackageOK
<1>11. Verify(Keccak256(bytes), package.inclusion, s.built.root) = "Ok"
  BY <1>8, <1>9, <1>10, VerifiersAgree
<1>12. \E i \in DOMAIN s.real :
         /\ s.real[i].leaf = Keccak256(bytes)
         /\ SlotOf(s.built, s.real[i].id) = package.inclusion.slot_index
  BY <1>1, <1>10, <1>11, OnlyTheTreeProves
<1>13. package.inclusion.epoch + 1 = 1
  BY <1>8, <1>9
<1> QED
  BY <1>3, <1>4, <1>5, <1>6, <1>12, <1>13 DEF Display

\* disclosure.ts: an accepted package shows what was filed, whatever parts of it
\* were replaced.
THEOREM AcceptedWasFiled == Spec => []AcceptedIsFiled
<1>1. IInv => AcceptedIsFiled
  BY Filed
<1> QED
  BY <1>1, Inductive, PTL

\* n steps that follow one another from a head.
IsChained(steps, n, x) ==
  /\ steps[1].head = AdvanceHead(x, steps[1].leaf)
  /\ \A i \in 2 .. n : steps[i].head = AdvanceHead(steps[i - 1].head, steps[i].leaf)

\* The heads of a segment that follow one another are a walk over its leaves.
LEMMA SegmentWalks ==
  ASSUME NEW steps, NEW n \in Nat, n >= 1, NEW x, IsChained(steps, n, x)
  PROVE  HeadAfter(x, [i \in 1 .. n - 1 |-> steps[i].leaf]) = IF n = 1 THEN x ELSE steps[n - 1].head
<1> DEFINE leaves == [i \in 1 .. n - 1 |-> steps[i].leaf]
           f == [i \in 0 .. n |-> IF i = 0 THEN x ELSE steps[i].head]
<1>0. n - 1 \in Nat
  OBVIOUS
<1>1. Len(leaves) = n - 1
  BY <1>0
<1>2. f[0] = x /\ \A i \in 1 .. n : f[i] = steps[i].head
  OBVIOUS
<1>3. ASSUME NEW i \in 1 .. n - 1 PROVE f[i] = AdvanceHead(f[i - 1], leaves[i])
  <2>1. leaves[i] = steps[i].leaf /\ i \in 1 .. n
    OBVIOUS
  <2>2. CASE i = 1
    <3>1. i - 1 = 0
      BY <2>2
    <3> HIDE DEF f, leaves
    <3> QED
      BY <1>2, <2>1, <2>2, <3>1 DEF IsChained
  <2>3. CASE i # 1
    <3>1. i \in 2 .. n /\ i - 1 \in 1 .. n
      BY <2>3
    <3> HIDE DEF f, leaves
    <3> QED
      BY <1>2, <2>1, <3>1 DEF IsChained
  <2> QED
    BY <2>2, <2>3
<1>4. f[n - 1] = IF n = 1 THEN x ELSE steps[n - 1].head
  BY <1>2
<1> HIDE DEF f, leaves
<1>5. IsWalk(f, x, leaves, n - 1)
  BY <1>2, <1>3 DEF IsWalk
<1>6. HeadAfter(x, leaves) = f[n - 1]
  BY <1>0, <1>1, <1>5, HeadAfterWalk
<1> QED
  BY <1>4, <1>6 DEF leaves

\* What walkSegment found when it passed.
LEMMA WalkedSegment ==
  ASSUME NEW p, NEW context, WalkSegment(p, context).verdict = "Ok",
         Len(p.segment) \in Nat, SeqIn(p.preimage_borsh) \in Nat
  PROVE  LET steps == p.segment
             n     == Len(p.segment)
             seq   == SeqIn(p.preimage_borsh)
         IN  /\ n >= 1 /\ n <= seq
             /\ \A i \in 2 .. n : steps[i].head = AdvanceHead(steps[i - 1].head, steps[i].leaf)
             /\ steps[n].leaf = Keccak256(p.preimage_borsh) /\ steps[n].head = p.head
             /\ n > 1 => steps[n - 1].head = p.prev_head
             /\ n = seq => /\ steps[1].head = AdvanceHead(p.genesis, steps[1].leaf)
                           /\ n = 1 => p.prev_head = p.genesis
             /\ n # seq /\ context.trustedHead # Nothing =>
                  steps[1].head = AdvanceHead(context.trustedHead, steps[1].leaf)
             /\ n # seq /\ WalkSegment(p, context).established => context.trustedHead # Nothing
<1> DEFINE steps == p.segment
           n     == Len(p.segment)
           seq   == SeqIn(p.preimage_borsh)
           Long  == TooLong(n, seq)
           Broken == \E i \in 2 .. n : steps[i].head # AdvanceHead(steps[i - 1].head, steps[i].leaf)
           Elsewhere == \/ steps[n].leaf # Keccak256(p.preimage_borsh)
                        \/ steps[n].head # p.head
                        \/ n > 1 /\ steps[n - 1].head # p.prev_head
           Rootless == \/ steps[1].head # AdvanceHead(p.genesis, steps[1].leaf)
                       \/ n = 1 /\ p.prev_head # p.genesis
           Trusted == context.trustedHead # Nothing
           Follows == steps[1].head = AdvanceHead(context.trustedHead, steps[1].leaf)
           Malformed == Settled("MalformedPackage", FALSE)
           Mismatch == Settled("HeadMismatch", FALSE)
           Known == Settled("Ok", TRUE)
           Unknown == Settled("Ok", FALSE)
           w == WalkSegment(p, context)
<1>1. Malformed.verdict # "Ok" /\ Mismatch.verdict # "Ok" /\ Unknown.established = FALSE
  BY DEF Settled
<1>2. w = IF n = 0 THEN Malformed
          ELSE IF Long THEN Mismatch
          ELSE IF Broken THEN Mismatch
          ELSE IF Elsewhere THEN Mismatch
          ELSE IF n = seq THEN IF Rootless THEN Mismatch ELSE Known
          ELSE IF Trusted THEN IF Follows THEN Known ELSE Mismatch
          ELSE Unknown
  BY DEF WalkSegment
<1> HIDE DEF steps, n, seq, Long, Broken, Elsewhere, Rootless, Trusted, Follows, Malformed, Mismatch,
             Known, Unknown, w
<1>3. /\ n # 0 /\ ~Long /\ ~Broken /\ ~Elsewhere
      /\ n = seq => ~Rootless
      /\ n # seq /\ Trusted => Follows
      /\ n # seq /\ w.established => Trusted
  <2>1. w.verdict = "Ok"
    BY DEF w
  <2> QED
    BY <1>1, <1>2, <2>1
<1>4. n \in Nat /\ seq \in Nat /\ n >= 1 /\ n <= seq
  BY <1>3 DEF Long, TooLong, n, seq
<1>5. \A i \in 2 .. n : steps[i].head = AdvanceHead(steps[i - 1].head, steps[i].leaf)
  BY <1>3 DEF Broken
<1>6. /\ steps[n].leaf = Keccak256(p.preimage_borsh) /\ steps[n].head = p.head
      /\ n > 1 => steps[n - 1].head = p.prev_head
  BY <1>3 DEF Elsewhere
<1>7. n = seq => /\ steps[1].head = AdvanceHead(p.genesis, steps[1].leaf)
                 /\ n = 1 => p.prev_head = p.genesis
  BY <1>3 DEF Rootless
<1>8. /\ n # seq /\ context.trustedHead # Nothing =>
           steps[1].head = AdvanceHead(context.trustedHead, steps[1].leaf)
      /\ n # seq /\ w.established => context.trustedHead # Nothing
  BY <1>3 DEF Trusted, Follows
<1> QED
  BY <1>4, <1>5, <1>6, <1>7, <1>8 DEF steps, n, seq, w

LEMMA Anchored ==
  ASSUME IInv
  PROVE  PositionIsAnchored
<1> SUFFICES ASSUME NEW o \in Options, VerifyText(package, o).verdict = "Ok",
                    VerifyText(package, o).established
             PROVE  LET before == SeqIn(package.preimage_borsh) - 1
                    IN  \/ /\ Len(Shown) = before
                           /\ HeadAfter(Genesis(Commitment(package.preimage_borsh)), Shown)
                                = package.prev_head
                        \/ /\ o.chainContext # Nothing
                           /\ \/ package.prev_head = o.chainContext.expectedPrevHead
                              \/ /\ o.chainContext.trustedHead # Nothing /\ Len(Shown) < before
                                 /\ HeadAfter(o.chainContext.trustedHead, Shown) = package.prev_head
  BY DEF PositionIsAnchored
<1> DEFINE p == package
           bytes == p.preimage_borsh
           seq == SeqIn(bytes)
           before == seq - 1
           context == ContextOf(o)
           steps == p.segment
           n == Len(steps)
<1>1. p # Nothing
  BY OptionsAre
<1>2. Passes(p, o)
  BY <1>1, ReportIs
<1>3. VerifyText(p, o) = Report("Ok", Position(p, context).established, FlagReport(p, o))
  BY <1>1, <1>2, ReportIs
<1>4. Position(p, context).established /\ Position(p, context).verdict = "Ok"
  BY <1>2, <1>3 DEF Report, Passes
<1>5. bytes \in Signed
  BY <1>1, <1>2, AcceptedSigned DEF Passes
<1>6. seq \in Nat /\ seq # 0 /\ before \in Nat
  <2>1. seq \in Nat
    BY <1>5, SeqIs
  <2>2. seq # 0
    BY <1>2 DEF Passes, BytesVerdict
  <2> QED
    BY <2>1, <2>2
<1>7. p.genesis = Genesis(Commitment(bytes))
  BY <1>2 DEF Passes, GenesisVerdict
<1>8. p.head = AdvanceHead(p.prev_head, Keccak256(bytes))
  BY <1>2 DEF Passes, StepVerdict
<1>9. context.expectedPrevHead # Nothing => p.prev_head = context.expectedPrevHead
  BY <1>2 DEF Passes, ExpectedVerdict
<1>10. o.chainContext = Nothing => context.expectedPrevHead = Nothing /\ context.trustedHead = Nothing
  BY DEF ContextOf, NoContext
<1>11. o.chainContext # Nothing => context = o.chainContext
  BY DEF ContextOf
<1>12. IsSegment(steps)
  BY <1>1 DEF IInv, PackageOK
<1>13. CASE steps # Nothing
  <2>1. WalkSegment(p, context).verdict = "Ok" /\ WalkSegment(p, context).established
    BY <1>4, <1>13 DEF Position
  <2>2. n \in Nat
    <3>1. PICK m \in Nat : steps = [i \in 1 .. m |-> steps[i]]
      BY <1>12, <1>13 DEF IsSegment
    <3>2. \A f : f = [i \in 1 .. m |-> f[i]] => Len(f) = m
      OBVIOUS
    <3> QED
      BY <3>1, <3>2
  <2>3. /\ n >= 1 /\ n <= seq
        /\ \A i \in 2 .. n : steps[i].head = AdvanceHead(steps[i - 1].head, steps[i].leaf)
        /\ steps[n].leaf = Keccak256(bytes) /\ steps[n].head = p.head
        /\ n > 1 => steps[n - 1].head = p.prev_head
        /\ n = seq => /\ steps[1].head = AdvanceHead(p.genesis, steps[1].leaf)
                      /\ n = 1 => p.prev_head = p.genesis
        /\ n # seq /\ context.trustedHead # Nothing =>
             steps[1].head = AdvanceHead(context.trustedHead, steps[1].leaf)
        /\ n # seq => context.trustedHead # Nothing
    BY <1>6, <2>1, <2>2, WalkedSegment
  <2>0. Shown = [i \in 1 .. n - 1 |-> steps[i].leaf]
    BY <1>13 DEF Shown
  <2> HIDE DEF p, bytes, seq, context, steps, n
  <2>4. Len(Shown) = n - 1
    <3>1. n - 1 \in Nat
      BY <2>2, <2>3
    <3> QED
      BY <2>0, <3>1
  <2>5. CASE n = seq
    <3>1. IsChained(steps, n, p.genesis)
      BY <2>3, <2>5 DEF IsChained
    <3>2. HeadAfter(p.genesis, Shown) = IF n = 1 THEN p.genesis ELSE steps[n - 1].head
      BY <2>0, <2>2, <2>3, <3>1, SegmentWalks
    <3>3. p.prev_head = IF n = 1 THEN p.genesis ELSE steps[n - 1].head
      BY <2>2, <2>3, <2>5
    <3>4. Len(Shown) = before /\ HeadAfter(Genesis(Commitment(bytes)), Shown) = p.prev_head
      BY <1>7, <2>4, <2>5, <3>2, <3>3
    <3> QED
      BY <3>4 DEF bytes, p, seq
  <2>6. CASE n # seq
    <3> DEFINE t == context.trustedHead
    <3>1. t # Nothing /\ steps[1].head = AdvanceHead(t, steps[1].leaf)
      BY <2>3, <2>6
    <3> HIDE DEF t
    <3>2. IsChained(steps, n, t)
      BY <2>3, <3>1 DEF IsChained
    <3>3. HeadAfter(t, Shown) = IF n = 1 THEN t ELSE steps[n - 1].head
      BY <2>0, <2>2, <2>3, <3>2, SegmentWalks
    <3>4. p.prev_head = IF n = 1 THEN t ELSE steps[n - 1].head
      <4>1. CASE n = 1
        <5>1. AdvanceHead(t, steps[1].leaf) = AdvanceHead(p.prev_head, Keccak256(bytes))
          BY <1>8, <2>3, <3>1, <4>1
        <5>2. t = p.prev_head
          BY <5>1, AdvanceInjective
        <5> QED
          BY <4>1, <5>2
      <4>2. CASE n # 1
        BY <2>2, <2>3, <4>2
      <4> QED
        BY <4>1, <4>2
    <3>5. Len(Shown) < before
      BY <1>6, <2>2, <2>3, <2>4, <2>6
    <3>6. HeadAfter(t, Shown) = p.prev_head
      BY <3>3, <3>4
    <3>7. o.chainContext # Nothing /\ t = o.chainContext.trustedHead
      BY <1>10, <1>11, <3>1 DEF t
    <3> QED
      BY <3>1, <3>5, <3>6, <3>7 DEF seq, bytes, p
  <2> QED
    BY <2>5, <2>6
<1>14. CASE steps = Nothing /\ seq = 1
  <2>1. p.prev_head = p.genesis
    BY <1>4, <1>14 DEF Position, Settled
  <2>2. HeadAfter(p.genesis, <<>>) = p.genesis
    <3>1. IsWalk([i \in {0} |-> p.genesis], p.genesis, <<>>, 0)
      BY DEF IsWalk
    <3>2. HeadAfter(p.genesis, <<>>) = [i \in {0} |-> p.genesis][0]
      BY <3>1, HeadAfterWalk
    <3> QED
      BY <3>2
  <2>3. Shown = <<>> /\ Len(<<>>) = 0 /\ before = 0
    BY <1>14 DEF Shown
  <2>4. Len(Shown) = before /\ HeadAfter(Genesis(Commitment(bytes)), Shown) = p.prev_head
    BY <1>7, <2>1, <2>2, <2>3
  <2> QED
    BY <2>4
<1>15. CASE steps = Nothing /\ seq # 1
  <2>1. context.expectedPrevHead # Nothing
    BY <1>4, <1>15 DEF Position, Settled
  <2> QED
    BY <1>9, <1>10, <1>11, <2>1
<1> QED
  BY <1>13, <1>14, <1>15

\* disclosure.ts: a position reported as established recomputes over the leaves
\* shown, whatever they are, from the genesis head of the asset the bytes name or
\* from a head the caller gave, or is the head the caller expects.
THEOREM EstablishedIsAnchored == Spec => []PositionIsAnchored
<1>1. IInv => PositionIsAnchored
  BY Anchored
<1> QED
  BY <1>1, Inductive, PTL

\* The steps of a segment are those of the walk.
LEMMA StepsWalk ==
  ASSUME NEW head, NEW leaves \in Seq(AnyLeaf), NEW f, IsWalk(f, head, leaves, Len(leaves)),
         NEW i \in 1 .. Len(leaves)
  PROVE  Steps(head, leaves)[i].leaf = leaves[i] /\ Steps(head, leaves)[i].head = f[i]
<1> DEFINE part == SubSeq(leaves, 1, i)
<1>1. Len(leaves) \in Nat /\ DOMAIN leaves = 1 .. Len(leaves) /\ i \in Nat /\ i <= Len(leaves)
  OBVIOUS
<1>2. Steps(head, leaves)[i] = [leaf |-> leaves[i], head |-> HeadAfter(head, part)]
  BY <1>1 DEF Steps
<1>3. Len(part) = i /\ \A n \in 1 .. i : part[n] = leaves[n]
  BY <1>1
<1> HIDE DEF part
<1>4. IsWalk(f, head, leaves, i)
  BY <1>1 DEF IsWalk
<1>5. HeadAfter(head, part) = f[i]
  BY <1>1, <1>3, <1>4, HeadAfterWalk
<1> QED
  BY <1>2, <1>5

\* A walk over some leaves, and one more.
LEMMA WalkOneMore ==
  ASSUME NEW base, NEW run \in Seq(AnyLeaf), NEW leaf \in AnyLeaf
  PROVE  \E f : /\ IsWalk(f, base, Append(run, leaf), Len(run) + 1)
                /\ f[Len(run)] = HeadAfter(base, run)
                /\ IsWalk(f, base, run, Len(run))
<1> DEFINE all == Append(run, leaf)
           m == Len(run)
<1>1. m \in Nat
  OBVIOUS
<1>2. Len(all) = m + 1 /\ (\A n \in 1 .. m : all[n] = run[n]) /\ all[m + 1] = leaf
  OBVIOUS
<1> HIDE DEF all
<1>3. PICK f : IsWalk(f, base, all, Len(all)) /\ HeadAfter(base, all) = f[Len(all)]
  BY <1>1, <1>2, HeadAfterIs
<1>4. IsWalk(f, base, all, m + 1) /\ IsWalk(f, base, all, m)
  BY <1>1, <1>2, <1>3 DEF IsWalk
<1>5. HeadAfter(base, run) = f[m]
  <2>1. Len(run) = m /\ \A n \in 1 .. m : run[n] = all[n]
    BY <1>2
  <2> HIDE DEF m
  <2> QED
    BY <1>1, <1>4, <2>1, HeadAfterWalk
<1>6. IsWalk(f, base, run, m)
  BY <1>1, <1>2, <1>4 DEF IsWalk
<1> QED
  BY <1>4, <1>5, <1>6 DEF all

\* What walkSegment makes of a segment that is the walk to prev_head and one
\* step further, and that is no longer than the sequence number.
LEMMA WalkedGenuine ==
  ASSUME NEW p, NEW context, NEW base, NEW run \in Seq(AnyLeaf),
         Keccak256(p.preimage_borsh) \in AnyLeaf,
         p.segment = Steps(base, Append(run, Keccak256(p.preimage_borsh))),
         p.prev_head = HeadAfter(base, run),
         p.head = AdvanceHead(p.prev_head, Keccak256(p.preimage_borsh)),
         context.trustedHead = Nothing, SeqIn(p.preimage_borsh) \in Nat,
         Len(run) + 1 <= SeqIn(p.preimage_borsh),
         Len(run) + 1 = SeqIn(p.preimage_borsh) => base = p.genesis
  PROVE  /\ Len(p.segment) = Len(run) + 1
         /\ WalkSegment(p, context) = Settled("Ok", Len(run) + 1 = SeqIn(p.preimage_borsh))
<1> DEFINE steps == p.segment
           n     == Len(p.segment)
           seq   == SeqIn(p.preimage_borsh)
           leaf  == Keccak256(p.preimage_borsh)
           all   == Append(run, leaf)
           m     == Len(run)
           Long  == TooLong(n, seq)
           Broken == \E i \in 2 .. n : steps[i].head # AdvanceHead(steps[i - 1].head, steps[i].leaf)
           Elsewhere == \/ steps[n].leaf # leaf
                        \/ steps[n].head # p.head
                        \/ n > 1 /\ steps[n - 1].head # p.prev_head
           Rootless == \/ steps[1].head # AdvanceHead(p.genesis, steps[1].leaf)
                       \/ n = 1 /\ p.prev_head # p.genesis
           Trusted == context.trustedHead # Nothing
           Follows == steps[1].head = AdvanceHead(context.trustedHead, steps[1].leaf)
           Malformed == Settled("MalformedPackage", FALSE)
           Mismatch == Settled("HeadMismatch", FALSE)
           Known == Settled("Ok", TRUE)
           Unknown == Settled("Ok", FALSE)
           w == WalkSegment(p, context)
<1>1. w = IF n = 0 THEN Malformed
          ELSE IF Long THEN Mismatch
          ELSE IF Broken THEN Mismatch
          ELSE IF Elsewhere THEN Mismatch
          ELSE IF n = seq THEN IF Rootless THEN Mismatch ELSE Known
          ELSE IF Trusted THEN IF Follows THEN Known ELSE Mismatch
          ELSE Unknown
  BY DEF WalkSegment
<1>2. m \in Nat /\ all \in Seq(AnyLeaf) /\ Len(all) = m + 1 /\ all[m + 1] = leaf
  <2> HIDE DEF leaf
  <2>1. leaf \in AnyLeaf
    BY DEF leaf
  <2> QED
    BY <2>1
<1>3. PICK f : IsWalk(f, base, all, m + 1) /\ f[m] = HeadAfter(base, run)
  <2> QED
    BY WalkOneMore
<1>4. n = m + 1
  BY <1>2, StepsAre
<1> HIDE DEF steps, n, leaf, all, m, Long, Broken, Elsewhere, Rootless, Trusted, Follows, Malformed,
             Mismatch, Known, Unknown, w, seq
<1>5. ASSUME NEW i \in 1 .. n PROVE steps[i].leaf = all[i] /\ steps[i].head = f[i]
  <2>1. i \in 1 .. Len(all) /\ IsWalk(f, base, all, Len(all))
    BY <1>2, <1>3, <1>4
  <2>2. steps = Steps(base, all)
    BY DEF steps, all, leaf
  <2> QED
    BY <1>2, <2>1, <2>2, StepsWalk
<1>6. f[0] = base /\ \A i \in 1 .. n : f[i] = AdvanceHead(f[i - 1], all[i])
  BY <1>3, <1>4 DEF IsWalk
<1>7. n \in Nat /\ n >= 1 /\ seq \in Nat /\ n <= seq /\ (n = seq => base = p.genesis)
  BY <1>2, <1>4 DEF seq, m
<1>8. ~Long
  BY <1>7 DEF Long, TooLong
<1>9. ~Broken
  <2>1. ASSUME NEW i \in 2 .. n PROVE steps[i].head = AdvanceHead(steps[i - 1].head, steps[i].leaf)
    <3>1. i \in 1 .. n /\ i - 1 \in 1 .. n
      BY <1>7
    <3> QED
      BY <1>5, <1>6, <3>1
  <2> QED
    BY <2>1 DEF Broken
<1>10. n \in 1 .. n /\ 1 \in 1 .. n /\ n - 1 = m /\ n = m + 1
  BY <1>2, <1>4, <1>7
<1>11. f[m] = p.prev_head
  BY <1>3 DEF m
<1>12. ~Elsewhere
  <2>1. steps[n].leaf = leaf
    BY <1>2, <1>5, <1>10
  <2>2. steps[n].head = p.head
    <3>1. steps[n].head = AdvanceHead(f[m], leaf)
      BY <1>2, <1>5, <1>6, <1>10
    <3> QED
      BY <1>11, <3>1 DEF leaf
  <2>3. n > 1 => steps[n - 1].head = p.prev_head
    <3>1. n > 1 => n - 1 \in 1 .. n
      BY <1>7
    <3> QED
      BY <1>5, <1>10, <1>11, <3>1
  <2> QED
    BY <2>1, <2>2, <2>3 DEF Elsewhere
<1>13. n = seq => ~Rootless
  <2> SUFFICES ASSUME n = seq PROVE ~Rootless
    OBVIOUS
  <2>1. steps[1].head = AdvanceHead(f[0], steps[1].leaf)
    BY <1>5, <1>6, <1>10
  <2>2. f[0] = p.genesis
    BY <1>6, <1>7
  <2>3. n = 1 => p.prev_head = f[0]
    BY <1>2, <1>10, <1>11
  <2> QED
    BY <2>1, <2>2, <2>3 DEF Rootless
<1>14. ~Trusted
  BY DEF Trusted
<1>15. w = IF n = seq THEN Known ELSE Unknown
  BY <1>1, <1>7, <1>8, <1>9, <1>12, <1>13, <1>14
<1>16. w = Settled("Ok", n = seq)
  <2>1. CASE n = seq
    BY <1>15, <2>1 DEF Known, Settled
  <2>2. CASE n # seq
    BY <1>15, <2>2 DEF Unknown, Settled
  <2> QED
    BY <2>1, <2>2
<1> QED
  BY <1>4, <1>16 DEF w, n, m, seq

\* The bytes of a record of the chain.
LEMMA RecordIs ==
  ASSUME NEW bytes \in ToSet(Chain)
  PROVE  /\ SeqIn(bytes) \in DOMAIN Filing /\ SeqIn(bytes) \in Nat /\ SeqIn(bytes) >= 1
         /\ bytes = Chain[SeqIn(bytes)] /\ SeqIn(bytes) \in DOMAIN Chain
         /\ Commitment(bytes) = Asset /\ CategoryIn(bytes) = Filing[SeqIn(bytes)]
         /\ Len(bytes) = 6 /\ BytesVerdict(bytes) = "Ok" /\ SignatureOf(bytes) # Nothing
         /\ bytes \in Signed /\ Keccak256(bytes) \in AnyLeaf
<1>1. PICK n \in DOMAIN Chain : bytes = Chain[n]
  BY DEF ToSet
<1>2. n \in DOMAIN Filing /\ bytes = <<"CMv1LEAF", Asset, n, "payload", Qp, Filing[n]>>
  BY <1>1 DEF Chain, Record, LeafPreimage
<1>3. n \in Nat /\ n >= 1 /\ Filing[n] \in 0 .. 4
  BY <1>2, DisclosureAssumption
<1>4. /\ SeqIn(bytes) = n /\ Commitment(bytes) = Asset /\ CategoryIn(bytes) = Filing[n]
      /\ Len(bytes) = 6 /\ bytes[1] = "CMv1LEAF"
  BY <1>2 DEF SeqIn, Commitment, CategoryIn
<1>5. BytesVerdict(bytes) = "Ok"
  BY <1>3, <1>4 DEF BytesVerdict
<1>6. SignatureOf(bytes) # Nothing
  BY <1>1, SignedAssumption
<1>7. bytes \in Signed /\ Keccak256(bytes) \in AnyLeaf
  BY DEF Signed, AnyLeaf
<1> QED
  BY <1>1, <1>2, <1>3, <1>4, <1>5, <1>6, <1>7

\* Where a walk to the head before a record began, and how long it is.
LEMMA WalkToRecord ==
  ASSUME NEW base, NEW run \in Seq(AnyLeaf), NEW n \in Nat, n >= 1,
         HeadAfter(base, run) = ChainHead(n - 1)
  PROVE  /\ Len(run) \in Nat /\ Len(run) + 1 <= n
         /\ Len(run) + 1 = n => base = Genesis(Asset)
<1> DEFINE m == Len(run)
           before == ChainLeaves(0, n - 1)
<1>1. m \in Nat /\ n - 1 \in Nat
  OBVIOUS
<1>2. Len(before) = n - 1
  <2>1. (n - 1) - 0 = n - 1
    OBVIOUS
  <2> QED
    BY <1>1, <2>1 DEF ChainLeaves
<1> HIDE DEF before
<1>3. PICK f : IsWalk(f, base, run, m) /\ HeadAfter(base, run) = f[m]
  BY <1>1, HeadAfterIs
<1>4. PICK g : IsWalk(g, Genesis(Asset), before, n - 1) /\ HeadAfter(Genesis(Asset), before) = g[n - 1]
  BY <1>1, <1>2, HeadAfterIs
<1>5. f[m] = g[n - 1]
  BY <1>3, <1>4 DEF ChainHead, before
<1>6. m <= n - 1 /\ (m = n - 1 => base = Genesis(Asset))
  BY <1>1, <1>3, <1>4, <1>5, WalkToChain
<1> QED
  BY <1>1, <1>6

\* The chain's first head is its genesis head.
LEMMA ChainBegins == ChainHead(0) = Genesis(Asset)
<1>1. Len(ChainLeaves(0, 0)) = 0
  <2>1. 0 - 0 = 0 /\ 0 \in Nat
    OBVIOUS
  <2> QED
    BY <2>1 DEF ChainLeaves
<1>2. IsWalk([i \in {0} |-> Genesis(Asset)], Genesis(Asset), <<>>, 0)
  BY DEF IsWalk
<1>3. HeadAfter(Genesis(Asset), ChainLeaves(0, 0)) = [i \in {0} |-> Genesis(Asset)][0]
  BY <1>1, <1>2, HeadAfterWalk
<1> QED
  BY <1>3 DEF ChainHead

\* A caller that knows the chain recomputes the flags of a record.
LEMMA ContextFlags ==
  ASSUME NEW c \in Contexts, c # Nothing, package.preimage_borsh \in ToSet(Chain)
  PROVE  LET bytes == package.preimage_borsh
         IN  Flags(c, CategoryIn(bytes)) = GenuineFlags(SeqIn(bytes))
<1> DEFINE bytes == package.preimage_borsh
           n == SeqIn(bytes)
<1>1. Len(bytes) = 6 /\ CategoryIn(bytes) = Filing[n]
  BY RecordIs
<1>2. c.sawResource = SawResource(n) /\ c.previousCategory = Previous(n)
  BY <1>1 DEF Contexts
<1> HIDE DEF bytes, n
<1>3. Flags(c, CategoryIn(bytes)) = GenuineFlags(n)
  BY <1>1, <1>2 DEF Flags, GenuineFlags
<1> QED
  BY <1>3 DEF bytes, n

LEMMA Genuine ==
  ASSUME IInv
  PROVE  GenuineAccepted
<1> DEFINE p == package
           bytes == p.preimage_borsh
           n == SeqIn(bytes)
           s == sealed[1]
           leaf == Keccak256(bytes)
<1> SUFFICES ASSUME NEW o \in Options, replaced = {}, bytes \in ToSet(Chain),
                    p.prev_head = ChainHead(n - 1), p.genesis = Genesis(Asset),
                    \E i \in DOMAIN s.real :
                      s.real[i].leaf = leaf /\ p.inclusion = Proof(s.built, s.real[i].id),
                    o.chainContext # Nothing =>
                      /\ o.chainContext.expectedPrevHead \in {Nothing, ChainHead(n - 1)}
                      /\ o.chainContext.trustedHead = Nothing
             PROVE  LET report == VerifyText(p, o)
                        known  == o.chainContext # Nothing
                    IN  /\ report.verdict = "Ok"
                        /\ report.flags = IF known THEN "match" ELSE "not recomputable"
                        /\ \/ p.segment = Nothing /\ n = 1
                           \/ p.segment = Nothing /\ known /\ o.chainContext.expectedPrevHead # Nothing
                           \/ p.segment # Nothing /\ Len(p.segment) = n
                           => report.established
  BY DEF GenuineAccepted
<1> DEFINE context == ContextOf(o)
           position == Position(p, context)
           Due == \/ p.segment = Nothing /\ n = 1
                  \/ /\ p.segment = Nothing /\ o.chainContext # Nothing
                     /\ o.chainContext.expectedPrevHead # Nothing
                  \/ p.segment # Nothing /\ Len(p.segment) = n
<1>1. /\ p # Nothing /\ o.root = Published(s) /\ o.configuredHeight \in {Nothing, height}
      /\ o.chainContext \in Contexts /\ IsTree(s.built, s.real, 0, height)
  BY OptionsAre
<1>2. PICK b \in Signed, run \in Seq(AnyLeaf) : \E base, withSegment, proof :
         p = PackageOf(b, base, run, withSegment, proof)
  BY <1>1 DEF IInv, PackageOK
<1>3. PICK base, withSegment, proof : p = PackageOf(b, base, run, withSegment, proof)
  BY <1>2
<1>4. /\ p.schema = "certimining/v1/disclosure" /\ p.unlisted = FALSE
      /\ p.record = Display(bytes) /\ p.qp_signature = SignatureOf(bytes)
      /\ p.prev_head = HeadAfter(base, run) /\ p.head = AdvanceHead(p.prev_head, leaf)
      /\ p.segment # Nothing => p.segment = Steps(base, Append(run, leaf))
      /\ p.flags = IF bytes \in ToSet(Chain) THEN GenuineFlags(n) ELSE {}
  BY <1>3 DEF PackageOf
<1>5. /\ n \in Nat /\ n >= 1 /\ Commitment(bytes) = Asset /\ BytesVerdict(bytes) = "Ok"
      /\ SignatureOf(bytes) # Nothing /\ leaf \in AnyLeaf
  BY RecordIs
<1>6. /\ Len(run) + 1 <= n
      /\ Len(run) + 1 = n => base = Genesis(Asset)
  BY <1>4, <1>5, WalkToRecord
<1>7. /\ context.trustedHead = Nothing
      /\ context.expectedPrevHead \in {Nothing, ChainHead(n - 1)}
      /\ o.chainContext # Nothing => context = o.chainContext
  BY DEF ContextOf, NoContext
<1>8. position.verdict = "Ok" /\ (Due => position.established)
  <2>1. CASE p.segment # Nothing
    <3>1. position = WalkSegment(p, context)
      BY <2>1 DEF Position
    <3>2. p.segment = Steps(base, Append(run, leaf))
      BY <1>4, <2>1
    <3>3. Len(run) + 1 = n => base = p.genesis
      BY <1>6
    <3> HIDE DEF p, context
    <3>4. /\ Len(p.segment) = Len(run) + 1
          /\ WalkSegment(p, context) = Settled("Ok", Len(run) + 1 = n)
      BY <1>4, <1>5, <1>6, <1>7, <3>2, <3>3, WalkedGenuine
    <3> HIDE DEF position, n, bytes
    <3>5. position.verdict = "Ok" /\ position.established = (Len(run) + 1 = n)
      BY <3>1, <3>4 DEF Settled
    <3>6. Due => Len(run) + 1 = n
      BY <2>1, <3>4
    <3> QED
      BY <3>5, <3>6
  <2>2. CASE p.segment = Nothing /\ n = 1
    <3>1. n - 1 = 0
      BY <2>2
    <3>2. p.prev_head = p.genesis
      BY <3>1, ChainBegins
    <3> QED
      BY <2>2, <3>2 DEF Position, Settled
  <2>3. CASE p.segment = Nothing /\ n # 1
    <3>1. position = Settled("Ok", context.expectedPrevHead # Nothing)
      BY <2>3 DEF Position
    <3> HIDE DEF position, context
    <3>2. position.verdict = "Ok" /\ position.established = (context.expectedPrevHead # Nothing)
      BY <3>1 DEF Settled
    <3> QED
      BY <1>7, <2>3, <3>2
  <2> QED
    BY <2>1, <2>2, <2>3
<1>9. InclusionVerdict(p, o) = "Ok"
  <2>1. PICK i \in DOMAIN s.real :
          s.real[i].leaf = leaf /\ p.inclusion = Proof(s.built, s.real[i].id)
    OBVIOUS
  <2>2. /\ Verify(leaf, p.inclusion, s.built.root) = "Ok" /\ p.inclusion.height = height
        /\ p.inclusion.epoch = 0 /\ p.inclusion.slot_index \in Nat
    BY <1>1, <2>1, TreeProves
  <2>3. VerifyTs(leaf, p.inclusion, s.built.root) = "Ok"
    BY <2>2, VerifiersAgree
  <2>4. o.root.epoch = 0 /\ o.root.root = s.built.root
    BY <1>1 DEF Published, IsTree
  <2> QED
    BY <1>1, <2>2, <2>3, <2>4 DEF InclusionVerdict
<1>10. /\ ShapeVerdict(p) = "Ok" /\ DisplayVerdict(p) = "Ok" /\ SignatureVerdict(p) = "Ok"
       /\ GenesisVerdict(p) = "Ok" /\ StepVerdict(p) = "Ok"
  BY <1>4, <1>5 DEF ShapeVerdict, DisplayVerdict, SignatureVerdict, GenesisVerdict, StepVerdict
<1>11. ExpectedVerdict(p, context) = "Ok"
  BY <1>7 DEF ExpectedVerdict
<1>12. FlagReport(p, o) = IF o.chainContext # Nothing THEN "match" ELSE "not recomputable"
  <2>1. CASE o.chainContext = Nothing
    BY <2>1 DEF FlagReport
  <2>2. CASE o.chainContext # Nothing
    <3>1. p.flags = Flags(o.chainContext, CategoryIn(bytes))
      BY <1>1, <1>4, <2>2, ContextFlags
    <3> QED
      BY <2>2, <3>1 DEF FlagReport
  <2> QED
    BY <2>1, <2>2
<1>13. Passes(p, o)
  BY <1>5, <1>8, <1>9, <1>10, <1>11 DEF Passes
<1>14. VerifyText(p, o) = Report("Ok", position.established, FlagReport(p, o))
  BY <1>1, <1>13, ReportIs
<1> HIDE DEF position
<1>15. /\ VerifyText(p, o).verdict = "Ok" /\ VerifyText(p, o).flags = FlagReport(p, o)
       /\ VerifyText(p, o).established = position.established
  BY <1>14 DEF Report
<1> QED
  BY <1>8, <1>12, <1>15

\* disclosure.ts: a package that is what it says is accepted, its position
\* established when it carries the whole chain, is the first of it or meets the
\* head the caller expects, and its flags found right by a caller that knows the
\* chain.  No genuine filing is refused.
THEOREM GenuineIsAccepted == Spec => []GenuineAccepted
<1>1. IInv => GenuineAccepted
  BY Genuine
<1> QED
  BY <1>1, Inductive, PTL
=============================================================================
