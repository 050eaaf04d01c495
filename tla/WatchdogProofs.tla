--------------------------- MODULE WatchdogProofs ---------------------------
(***************************************************************************)
(* The supervised worker, for every retry policy, watchdog and start limit.*)
(*                                                                         *)
(* Two facts carry the properties: how long the watchdog may have gone     *)
(* unfed after so many failures and so many answers (FedInv), and how far  *)
(* into the interval of the start limit a run of quick refusals can have   *)
(* come (StreakInv).                                                       *)
(***************************************************************************)
EXTENDS Watchdog, WellFoundedInduction, TLAPS

----------------------------------------------------------------------------
(* The invariant. *)

Process ==
       {[pc |-> "start"], [pc |-> "step"], [pc |-> "client"], Down, Failed}
  \cup [pc : {"observe"}, asked : Nat, failures : 0 .. PartitionRetryLimit]

TypeInv ==
  /\ worker \in Process
  /\ socket \in {"unset", "abstract", "gone", "path"}
  /\ epochs \in Nat /\ ready \in BOOLEAN /\ quiet \in Nat /\ spent \in Nat
  /\ age \in Nat /\ window \in [age : Nat, starts : Nat \ {0}] /\ streak \in Nat
  /\ worker.pc = "observe" => worker.asked < Requests

\* A look after so many failures has cost the step before it, the requests of
\* the failed attempts and of its own, and the delays so far.
FedInv ==
  ready =>
    /\ socket = "path"
    /\ quiet <= WatchdogSec
    /\ worker.pc = "observe" =>
         quiet <= spent + RpcTimeout * (worker.failures * Requests + worker.asked)
                    + Backoff[worker.failures]
    /\ worker.pc # "observe" => quiet = spent

Alive == worker.pc \notin {"down", "failed"}

\* A streak that holds every start of the interval but the one that opened it,
\* or more, has kept the interval short.  So an interval that runs out leaves a
\* streak of fewer processes than it counted.
StreakInv ==
  /\ Alive =>
       /\ window.starts <= StartLimitBurst
       /\ streak <= (window.starts - 1) + (StartLimitBurst - 1)
       /\ streak >= window.starts - 1 /\ StartLimitBurst * (age + RestartSec) < StartLimitIntervalSec =>
            StartLimitBurst * window.age
              <= (window.starts - 1) * (StartLimitIntervalSec - 1) + StartLimitBurst * age
  /\ worker.pc = "down" =>
       /\ window.starts <= StartLimitBurst
       /\ streak <= window.starts + (StartLimitBurst - 1)
       /\ streak >= window.starts =>
            StartLimitBurst * (window.age + RestartSec) <= window.starts * (StartLimitIntervalSec - 1)

----------------------------------------------------------------------------
(* partition_retry_delay and its sum. *)

\* Induction, over a set: what 0 has, and n + 1 has whenever n does.
LEMMA SetInduction ==
  ASSUME NEW S \in SUBSET Nat, 0 \in S, \A n \in S : n + 1 \in S
  PROVE  S = Nat
<1> DEFINE R == {ss \in Nat \X Nat : ss[1] < ss[2]}
           Rest == Nat \ S
<1>1. IsWellFoundedOn(R, Nat)
  BY NatLessThanWellFounded, Zenon DEF OpToRel
<1>2. Rest \subseteq Nat
  OBVIOUS
<1> HIDE DEF R, Rest
<1>3. ASSUME Rest # {} PROVE FALSE
  <2>1. PICK x \in Rest : \A y \in Rest : ~ (<<y, x>> \in R)
    BY <1>1, <1>2, <1>3, WFMin
  <2>2. x \in Nat /\ x \notin S /\ x # 0
    BY <1>2 DEF Rest
  <2>3. x - 1 \in Nat /\ x - 1 < x
    BY <2>2
  <2>4. <<x - 1, x>> \in R
    BY <2>2, <2>3 DEF R
  <2>5. x - 1 \in S
    BY <2>1, <2>3, <2>4 DEF Rest
  <2>6. (x - 1) + 1 \in S
    BY <2>5
  <2> QED
    BY <2>2, <2>6
<1> QED
  BY <1>3 DEF Rest

\* The delays are natural numbers.
LEMMA DelayIs == Delay \in [1 .. PartitionRetryLimit -> Nat]
<1> DEFINE L == PartitionRetryLimit
           D(f, k) == IF k = 1 THEN RetryInitial
                      ELSE IF 2 * f[k - 1] > RetryMax THEN RetryMax ELSE 2 * f[k - 1]
           P(n) == \E f \in [1 .. n -> Nat] : \A k \in 1 .. n : f[k] = D(f, k)
           Good == {n \in Nat : P(n)}
<1>0. L \in Nat /\ RetryInitial \in Nat /\ RetryMax \in Nat
  BY WatchdogAssumption
<1>1. 0 \in Good
  <2>1. [k \in 1 .. 0 |-> 0] \in [1 .. 0 -> Nat] /\ 1 .. 0 = {}
    OBVIOUS
  <2> QED
    BY <2>1
<1>2. ASSUME NEW n \in Good PROVE n + 1 \in Good
  <2>1. PICK f \in [1 .. n -> Nat] : \A k \in 1 .. n : f[k] = D(f, k)
    OBVIOUS
  <2> DEFINE g == [k \in 1 .. n + 1 |-> IF k <= n THEN f[k] ELSE D(f, n + 1)]
  <2>2. n \in Nat /\ D(f, n + 1) \in Nat
    BY <1>0, <2>1
  <2>3. g \in [1 .. n + 1 -> Nat]
    BY <2>1, <2>2
  <2>4. ASSUME NEW k \in 1 .. n + 1 PROVE g[k] = D(g, k)
    <3>1. D(g, k) = D(f, k)
      BY <2>1, <2>2
    <3>2. CASE k <= n
      <4>1. k \in 1 .. n /\ g[k] = f[k]
        BY <2>2, <3>2
      <4>2. f[k] = D(f, k)
        BY <2>1, <4>1
      <4> HIDE DEF D, g
      <4> QED
        BY <3>1, <4>1, <4>2
    <3>3. CASE k = n + 1
      BY <2>2, <3>1, <3>3
    <3> QED
      BY <2>2, <3>2, <3>3
  <2>5. P(n + 1)
    BY <2>3, <2>4
  <2> HIDE DEF P
  <2> QED
    BY <2>2, <2>5
<1>3. P(L)
  <2>1. Good \in SUBSET Nat /\ \A n \in Good : n + 1 \in Good
    BY <1>2
  <2>2. Good = Nat
    <3> HIDE DEF Good
    <3> QED
      BY <1>1, <2>1, SetInduction
  <2> QED
    BY <1>0, <2>2
<1>4. PICK f \in [1 .. L -> Nat] : \A k \in 1 .. L : f[k] = D(f, k)
  BY <1>3
<1>5. f = [k \in 1 .. L |-> D(f, k)]
  BY <1>4
<1>6. Delay = [k \in 1 .. L |-> D(Delay, k)]
  BY <1>5 DEF Delay
<1> DEFINE Typed == {n \in Nat : n \in 1 .. L => Delay[n] \in Nat}
<1>7. ASSUME NEW n \in Typed PROVE n + 1 \in Typed
  <2> SUFFICES ASSUME n + 1 \in 1 .. L PROVE Delay[n + 1] \in Nat
    OBVIOUS
  <2>1. Delay[n + 1] = D(Delay, n + 1)
    BY <1>6
  <2>2. n + 1 = 1 \/ Delay[n] \in Nat
    BY <1>0
  <2> QED
    BY <1>0, <2>1, <2>2
<1>8. Typed = Nat
  <2>1. Typed \in SUBSET Nat /\ 0 \in Typed /\ \A n \in Typed : n + 1 \in Typed
    BY <1>7
  <2> HIDE DEF Typed
  <2> QED
    BY <2>1, SetInduction
<1>9. \A k \in 1 .. L : Delay[k] \in Nat
  BY <1>0, <1>8
<1> QED
  BY <1>6, <1>9

\* The delays add up.
LEMMA BackoffIs ==
  /\ Backoff \in [0 .. PartitionRetryLimit -> Nat]
  /\ Backoff[0] = 0
  /\ \A k \in 1 .. PartitionRetryLimit : Backoff[k] = Backoff[k - 1] + Delay[k]
<1> DEFINE L == PartitionRetryLimit
           B(f, k) == IF k = 0 THEN 0 ELSE f[k - 1] + Delay[k]
           P(n) == n <= L => \E f \in [0 .. n -> Nat] : \A k \in 0 .. n : f[k] = B(f, k)
           Good == {n \in Nat : P(n)}
<1>0. L \in Nat /\ \A k \in 1 .. L : Delay[k] \in Nat
  BY WatchdogAssumption, DelayIs
<1>1. 0 \in Good
  <2>1. [k \in 0 .. 0 |-> 0] \in [0 .. 0 -> Nat] /\ 0 .. 0 = {0}
    OBVIOUS
  <2> QED
    BY <2>1
<1>2. ASSUME NEW n \in Good PROVE n + 1 \in Good
  <2> SUFFICES ASSUME n + 1 <= L
               PROVE  \E f \in [0 .. n + 1 -> Nat] : \A k \in 0 .. n + 1 : f[k] = B(f, k)
    OBVIOUS
  <2>1. PICK f \in [0 .. n -> Nat] : \A k \in 0 .. n : f[k] = B(f, k)
    BY <1>0
  <2> DEFINE g == [k \in 0 .. n + 1 |-> IF k <= n THEN f[k] ELSE B(f, n + 1)]
  <2>2. n \in Nat /\ B(f, n + 1) \in Nat
    BY <1>0, <2>1
  <2>3. g \in [0 .. n + 1 -> Nat]
    BY <2>1, <2>2
  <2>4. ASSUME NEW k \in 0 .. n + 1 PROVE g[k] = B(g, k)
    <3>1. B(g, k) = B(f, k)
      BY <2>1, <2>2
    <3>2. CASE k <= n
      BY <2>1, <2>2, <3>1, <3>2
    <3>3. CASE k = n + 1
      BY <2>2, <3>1, <3>3
    <3> QED
      BY <2>2, <3>2, <3>3
  <2> QED
    BY <2>3, <2>4
<1>3. P(L)
  <2>1. Good \in SUBSET Nat /\ \A n \in Good : n + 1 \in Good
    BY <1>2
  <2>2. Good = Nat
    <3> HIDE DEF Good
    <3> QED
      BY <1>1, <2>1, SetInduction
  <2> QED
    BY <1>0, <2>2
<1>a. L <= L
  BY <1>0
<1>4. PICK f \in [0 .. L -> Nat] : \A k \in 0 .. L : f[k] = B(f, k)
  BY <1>a, <1>3, Zenon
<1>5. f = [k \in 0 .. L |-> B(f, k)]
  BY <1>4
<1>6. Backoff = [k \in 0 .. L |-> B(Backoff, k)]
  BY <1>5 DEF Backoff
<1> DEFINE Typed == {n \in Nat : n \in 0 .. L => Backoff[n] \in Nat}
<1>7. ASSUME NEW n \in Typed PROVE n + 1 \in Typed
  <2> SUFFICES ASSUME n + 1 \in 0 .. L PROVE Backoff[n + 1] \in Nat
    OBVIOUS
  <2>1. Backoff[n + 1] = B(Backoff, n + 1)
    BY <1>6
  <2>2. Backoff[n] \in Nat /\ Delay[n + 1] \in Nat
    BY <1>0
  <2> QED
    BY <1>0, <2>1, <2>2
<1>8. Typed = Nat
  <2>1. Backoff[0] = 0
    BY <1>0, <1>6
  <2>2. Typed \in SUBSET Nat /\ 0 \in Typed
    BY <2>1
  <2>3. \A n \in Typed : n + 1 \in Typed
    BY <1>7
  <2> HIDE DEF Typed
  <2> QED
    BY <2>2, <2>3, SetInduction
<1>9. \A k \in 0 .. L : Backoff[k] \in Nat
  BY <1>0, <1>8
<1> QED
  BY <1>0, <1>6, <1>9, SMTT(20)

\* More failures have waited longer.
LEMMA BackoffGrows ==
  ASSUME NEW k \in 0 .. PartitionRetryLimit
  PROVE  Backoff[k] \in Nat /\ Backoff[k] <= Backoff[PartitionRetryLimit]
<1> DEFINE L == PartitionRetryLimit
           Above == {n \in Nat : k + n <= L => Backoff[k] <= Backoff[k + n]}
<1>0. L \in Nat /\ \A i \in 0 .. L : Backoff[i] \in Nat
  BY WatchdogAssumption, BackoffIs
<1>1. ASSUME NEW n \in Above PROVE n + 1 \in Above
  <2> SUFFICES ASSUME k + (n + 1) <= L PROVE Backoff[k] <= Backoff[k + (n + 1)]
    OBVIOUS
  <2>1. k + (n + 1) \in 1 .. L /\ (k + (n + 1)) - 1 = k + n
    BY <1>0
  <2>2. Backoff[k + (n + 1)] = Backoff[k + n] + Delay[k + (n + 1)]
    BY <2>1, BackoffIs
  <2>3. Delay[k + (n + 1)] \in Nat /\ Backoff[k + n] \in Nat /\ Backoff[k] <= Backoff[k + n]
    BY <1>0, <2>1, DelayIs
  <2> QED
    BY <1>0, <2>2, <2>3
<1>2. Above = Nat
  <2>1. Above \in SUBSET Nat /\ 0 \in Above /\ \A n \in Above : n + 1 \in Above
    BY <1>0, <1>1
  <2> HIDE DEF Above
  <2> QED
    BY <2>1, SetInduction
<1>3. L - k \in Nat /\ k + (L - k) = L
  BY <1>0
<1>4. L - k \in Above
  BY <1>2, <1>3
<1>5. L <= L
  BY <1>0
<1>6. Backoff[k] <= Backoff[L]
  BY <1>3, <1>4, <1>5
<1> QED
  BY <1>0, <1>6

----------------------------------------------------------------------------
(* What each action does to the process and its clocks. *)

\* What each state of the process carries.
LEMMA ProcessFields ==
  ASSUME NEW w \in Process
  PROVE  /\ w.pc \in {"start", "down", "failed", "observe", "step", "client"}
         /\ w.pc = "observe" => /\ w.asked \in Nat /\ w.failures \in 0 .. PartitionRetryLimit
                                /\ w = [pc |-> "observe", asked |-> w.asked, failures |-> w.failures]
  BY DEF Process, Down, Failed

\* A new look.
LEMMA ObservingIs ==
  ASSUME NEW f \in 0 .. PartitionRetryLimit
  PROVE  /\ Observing(f) \in Process /\ Observing(f).pc = "observe"
         /\ Observing(f).failures = f /\ Observing(f).asked = 0
  BY DEF Observing, Process

\* The process ends, or sleeps and looks again with one failure more.
LEMMA RetryIs ==
  ASSUME NEW f \in 0 .. PartitionRetryLimit, NEW d \in Nat, NEW s \in Nat, RetryPartition(f, d, s)
  PROVE  \/ Ends(d)
         \/ /\ f + 1 \in 1 .. PartitionRetryLimit /\ Delay[f + 1] \in Nat
            /\ InTime(d + Delay[f + 1])
            /\ worker' = Observing(f + 1)
            /\ Elapse(d + Delay[f + 1], FALSE)
            /\ spent' = IF ready THEN spent + s ELSE 0
            /\ UNCHANGED <<ready, streak>>
<1>1. CASE f >= PartitionRetryLimit
  BY <1>1 DEF RetryPartition
<1>2. CASE ~(f >= PartitionRetryLimit)
  <2>1. f + 1 \in 1 .. PartitionRetryLimit
    BY <1>2, WatchdogAssumption
  <2>2. Delay[f + 1] \in Nat
    BY <2>1, DelayIs
  <2> QED
    BY <1>2, <2>1, <2>2 DEF RetryPartition
<1> QED
  BY <1>1, <1>2

\* Every step asks for a time.
LEMMA Times ==
  /\ \A d \in RequestTimes : d \in Nat /\ d <= RpcTimeout
  /\ \A d \in StepTimes : d \in Nat
  /\ RpcTimeout \in Nat /\ PollInterval \in Nat /\ PartitionRetryLimit \in Nat
  /\ WatchdogSec \in Nat
  /\ 0 \in 0 .. PartitionRetryLimit
  BY WatchdogAssumption

\* Time is a number, and the clock of the start limit keeps its starts.
LEMMA PassesIs ==
  ASSUME TypeInv, NEW d \in Nat, Passes(d)
  PROVE  /\ age' \in Nat /\ window' \in [age : Nat, starts : Nat \ {0}]
         /\ window'.starts = window.starts
         /\ age' = Capped(age + d) /\ window'.age = Capped(window.age + d)
<1>1. \A n \in Nat : Capped(n) \in Nat
  BY WatchdogAssumption DEF Capped
<1>2. age \in Nat /\ window.age \in Nat /\ window.starts \in Nat \ {0}
      /\ window = [age |-> window.age, starts |-> window.starts]
  BY DEF TypeInv
<1>3. age + d \in Nat /\ window.age + d \in Nat
  BY <1>2
<1>4. window' = [age |-> Capped(window.age + d), starts |-> window.starts]
  BY <1>2 DEF Passes
<1> QED
  BY <1>1, <1>2, <1>3, <1>4 DEF Passes

\* Types are kept.
LEMMA TypeStep == ASSUME TypeInv, FedInv, [Next]_vars PROVE TypeInv'
<1>0. /\ worker \in Process /\ epochs \in Nat /\ ready \in BOOLEAN /\ quiet \in Nat
      /\ spent \in Nat /\ age \in Nat /\ streak \in Nat
      /\ window \in [age : Nat, starts : Nat \ {0}]
      /\ socket \in {"unset", "abstract", "gone", "path"}
  BY DEF TypeInv
<1>a. /\ [pc |-> "start"] \in Process /\ Down \in Process /\ Failed \in Process
      /\ [pc |-> "step"] \in Process /\ [pc |-> "client"] \in Process
      /\ Down.pc = "down" /\ Failed.pc = "failed"
      /\ 0 < Requests
  BY <1>0 DEF Process, Down, Failed, Requests
<1>b. ASSUME NEW d \in Nat, NEW fed, Elapse(d, fed)
      PROVE  quiet' \in Nat /\ age' \in Nat /\ window' \in [age : Nat, starts : Nat \ {0}]
  BY <1>0, <1>b, PassesIs DEF Elapse
<1>c. ASSUME NEW d \in Nat, Ends(d), UNCHANGED <<socket, epochs>> PROVE TypeInv'
  <2>1. age' \in Nat /\ window' \in [age : Nat, starts : Nat \ {0}]
    BY <1>c, PassesIs DEF Ends
  <2>2. streak' \in Nat
    BY <1>0, <1>c DEF Ends
  <2> QED
    BY <1>0, <1>a, <1>c, <2>1, <2>2 DEF Ends, TypeInv
<1>d. ASSUME NEW d \in Nat, Steps(d), ready' = ready, streak' = streak, socket' = socket,
             epochs' \in Nat, worker' \in Process, worker'.pc = "observe" => worker'.asked = 0
      PROVE  TypeInv'
  <2>1. quiet' \in Nat /\ age' \in Nat /\ window' \in [age : Nat, starts : Nat \ {0}]
    BY <1>b, <1>d DEF Steps
  <2>2. spent' \in Nat
    BY <1>0, <1>d DEF Steps
  <2>3. 0 < Requests'
    <3>1. epochs' \in Nat
      BY <1>d
    <3>2. \A n \in Nat : 0 < n + 1
      OBVIOUS
    <3> QED
      BY <3>1, <3>2, Zenon DEF Requests
  <2> QED
    BY <1>0, <1>d, <2>1, <2>2, <2>3 DEF TypeInv
<1>e. ASSUME NEW f \in 0 .. PartitionRetryLimit, NEW d \in Nat, NEW s \in Nat,
             RetryPartition(f, d, s), UNCHANGED <<socket, epochs>>
      PROVE  TypeInv'
  <2>1. CASE Ends(d)
    BY <1>c, <1>e, <2>1
  <2>2. CASE /\ f + 1 \in 1 .. PartitionRetryLimit /\ Delay[f + 1] \in Nat
             /\ worker' = Observing(f + 1)
             /\ Elapse(d + Delay[f + 1], FALSE)
             /\ spent' = IF ready THEN spent + s ELSE 0
             /\ UNCHANGED <<ready, streak>>
    <3>1. d + Delay[f + 1] \in Nat /\ f + 1 \in 0 .. PartitionRetryLimit
      BY <2>2, Times
    <3>2. quiet' \in Nat /\ age' \in Nat /\ window' \in [age : Nat, starts : Nat \ {0}]
      BY <1>b, <2>2, <3>1
    <3>3. worker' \in Process /\ worker'.asked = 0 /\ 0 < Requests'
      BY <1>a, <1>e, <2>2, <3>1, ObservingIs DEF Requests
    <3>4. spent' \in Nat
      BY <1>0, <2>2
    <3> QED
      BY <1>0, <1>e, <2>2, <3>2, <3>3, <3>4 DEF TypeInv
  <2> QED
    BY <1>e, <2>1, <2>2, RetryIs
<1>1. CASE StartOk
  <2>1. worker' \in Process /\ worker'.asked = 0 /\ ready' \in BOOLEAN /\ Requests' = Requests
        /\ quiet' = 0 /\ spent' = 0
    BY <1>1, ObservingIs, Times DEF StartOk, Requests
  <2> QED
    BY <1>0, <1>1, <1>a, <2>1 DEF StartOk, TypeInv
<1>2. CASE StartRefused
  BY <1>2, <1>c DEF StartRefused
<1>3. ASSUME NEW d \in RequestTimes, Answered(d) PROVE TypeInv'
  <2>1. /\ worker.pc = "observe" /\ worker.asked \in Nat /\ worker.asked + 1 < Requests
        /\ worker' = [worker EXCEPT !.asked = @ + 1] /\ Requests' = Requests
        /\ worker.failures \in 0 .. PartitionRetryLimit
        /\ worker = [pc |-> "observe", asked |-> worker.asked, failures |-> worker.failures]
    BY <1>0, <1>3, ProcessFields DEF Answered, Requests
  <2>2. worker' = [pc |-> "observe", asked |-> worker.asked + 1, failures |-> worker.failures]
    BY <2>1
  <2>3. worker' \in Process /\ worker'.asked < Requests'
    BY <2>1, <2>2 DEF Process
  <2>4. quiet' \in Nat /\ age' \in Nat /\ window' \in [age : Nat, starts : Nat \ {0}]
    BY <1>3, <1>b, Times DEF Answered
  <2> QED
    BY <1>0, <1>3, <2>3, <2>4 DEF Answered, TypeInv
<1>4. ASSUME NEW d \in RequestTimes, Observed(d) PROVE TypeInv'
  <2>1. quiet' \in Nat /\ age' \in Nat /\ window' \in [age : Nat, starts : Nat \ {0}]
    BY <1>4, <1>b, Times DEF Observed
  <2> QED
    BY <1>0, <1>4, <1>a, <2>1 DEF Observed, TypeInv
<1>5. ASSUME NEW d \in RequestTimes, ObserveFails(d) PROVE TypeInv'
  BY <1>0, <1>5, <1>e, Times, ProcessFields DEF ObserveFails
<1>6. ASSUME NEW d \in StepTimes, NEW published \in BOOLEAN,
             Naps(d) \/ StepDone(d, published) \/ ClientRuns(d)
      PROVE  TypeInv'
  <2>1. worker' = Observing(0) /\ Steps(d) /\ ready' = ready /\ streak' = streak /\ socket' = socket
    BY <1>6 DEF Naps, StepDone, ClientRuns
  <2>2. epochs' \in Nat
    BY <1>0, <1>6 DEF Naps, StepDone, ClientRuns
  <2> QED
    BY <1>d, <2>1, <2>2, ObservingIs, Times
<1>7. ASSUME NEW d \in StepTimes, StepFails(d) PROVE TypeInv'
  BY <1>7, <1>e, Times DEF StepFails
<1>8. ASSUME NEW d \in StepTimes, StepRefuses(d) PROVE TypeInv'
  BY <1>8, <1>c, Times DEF StepRefuses
<1>9. ASSUME NEW d \in StepTimes, ClientAsked(d) PROVE TypeInv'
  <2>1. CASE CheckVersion(install)
    <3>1. /\ worker' = [pc |-> "client"] /\ Steps(d)
          /\ UNCHANGED <<ready, streak, socket, epochs>>
      BY <1>9, <2>1 DEF ClientAsked
    <3>2. worker' \in Process /\ worker'.pc # "observe"
      BY <1>a, <3>1
    <3> QED
      BY <1>0, <1>d, <3>1, <3>2, Times
  <2>2. CASE ~CheckVersion(install)
    BY <1>9, <1>e, <2>2, Times DEF ClientAsked
  <2> QED
    BY <2>1, <2>2
<1>10. CASE WatchdogFires
  <2>1. ready /\ WatchdogSec - quiet \in Nat
    <3>1. ready
      BY <1>10 DEF WatchdogFires, InTime
    <3> QED
      BY <1>0, <3>1, Times DEF FedInv
  <2> QED
    BY <1>10, <1>c, <2>1 DEF WatchdogFires
<1>11. CASE Restart
  <2>1. window.age + RestartSec \in Nat /\ window.starts + 1 \in Nat \ {0}
    BY <1>0, WatchdogAssumption
  <2>2. window' \in [age : Nat, starts : Nat \ {0}]
    BY <1>0, <1>11, <2>1 DEF Restart
  <2>3. worker' \in {[pc |-> "start"], Failed} /\ age' = 0
        /\ UNCHANGED <<socket, epochs, ready, quiet, spent, streak>>
    BY <1>11 DEF Restart
  <2> QED
    BY <1>0, <1>a, <2>2, <2>3 DEF TypeInv
<1>12. CASE OperatorStarts
  BY <1>0, <1>12, <1>a DEF OperatorStarts, TypeInv
<1>13. CASE InstallChanges \/ UNCHANGED vars
  BY <1>13 DEF InstallChanges, vars, TypeInv, Requests
<1> QED
  BY <1>1, <1>2, <1>3, <1>4, <1>5, <1>6, <1>7, <1>8, <1>9, <1>10, <1>11, <1>12, <1>13 DEF Next

----------------------------------------------------------------------------
(* The watchdog. *)

\* A worker is ready only if it reached the service manager, and then every
\* look reaches it.
LEMMA NotifyIs ==
  ASSUME TypeInv
  PROVE  Notify = "Ok" <=> socket = "path"
  BY DEF TypeInv, Notify

\* A look that fails costs a request and a delay.
LEMMA RetryCosts ==
  ASSUME TypeInv, TypeInv', NEW f \in 0 .. PartitionRetryLimit, NEW d \in Nat, NEW s \in Nat,
         RetryPartition(f, d, s), UNCHANGED <<socket, epochs>>,
         ready => /\ socket = "path"
                  /\ quiet + d <= spent + s + RpcTimeout * ((f + 1) * Requests) + Backoff[f]
  PROVE  FedInv'
<1>1. CASE Ends(d)
  BY <1>1 DEF Ends, FedInv
<1>2. CASE /\ f + 1 \in 1 .. PartitionRetryLimit /\ Delay[f + 1] \in Nat
           /\ InTime(d + Delay[f + 1])
           /\ worker' = Observing(f + 1)
           /\ Elapse(d + Delay[f + 1], FALSE)
           /\ spent' = IF ready THEN spent + s ELSE 0
           /\ UNCHANGED <<ready, streak>>
  <2> SUFFICES ASSUME ready'
               PROVE  /\ socket' = "path"
                      /\ quiet' <= WatchdogSec
                      /\ worker'.pc = "observe"
                      /\ quiet' <= spent'
                           + RpcTimeout * (worker'.failures * Requests' + worker'.asked)
                           + Backoff[worker'.failures]
    BY DEF FedInv
  <2>1. ready /\ socket' = "path" /\ Requests' = Requests
    BY <1>2 DEF Requests
  <2>2. worker'.pc = "observe" /\ worker'.failures = f + 1 /\ worker'.asked = 0
    BY <1>2 DEF Observing
  <2>3. quiet' = quiet + (d + Delay[f + 1]) /\ quiet' <= WatchdogSec /\ spent' = spent + s
    BY <1>2, <2>1 DEF Elapse, InTime
  <2>4. /\ Backoff[f + 1] = Backoff[f] + Delay[f + 1] /\ Backoff[f] \in Nat
        /\ Delay[f + 1] \in Nat /\ quiet \in Nat /\ spent \in Nat
    BY <1>2, BackoffIs, BackoffGrows DEF TypeInv
  <2>5. /\ RpcTimeout * ((f + 1) * Requests) \in Nat /\ (f + 1) * Requests \in Nat
    BY Times DEF TypeInv, Requests
  <2>6. quiet + d <= spent + s + RpcTimeout * ((f + 1) * Requests) + Backoff[f]
    BY <2>1
  <2>7. quiet' <= spent' + RpcTimeout * ((f + 1) * Requests) + Backoff[f + 1]
    BY <2>3, <2>4, <2>5, <2>6
  <2>8. (f + 1) * Requests + 0 = (f + 1) * Requests
    BY <2>5
  <2> QED
    BY <2>1, <2>2, <2>3, <2>7, <2>8
<1> QED
  BY <1>1, <1>2, RetryIs

\* What a request that is under way, or fails, can have added to the requests
\* so far.
LEMMA OneMoreRequest ==
  ASSUME NEW f \in Nat, NEW n \in Nat, NEW all \in Nat, n < all, NEW rpc \in Nat
  PROVE  /\ rpc * (f * all + n) + rpc <= rpc * ((f + 1) * all)
         /\ rpc * (f * all + (n + 1)) = rpc * (f * all + n) + rpc
         /\ rpc * (f * all + n) \in Nat /\ rpc * ((f + 1) * all) \in Nat
<1> DEFINE a == f * all + n
           b == (f + 1) * all
<1>1. a \in Nat /\ b \in Nat /\ a + 1 <= b /\ f * all + (n + 1) = a + 1
  <2>1. (f + 1) * all = f * all + all /\ f * all \in Nat
    OBVIOUS
  <2> QED
    BY <2>1
<1> HIDE DEF a, b
<1>2. rpc * (a + 1) = rpc * a + rpc /\ rpc * (a + 1) <= rpc * b /\ rpc * a \in Nat /\ rpc * b \in Nat
  <2>1. \A x, y \in Nat : x <= y => rpc * x <= rpc * y /\ rpc * x \in Nat /\ rpc * y \in Nat
    OBVIOUS
  <2>2. rpc * (a + 1) = rpc * a + rpc
    BY <1>1
  <2> QED
    BY <1>1, <2>1, <2>2
<1> QED
  BY <1>1, <1>2 DEF a, b

\* The watchdog is fed in time.
LEMMA FedStep == ASSUME TypeInv, TypeInv', FedInv, [Next]_vars PROVE FedInv'
<1>0. /\ worker \in Process /\ quiet \in Nat /\ spent \in Nat /\ ready \in BOOLEAN
      /\ Requests \in Nat /\ Requests > 0 /\ Requests' \in Nat /\ RpcTimeout \in Nat
  <2>1. /\ epochs \in Nat /\ epochs' \in Nat /\ worker \in Process /\ quiet \in Nat
        /\ spent \in Nat /\ ready \in BOOLEAN
    BY DEF TypeInv
  <2>2. epochs + 1 \in Nat /\ epochs + 1 > 0 /\ epochs' + 1 \in Nat
    <3>1. \A n \in Nat : n + 1 \in Nat /\ n + 1 > 0
      OBVIOUS
    <3> QED
      BY <2>1, <3>1, Zenon
  <2> QED
    BY <2>1, <2>2, WatchdogAssumption, Zenon DEF Requests
<1>a. Down.pc = "down" /\ Failed.pc = "failed"
  BY DEF Down, Failed
<1>b. Backoff[0] = 0 /\ \A n \in Nat : RpcTimeout * (0 * n + 0) = 0
  BY <1>0, BackoffIs
<1>c. ASSUME worker' = Observing(0),
             ready' => socket' = "path" /\ quiet' <= WatchdogSec /\ quiet' <= spent'
      PROVE  FedInv'
  <2>1. worker'.pc = "observe" /\ worker'.failures = 0 /\ worker'.asked = 0
    BY <1>c, ObservingIs, Times
  <2>2. RpcTimeout * (0 * Requests' + 0) = 0
    BY <1>0, <1>b
  <2>3. quiet' \in Nat /\ spent' \in Nat
    BY DEF TypeInv
  <2>4. ready' => quiet' <= spent' + 0 + 0
    <3>1. \A n \in Nat : n + 0 + 0 = n
      OBVIOUS
    <3> QED
      BY <1>c, <2>3, <3>1, Zenon
  <2> QED
    BY <1>b, <1>c, <2>1, <2>2, <2>4 DEF FedInv
<1>1. CASE StartOk
  <2>1. worker' = Observing(0) /\ quiet' = 0 /\ spent' = 0 /\ socket' = socket
        /\ ready' = (Notify = "Ok")
    BY <1>1 DEF StartOk
  <2>2. ready' => socket' = "path"
    BY <2>1, NotifyIs
  <2> QED
    BY <1>c, <2>1, <2>2, Times
<1>2. ASSUME NEW d \in StepTimes, StartRefused \/ WatchdogFires \/ StepRefuses(d) PROVE FedInv'
  BY <1>2 DEF StartRefused, WatchdogFires, StepRefuses, Ends, FedInv
<1>3. ASSUME NEW d \in RequestTimes, Answered(d) PROVE FedInv'
  <2> DEFINE f == worker.failures
             n == worker.asked
             used == RpcTimeout * (f * Requests + n)
  <2>1. /\ worker.pc = "observe" /\ n \in Nat /\ f \in 0 .. PartitionRetryLimit /\ n < Requests
        /\ worker'.pc = "observe" /\ worker'.failures = f /\ worker'.asked = n + 1
        /\ Requests' = Requests /\ socket' = socket /\ ready' = ready /\ spent' = spent
        /\ ready => quiet' = quiet + d /\ quiet + d <= WatchdogSec
    BY <1>0, <1>3, ProcessFields DEF Answered, Elapse, Requests, InTime, TypeInv
  <2>2. f \in Nat
    BY <2>1, Times
  <2>3. Backoff[f] \in Nat /\ d \in Nat /\ d <= RpcTimeout
    BY <2>1, BackoffGrows, Times
  <2>4. ready => socket = "path" /\ quiet <= spent + used + Backoff[f]
    BY <2>1 DEF FedInv
  <2> HIDE DEF f, n
  <2>5. RpcTimeout * (f * Requests + (n + 1)) = used + RpcTimeout /\ used \in Nat
    BY <1>0, <2>1, <2>2, OneMoreRequest
  <2> HIDE DEF used
  <2>6. ready => quiet' <= spent + (used + RpcTimeout) + Backoff[f]
    BY <1>0, <2>1, <2>3, <2>4, <2>5
  <2> QED
    BY <2>1, <2>4, <2>5, <2>6 DEF FedInv
<1>4. ASSUME NEW d \in RequestTimes, Observed(d) PROVE FedInv'
  <2>1. ready => Notify = "Ok"
    BY NotifyIs DEF FedInv
  <2>2. worker'.pc = "step" /\ spent' = 0 /\ socket' = socket /\ ready' = ready
        /\ (ready => quiet' = 0)
    BY <1>4, <2>1 DEF Observed, Elapse
  <2> QED
    BY <2>2, Times DEF FedInv
<1>5. ASSUME NEW d \in RequestTimes, ObserveFails(d) PROVE FedInv'
  <2> DEFINE f == worker.failures
             n == worker.asked
             used == RpcTimeout * (f * Requests + n)
             all == RpcTimeout * ((f + 1) * Requests)
  <2>1. /\ worker.pc = "observe" /\ n \in Nat /\ f \in 0 .. PartitionRetryLimit /\ n < Requests
        /\ RetryPartition(f, d, 0) /\ UNCHANGED <<socket, epochs>>
    BY <1>0, <1>5, ProcessFields DEF ObserveFails, TypeInv
  <2>2. d \in Nat /\ d <= RpcTimeout /\ Backoff[f] \in Nat /\ f \in Nat
    BY <2>1, Times, BackoffGrows
  <2>3. ready => socket = "path" /\ quiet <= spent + used + Backoff[f]
    BY <2>1 DEF FedInv
  <2> HIDE DEF f, n
  <2>4. used + RpcTimeout <= all /\ used \in Nat /\ all \in Nat
    BY <1>0, <2>1, <2>2, OneMoreRequest
  <2> HIDE DEF used, all
  <2>5. ready => quiet + d <= spent + 0 + all + Backoff[f]
    BY <1>0, <2>2, <2>3, <2>4
  <2> QED
    BY <2>1, <2>2, <2>3, <2>5, RetryCosts DEF all
<1>6. ASSUME NEW d \in StepTimes, NEW published \in BOOLEAN,
             Naps(d) \/ StepDone(d, published) \/ ClientRuns(d)
      PROVE  FedInv'
  <2>1. /\ worker.pc # "observe" /\ worker' = Observing(0) /\ socket' = socket /\ ready' = ready
        /\ ready => quiet' = quiet + d /\ spent' = spent + d /\ quiet + d <= WatchdogSec
    BY <1>6 DEF Naps, StepDone, ClientRuns, Steps, Elapse, InTime
  <2>2. ready => quiet = spent /\ socket = "path"
    BY <2>1 DEF FedInv
  <2>3. spent + d <= spent + d
    BY <1>0, Times
  <2> QED
    BY <1>c, <2>1, <2>2, <2>3
<1>7. ASSUME NEW d \in StepTimes, worker.pc = "step", RetryPartition(0, d, d), UNCHANGED <<socket, epochs>>
      PROVE  FedInv'
  <2>1. ready => quiet = spent /\ socket = "path"
    BY <1>7 DEF FedInv
  <2>2. RpcTimeout * ((0 + 1) * Requests) \in Nat /\ d \in Nat
    BY <1>0, Times
  <2>3. ready => quiet + d <= spent + d + RpcTimeout * ((0 + 1) * Requests) + Backoff[0]
    BY <1>0, <1>b, <2>1, <2>2
  <2> QED
    BY <1>7, <2>1, <2>2, <2>3, RetryCosts, Times
<1>8. ASSUME NEW d \in StepTimes, StepFails(d) PROVE FedInv'
  BY <1>7, <1>8 DEF StepFails
<1>9. ASSUME NEW d \in StepTimes, ClientAsked(d) PROVE FedInv'
  <2>1. CASE CheckVersion(install)
    <3>1. /\ worker.pc = "step" /\ worker'.pc = "client" /\ UNCHANGED <<ready, socket>>
          /\ ready => quiet' = quiet + d /\ spent' = spent + d /\ quiet + d <= WatchdogSec
      BY <1>9, <2>1 DEF ClientAsked, Steps, Elapse, InTime
    <3> QED
      BY <3>1 DEF FedInv
  <2>2. CASE ~CheckVersion(install)
    BY <1>7, <1>9, <2>2 DEF ClientAsked
  <2> QED
    BY <2>1, <2>2
<1>10. CASE Restart \/ OperatorStarts
  <2>1. worker.pc # "observe" /\ worker'.pc # "observe" /\ UNCHANGED <<ready, quiet, spent, socket>>
    BY <1>10, <1>a DEF Restart, OperatorStarts
  <2> QED
    BY <2>1 DEF FedInv
<1>11. CASE InstallChanges \/ UNCHANGED vars
  BY <1>11 DEF InstallChanges, vars, FedInv, Requests
<1>12. CASE StartRefused \/ WatchdogFires
  BY <1>12 DEF StartRefused, WatchdogFires, Ends, FedInv
<1> QED
  BY <1>1, <1>2, <1>3, <1>4, <1>5, <1>6, <1>8, <1>9, <1>10, <1>11, <1>12 DEF Next

----------------------------------------------------------------------------
(* The start limit. *)

\* What a step does to the clocks of the start limit and to the streak.
Waits(d) == Alive /\ Alive' /\ Passes(d) /\ streak' = streak

EndsAfter(d) ==
  /\ Alive /\ worker' = Down /\ Passes(d)
  /\ streak' = IF Soon(d) THEN streak + 1 ELSE 0

Stays ==
  /\ UNCHANGED <<age, window, streak>>
  /\ Alive' = Alive
  /\ (worker'.pc = "down") = (worker.pc = "down")

\* Time passes in a process, a process ends, one is started, or nothing of this.
LEMMA StreakKinds ==
  ASSUME TypeInv, FedInv, [Next]_vars
  PROVE  Stays \/ Restart \/ OperatorStarts \/ \E d \in Nat : Waits(d) \/ EndsAfter(d)
<1> DEFINE Goal == Stays \/ Restart \/ OperatorStarts \/ \E d \in Nat : Waits(d) \/ EndsAfter(d)
<1>0. worker \in Process /\ quiet \in Nat
  BY DEF TypeInv
<1>a. \A f : Observing(f).pc = "observe"
  BY DEF Observing
<1>b. ASSUME NEW d \in Nat, Alive, Ends(d) PROVE Goal
  BY <1>b DEF Ends, EndsAfter
<1>c. ASSUME NEW d \in Nat, NEW fed, Alive, worker'.pc \in {"observe", "step", "client"},
             Elapse(d, fed), streak' = streak
      PROVE  Goal
  BY <1>c DEF Waits, Alive, Elapse
<1>e. ASSUME NEW f \in 0 .. PartitionRetryLimit, NEW d \in Nat, NEW s \in Nat, Alive,
             RetryPartition(f, d, s)
      PROVE  Goal
  <2>1. CASE Ends(d)
    BY <1>b, <1>e, <2>1
  <2>2. CASE /\ f + 1 \in 1 .. PartitionRetryLimit /\ Delay[f + 1] \in Nat
             /\ worker' = Observing(f + 1)
             /\ Elapse(d + Delay[f + 1], FALSE)
             /\ UNCHANGED <<ready, streak>>
    <3>1. d + Delay[f + 1] \in Nat
      BY <2>2
    <3> QED
      BY <1>a, <1>c, <1>e, <2>2, <3>1
  <2> QED
    BY <1>e, <2>1, <2>2, RetryIs
<1>1. CASE StartOk
  BY <1>1, <1>a DEF StartOk, Stays, Alive
<1>2. CASE StartRefused
  <2>1. Alive /\ Ends(0)
    BY <1>2 DEF StartRefused, Alive
  <2> QED
    BY <1>b, <2>1
<1>3. ASSUME NEW d \in RequestTimes, Answered(d) PROVE Goal
  <2>1. worker'.pc = "observe" /\ Alive
    BY <1>0, <1>3, ProcessFields DEF Answered, Alive
  <2> QED
    BY <1>3, <1>c, <2>1, Times DEF Answered
<1>4. ASSUME NEW d \in RequestTimes, Observed(d) PROVE Goal
  <2>1. worker'.pc = "step" /\ Alive /\ streak' = streak /\ Elapse(d, Notify = "Ok")
    BY <1>4 DEF Observed, Alive
  <2> QED
    BY <1>c, <2>1, Times
<1>5. ASSUME NEW d \in RequestTimes, ObserveFails(d) PROVE Goal
  <2>1. Alive /\ worker.failures \in 0 .. PartitionRetryLimit
    BY <1>0, <1>5, ProcessFields DEF ObserveFails, Alive
  <2> QED
    BY <1>5, <1>e, <2>1, Times DEF ObserveFails
<1>6. ASSUME NEW d \in StepTimes, NEW published \in BOOLEAN,
             Naps(d) \/ StepDone(d, published) \/ ClientRuns(d)
      PROVE  Goal
  <2>1. Alive /\ worker'.pc = "observe" /\ streak' = streak /\ Elapse(d, FALSE)
    BY <1>6, <1>a DEF Naps, StepDone, ClientRuns, Steps, Alive
  <2> QED
    BY <1>c, <2>1, Times
<1>7. ASSUME NEW d \in StepTimes, StepFails(d) PROVE Goal
  <2>1. Alive
    BY <1>7 DEF StepFails, Alive
  <2> QED
    BY <1>7, <1>e, <2>1, Times DEF StepFails
<1>8. ASSUME NEW d \in StepTimes, StepRefuses(d) PROVE Goal
  <2>1. Alive /\ Ends(d)
    BY <1>8 DEF StepRefuses, Alive
  <2> QED
    BY <1>b, <2>1, Times
<1>9. ASSUME NEW d \in StepTimes, ClientAsked(d) PROVE Goal
  <2>0. Alive /\ d \in Nat
    BY <1>9, Times DEF ClientAsked, Alive
  <2>1. CASE CheckVersion(install)
    <3>1. worker' = [pc |-> "client"] /\ UNCHANGED <<ready, streak>> /\ Steps(d)
      BY <1>9, <2>1 DEF ClientAsked
    <3>2. worker'.pc = "client" /\ streak' = streak /\ Elapse(d, FALSE)
      BY <3>1 DEF Steps
    <3> QED
      BY <1>c, <2>0, <3>2
  <2>2. CASE ~CheckVersion(install)
    <3>1. RetryPartition(0, d, d)
      BY <1>9, <2>2 DEF ClientAsked
    <3> QED
      BY <1>e, <2>0, <3>1, Times
  <2> QED
    BY <2>1, <2>2
<1>10. CASE WatchdogFires
  <2>1. Alive /\ ready /\ Ends(WatchdogSec - quiet)
    BY <1>10 DEF WatchdogFires, InTime, Alive
  <2>2. WatchdogSec - quiet \in Nat
    BY <1>0, <2>1, Times DEF FedInv
  <2> QED
    BY <1>b, <2>1, <2>2
<1>11. CASE InstallChanges \/ UNCHANGED vars
  BY <1>11 DEF InstallChanges, vars, Stays, Alive
<1> QED
  BY <1>1, <1>2, <1>3, <1>4, <1>5, <1>6, <1>7, <1>8, <1>9, <1>10, <1>11 DEF Next

\* A quick refusal, after others that kept the interval short, keeps it short
\* enough for one more.
LEMMA QuickKeepsShort ==
  ASSUME NEW B \in Nat, NEW I \in Nat, NEW R \in Nat, NEW n \in Nat,
         NEW w \in Nat, NEW a \in Nat, NEW d \in Nat, NEW v \in Nat,
         B * w <= (n - 1) * (I - 1) + B * a, B * (a + d + R) < I, v <= w + d
  PROVE  B * (v + R) <= n * (I - 1)
<1>1. /\ B * (v + R) = B * v + B * R /\ B * (w + d) = B * w + B * d
      /\ B * (a + d + R) = B * a + B * d + B * R
      /\ n * (I - 1) = (n - 1) * (I - 1) + (I - 1)
  OBVIOUS
<1>2. B * v <= B * (w + d)
  <2>1. \A x, y \in Nat : x <= y => B * x <= B * y
    OBVIOUS
  <2>2. w + d \in Nat
    OBVIOUS
  <2> QED
    BY <2>1, <2>2
<1>3. B * v \in Int /\ B * w \in Int /\ B * d \in Int /\ B * a \in Int /\ B * R \in Int
      /\ (n - 1) * (I - 1) \in Int
  OBVIOUS
<1> QED
  BY <1>1, <1>2, <1>3

\* And time that passes in a process that may still end soon adds to both.
LEMMA WaitKeepsShort ==
  ASSUME NEW B \in Nat, NEW rest \in Int, NEW w \in Nat, NEW a \in Nat, NEW d \in Nat, NEW v \in Nat,
         B * w <= rest + B * a, v <= w + d
  PROVE  B * v <= rest + B * (a + d)
<1>1. B * (w + d) = B * w + B * d /\ B * (a + d) = B * a + B * d
  OBVIOUS
<1>2. B * v <= B * (w + d)
  <2>1. \A x, y \in Nat : x <= y => B * x <= B * y
    OBVIOUS
  <2>2. w + d \in Nat
    OBVIOUS
  <2> QED
    BY <2>1, <2>2
<1>3. B * v \in Int /\ B * w \in Int /\ B * d \in Int /\ B * a \in Int
  OBVIOUS
<1> QED
  BY <1>1, <1>2, <1>3

\* An interval this short has not run out.
LEMMA ShortIsOpen ==
  ASSUME NEW B \in Nat \ {0}, NEW I \in Nat \ {0}, NEW n \in Nat, n <= B, NEW x \in Nat,
         B * x <= n * (I - 1)
  PROVE  x <= I
<1>1. n * (I - 1) <= B * (I - 1) /\ n * (I - 1) \in Int /\ B * (I - 1) \in Int /\ B * x \in Int
  BY Z3
<1>2. B * x <= B * (I - 1)
  BY <1>1
<1>3. ASSUME x > I - 1 PROVE FALSE
  <2>1. x = (I - 1) + (x - (I - 1)) /\ x - (I - 1) \in Nat \ {0}
    BY <1>3
  <2>2. \A p \in Nat, q \in Nat \ {0} : B * (p + q) > B * p
    OBVIOUS
  <2>3. I - 1 \in Nat
    OBVIOUS
  <2>4. B * x > B * (I - 1)
    BY <2>1, <2>2, <2>3, Zenon
  <2> QED
    BY <1>1, <1>2, <2>4
<1> QED
  BY <1>3

\* A streak and the interval it falls into keep step.
LEMMA StreakStep == ASSUME TypeInv, FedInv, StreakInv, [Next]_vars PROVE StreakInv'
<1> DEFINE B == StartLimitBurst
           I == StartLimitIntervalSec
           R == RestartSec
           n == window.starts
           w == window.age
<1>0. /\ B \in Nat \ {0} /\ I \in Nat \ {0} /\ R \in Nat \ {0} /\ streak \in Nat
      /\ age \in Nat /\ w \in Nat /\ n \in Nat \ {0} /\ B \in Nat /\ I \in Nat /\ R \in Nat /\ n \in Nat
  BY WatchdogAssumption DEF TypeInv
<1>1. CASE Stays
  BY <1>1 DEF Stays, StreakInv
<1>2. ASSUME NEW d \in Nat, Waits(d) PROVE StreakInv'
  <2>0. Alive /\ Alive' /\ streak' = streak /\ worker'.pc # "down"
    BY <1>2 DEF Waits, Alive
  <2>1. /\ window'.starts = n /\ age' \in Nat /\ window'.age \in Nat
        /\ age' = Capped(age + d) /\ window'.age = Capped(w + d)
    BY <1>2, PassesIs DEF Waits
  <2>2. window'.age <= w + d
    BY <1>0, <2>1 DEF Capped
  <2>3. ASSUME streak >= n - 1, B * (age' + R) < I
        PROVE  B * window'.age <= (n - 1) * (I - 1) + B * age'
    <3>1. age' < I
      <4>1. \A p \in Nat : B * (p + R) >= p
        BY <1>0
      <4> QED
        BY <1>0, <2>1, <2>3, <4>1
    <3>2. age' = age + d
      BY <1>0, <2>1, <3>1 DEF Capped
    <3>3. B * (age + R) < I
      <4>1. \A p, q \in Nat : B * (p + q + R) >= B * (p + R)
        BY <1>0
      <4>2. B * (age + d + R) >= B * (age + R) /\ B * (age + d + R) \in Int /\ B * (age + R) \in Int
        BY <1>0, <4>1
      <4> QED
        BY <1>0, <2>3, <3>2, <4>2
    <3>4. B * w <= (n - 1) * (I - 1) + B * age
      BY <2>0, <2>3, <3>3 DEF StreakInv
    <3>5. (n - 1) * (I - 1) \in Int
      BY <1>0
    <3> HIDE DEF B, I, R, n, w
    <3> QED
      BY <1>0, <2>1, <2>2, <3>2, <3>4, <3>5, WaitKeepsShort
  <2>4. n <= B /\ streak <= (n - 1) + (B - 1)
    BY <2>0 DEF StreakInv
  <2> QED
    BY <2>0, <2>1, <2>3, <2>4 DEF StreakInv
<1>3. ASSUME NEW d \in Nat, EndsAfter(d) PROVE StreakInv'
  <2>0. Alive /\ worker'.pc = "down" /\ ~Alive' /\ streak' = IF Soon(d) THEN streak + 1 ELSE 0
    BY <1>3 DEF EndsAfter, Down, Alive
  <2>1. window'.starts = n /\ window'.age \in Nat /\ window'.age = Capped(w + d)
    BY <1>3, PassesIs DEF EndsAfter
  <2>2. window'.age <= w + d
    BY <1>0, <2>1 DEF Capped
  <2>3. n <= B /\ streak <= (n - 1) + (B - 1)
    BY <2>0 DEF StreakInv
  <2>4. streak' <= n + (B - 1)
    BY <1>0, <2>0, <2>3
  <2>5. ASSUME streak' >= n PROVE B * (window'.age + R) <= n * (I - 1)
    <3>1. Soon(d) /\ streak >= n - 1
      BY <1>0, <2>0, <2>5
    <3>2. B * (age + d + R) < I
      BY <3>1 DEF Soon
    <3>3. B * (age + R) < I
      <4>1. \A p, q \in Nat : B * (p + q + R) >= B * (p + R)
        BY <1>0
      <4>2. B * (age + d + R) >= B * (age + R) /\ B * (age + d + R) \in Int /\ B * (age + R) \in Int
        BY <1>0, <4>1
      <4> QED
        BY <1>0, <3>2, <4>2
    <3>4. B * w <= (n - 1) * (I - 1) + B * age
      BY <2>0, <3>1, <3>3 DEF StreakInv
    <3> HIDE DEF B, I, R, n, w
    <3> QED
      BY <1>0, <2>1, <2>2, <3>2, <3>4, QuickKeepsShort
  <2> QED
    BY <2>0, <2>1, <2>3, <2>4, <2>5 DEF StreakInv
<1>4. CASE Restart
  <2>0. /\ worker.pc = "down" /\ age' = 0 /\ streak' = streak
        /\ n <= B /\ streak <= n + (B - 1)
        /\ streak >= n => B * (w + R) <= n * (I - 1)
    BY <1>4 DEF Restart, StreakInv
  <2>1. CASE w + R > I
    <3>1. worker'.pc = "start" /\ window'.starts = 1 /\ window'.age = 0
      BY <1>0, <1>4, <2>1 DEF Restart
    <3>2. streak < n
      <4>1. ASSUME streak >= n PROVE FALSE
        <5>1. w + R \in Nat /\ B * (w + R) <= n * (I - 1)
          BY <1>0, <2>0, <4>1
        <5> HIDE DEF B, I, R, n, w
        <5>2. w + R <= I
          BY <1>0, <2>0, <5>1, ShortIsOpen
        <5> QED
          BY <1>0, <2>1, <5>1, <5>2
      <4> QED
        BY <1>0, <4>1
    <3>3. streak <= (1 - 1) + (B - 1) /\ 1 <= B
      BY <1>0, <2>0, <3>2
    <3>4. B * 0 <= (1 - 1) * (I - 1) + B * 0
      BY <1>0
    <3> QED
      BY <2>0, <3>1, <3>3, <3>4 DEF StreakInv, Alive
  <2>2. CASE w + R <= I /\ n < B
    <3>1. worker'.pc = "start" /\ window'.starts = n + 1 /\ window'.age = w + R
      BY <1>0, <1>4, <2>2 DEF Restart
    <3>2. (n + 1) - 1 = n /\ n + 1 <= B /\ B * 0 = 0 /\ n * (I - 1) \in Int
      BY <1>0, <2>2
    <3>3. streak >= n => B * (w + R) <= n * (I - 1) + B * 0
      BY <2>0, <3>2
    <3> HIDE DEF B, I, R, n, w
    <3>4. StreakInv' <=> /\ n + 1 <= B
                         /\ streak <= n + (B - 1)
                         /\ streak >= n /\ B * (0 + R) < I => B * (w + R) <= n * (I - 1) + B * 0
      BY <2>0, <3>1, <3>2 DEF StreakInv, Alive, B, I, R
    <3> QED
      BY <2>0, <3>2, <3>3, <3>4
  <2>3. CASE w + R <= I /\ n >= B
    <3>1. worker' = Failed
      BY <1>0, <1>4, <2>3 DEF Restart
    <3> QED
      BY <3>1 DEF StreakInv, Alive, Failed
  <2> QED
    BY <1>0, <2>1, <2>2, <2>3
<1>5. CASE OperatorStarts
  <2>1. worker'.pc = "start" /\ age' = 0 /\ window'.age = 0 /\ window'.starts = 1 /\ streak' = 0
    BY <1>5 DEF OperatorStarts
  <2>2. 1 <= B /\ 0 <= (1 - 1) + (B - 1) /\ B * 0 <= (1 - 1) * (I - 1) + B * 0
    BY <1>0
  <2> QED
    BY <2>1, <2>2 DEF StreakInv, Alive
<1> QED
  BY <1>1, <1>2, <1>3, <1>4, <1>5, StreakKinds

----------------------------------------------------------------------------
(* The theorems. *)

WatchdogInv == TypeInv /\ FedInv /\ StreakInv

\* A process that was just started keeps it all.
LEMMA WatchdogInit == Init => WatchdogInv
<1> SUFFICES ASSUME Init PROVE WatchdogInv
  OBVIOUS
<1>1. TypeInv
  <2>1. worker \in Process /\ worker.pc = "start"
    BY DEF Init, Process
  <2>2. socket \in {"unset", "abstract", "gone", "path"}
    BY WatchdogAssumption DEF Init
  <2>3. window \in [age : Nat, starts : Nat \ {0}] /\ age \in Nat
    BY DEF Init
  <2>4. ready \in BOOLEAN /\ epochs \in Nat /\ quiet \in Nat /\ spent \in Nat /\ streak \in Nat
    BY DEF Init
  <2> QED
    BY <2>1, <2>2, <2>3, <2>4 DEF TypeInv
<1>2. FedInv
  BY DEF Init, FedInv
<1>3. StreakInv
  <2>1. /\ StartLimitBurst \in Nat \ {0} /\ StartLimitIntervalSec \in Nat
        /\ worker.pc = "start" /\ window.age = 0 /\ window.starts = 1 /\ age = 0 /\ streak = 0
    BY WatchdogAssumption DEF Init
  <2>2. /\ 1 <= StartLimitBurst /\ 0 <= (1 - 1) + (StartLimitBurst - 1)
        /\ StartLimitBurst * 0 <= (1 - 1) * (StartLimitIntervalSec - 1) + StartLimitBurst * 0
    BY <2>1
  <2> QED
    BY <2>1, <2>2 DEF StreakInv, Alive
<1> QED
  BY <1>1, <1>2, <1>3 DEF WatchdogInv

\* Every step of the process, of systemd, of the operator and of whoever
\* changes the client keeps the three.
THEOREM WatchdogInvariant == Spec => []WatchdogInv
<1>1. WatchdogInv /\ [Next]_vars => WatchdogInv'
  BY TypeStep, FedStep, StreakStep DEF WatchdogInv
<1> QED
  BY <1>1, WatchdogInit, PTL DEF Spec

\* Within the budget, the cost of the failures and of the request under way,
\* with the pause after it, is at most that of the whole budget.
LEMMA WithinTheBudget ==
  ASSUME WatchdogInv, ready, worker.pc = "observe", NEW t \in Nat, t <= RpcTimeout,
         NEW pause \in Nat,
         pause = 0 \/ (worker.failures < PartitionRetryLimit /\ pause = Delay[worker.failures + 1])
  PROVE  quiet + (t + pause) <= spent + RecoveryBound
<1> DEFINE L == PartitionRetryLimit
           f == worker.failures
           n == Requests
           used == RpcTimeout * (f * n + worker.asked)
           all == RpcTimeout * ((f + 1) * n)
           most == RpcTimeout * (L + 1) * n
<1>0. L \in Nat /\ RpcTimeout \in Nat /\ n \in Nat /\ quiet \in Nat /\ spent \in Nat
  BY WatchdogAssumption DEF WatchdogInv, TypeInv, Requests
<1>1. f \in 0 .. L /\ f \in Nat /\ worker.asked \in Nat /\ worker.asked < n
  BY <1>0, ProcessFields DEF WatchdogInv, TypeInv
<1>2. quiet <= spent + used + Backoff[f]
  BY DEF WatchdogInv, FedInv
<1>3. used + RpcTimeout <= all /\ used \in Nat /\ all \in Nat
  <2> HIDE DEF f, n
  <2> QED
    BY <1>0, <1>1, OneMoreRequest
<1>4. all <= most /\ most \in Nat
  <2>1. (f + 1) * n \in Nat /\ (L + 1) * n \in Nat /\ (f + 1) * n <= (L + 1) * n
    BY <1>0, <1>1
  <2>2. \A a, b \in Nat : a <= b => RpcTimeout * a <= RpcTimeout * b /\ RpcTimeout * b \in Nat
    BY <1>0
  <2>3. RpcTimeout * ((L + 1) * n) = RpcTimeout * (L + 1) * n
    BY <1>0
  <2> HIDE DEF L, f, n
  <2> QED
    BY <2>1, <2>2, <2>3
<1>5. Backoff[f] \in Nat /\ Backoff[L] \in Nat /\ Backoff[f] + pause <= Backoff[L]
  <2>1. Backoff[f] \in Nat /\ Backoff[L] \in Nat /\ Backoff[f] <= Backoff[L]
    BY <1>0, <1>1, BackoffGrows
  <2>2. CASE pause = 0
    BY <2>1, <2>2
  <2>3. CASE f < L /\ pause = Delay[f + 1]
    <3>1. f + 1 \in 1 .. L /\ f + 1 \in 0 .. L /\ (f + 1) - 1 = f
      BY <1>0, <1>1, <2>3
    <3>2. Backoff[f + 1] = Backoff[f] + Delay[f + 1]
      BY <3>1, BackoffIs
    <3>3. Backoff[f + 1] <= Backoff[L]
      BY <3>1, BackoffGrows
    <3> QED
      BY <2>1, <2>3, <3>2, <3>3
  <2> QED
    BY <2>2, <2>3
<1>6. RecoveryBound = most + Backoff[L]
  BY DEF RecoveryBound
<1> HIDE DEF L, f, n, used, all, most
<1> QED
  BY <1>0, <1>2, <1>3, <1>4, <1>5, <1>6

LEMMA FedImplies == WatchdogInv => FedInTime
<1> SUFFICES ASSUME WatchdogInv, ready PROVE quiet <= spent + RecoveryBound
  BY DEF FedInTime
<1>0. quiet \in Nat /\ spent \in Nat /\ RpcTimeout \in Nat
  BY WatchdogAssumption DEF WatchdogInv, TypeInv
<1>1. RecoveryBound \in Nat
  <2>1. PartitionRetryLimit \in Nat /\ Requests \in Nat /\ Backoff[PartitionRetryLimit] \in Nat
    BY WatchdogAssumption, BackoffIs DEF WatchdogInv, TypeInv, Requests
  <2>2. RpcTimeout * (PartitionRetryLimit + 1) * Requests \in Nat
    BY <1>0, <2>1
  <2> QED
    BY <2>1, <2>2 DEF RecoveryBound
<1>2. CASE worker.pc = "observe"
  <2>1. 0 <= RpcTimeout /\ quiet + (0 + 0) = quiet
    BY <1>0
  <2>2. quiet + (0 + 0) <= spent + RecoveryBound
    BY <1>2, <2>1, WithinTheBudget
  <2> QED
    BY <2>1, <2>2
<1>3. CASE worker.pc # "observe"
  <2>1. quiet = spent
    BY <1>3 DEF WatchdogInv, FedInv
  <2> QED
    BY <1>0, <1>1, <2>1
<1> QED
  BY <1>2, <1>3

\* H-98: whatever the retry policy, however long the log, however the looks and
\* the steps of a cycle fail and however long a step takes, the watchdog goes
\* unfed no longer than that step and the bound.
THEOREM FedWithinTheBound == Spec => []FedInTime
  BY WatchdogInvariant, FedImplies, PTL

\* anchor-b-worker.rs retry_partition under WatchdogSec: a worker that is
\* looking at the chain, after however many failures, is killed only if the
\* watchdog is shorter than its last step and the bound for its log together.
THEOREM RecoveringIsNotKilled ==
  Spec => [][WatchdogFires /\ worker.pc = "observe" => WatchdogSec < spent + RecoveryBound]_vars
<1>1. ASSUME WatchdogInv, WatchdogFires, worker.pc = "observe" PROVE WatchdogSec < spent + RecoveryBound
  <2> DEFINE f == worker.failures
  <2>0. /\ f \in 0 .. PartitionRetryLimit /\ quiet \in Nat /\ spent \in Nat
        /\ WatchdogSec \in Nat /\ PartitionRetryLimit \in Nat
    BY <1>1, ProcessFields, Times DEF WatchdogInv, TypeInv
  <2>1. PICK d \in Durations : ready /\ ~(quiet + d <= WatchdogSec)
    BY <1>1 DEF WatchdogFires, InTime
  <2>2. \/ d \in RequestTimes
        \/ f < PartitionRetryLimit /\ \E t \in RequestTimes : d = t + Delay[f + 1]
    BY <1>1, <2>1 DEF Durations
  <2>3. quiet + d <= spent + RecoveryBound /\ d \in Nat
    <3>1. CASE d \in RequestTimes
      <4>1. d \in Nat /\ d <= RpcTimeout /\ d + 0 = d
        BY <3>1, Times
      <4>2. quiet + (d + 0) <= spent + RecoveryBound
        BY <1>1, <2>1, <4>1, WithinTheBudget
      <4> QED
        BY <4>1, <4>2
    <3>2. CASE f < PartitionRetryLimit /\ \E t \in RequestTimes : d = t + Delay[f + 1]
      <4>1. PICK t \in RequestTimes : d = t + Delay[f + 1]
        BY <3>2
      <4>2. f + 1 \in 1 .. PartitionRetryLimit
        BY <2>0, <3>2
      <4>3. Delay[f + 1] \in Nat /\ t \in Nat /\ t <= RpcTimeout
        BY <4>2, DelayIs, Times
      <4>4. quiet + (t + Delay[f + 1]) <= spent + RecoveryBound
        BY <1>1, <2>1, <3>2, <4>3, WithinTheBudget
      <4> QED
        BY <4>1, <4>3, <4>4
    <3> QED
      BY <2>2, <3>1, <3>2
  <2>4. RecoveryBound \in Int
    <3>1. RpcTimeout \in Nat /\ Requests \in Nat /\ Backoff[PartitionRetryLimit] \in Nat
      BY <1>1, <2>0, WatchdogAssumption, BackoffIs DEF WatchdogInv, TypeInv, Requests
    <3>2. RpcTimeout * (PartitionRetryLimit + 1) * Requests \in Nat
      BY <2>0, <3>1
    <3> QED
      BY <3>1, <3>2 DEF RecoveryBound
  <2> QED
    BY <2>0, <2>1, <2>3, <2>4
<1>2. WatchdogInv /\ [Next]_vars
        => [WatchdogFires /\ worker.pc = "observe" => WatchdogSec < spent + RecoveryBound]_vars
  BY <1>1
<1> QED
  BY <1>2, WatchdogInvariant, PTL DEF Spec

\* worker.rs: what longest_quiet_cycle computes holds for a worker whose last
\* step took a poll interval at most, as a nap does, while nothing has been
\* published.  For a longer log the bound above takes its place, since observe
\* asks for every epoch, and for a longer step nothing does.
THEOREM EmptyLogIsFedAsPromised ==
  Spec => [](ready /\ epochs = 0 /\ spent <= PollInterval => quiet <= LongestQuietCycle)
<1>1. ASSUME WatchdogInv, FedInTime, ready, epochs = 0, spent <= PollInterval
      PROVE  quiet <= LongestQuietCycle
  <2>1. Requests = 1
    BY <1>1 DEF Requests
  <2>2. /\ RpcTimeout * (PartitionRetryLimit + 1) * 1 = RpcTimeout * (PartitionRetryLimit + 1)
        /\ RpcTimeout * (PartitionRetryLimit + 1) \in Nat
        /\ PollInterval \in Nat /\ PartitionRetryLimit \in Nat
    BY WatchdogAssumption
  <2>3. Backoff[PartitionRetryLimit] \in Nat /\ spent \in Nat /\ quiet \in Nat
    BY <1>1, <2>2, BackoffIs DEF WatchdogInv, TypeInv
  <2>4. quiet <= spent + (RpcTimeout * (PartitionRetryLimit + 1) + Backoff[PartitionRetryLimit])
    BY <1>1, <2>1, <2>2 DEF FedInTime, RecoveryBound
  <2> QED
    BY <1>1, <2>2, <2>3, <2>4 DEF LongestQuietCycle
<1> QED
  BY <1>1, WatchdogInvariant, FedWithinTheBound, PTL

\* RepeatedRefusal: whatever the interval, the burst, the pause before a restart
\* and the moment the interval runs out, systemd starts no process more after
\* 2 * StartLimitBurst - 1 quick refusals.
THEOREM QuickRefusalsAreHeard == Spec => []QuickRefusalsPage
<1>1. ASSUME WatchdogInv PROVE QuickRefusalsPage
  <2>1. StartLimitBurst \in Nat \ {0} /\ streak \in Nat /\ window.starts \in Nat \ {0}
    BY <1>1, WatchdogAssumption DEF WatchdogInv, TypeInv
  <2>2. Alive => window.starts <= StartLimitBurst
                 /\ streak <= (window.starts - 1) + (StartLimitBurst - 1)
    BY <1>1 DEF WatchdogInv, StreakInv
  <2> QED
    BY <2>1, <2>2 DEF QuickRefusalsPage, Alive
<1> QED
  BY <1>1, WatchdogInvariant, PTL
=============================================================================
