---------------------------- MODULE BackoffProofs ----------------------------
(***************************************************************************)
(* Proofs about Backoff: for every flag, every answer of a server, any     *)
(* number of attempts and any width of a duration.                         *)
(***************************************************************************)
EXTENDS Backoff, WellFoundedInduction, TLAPS

-----------------------------------------------------------------------------
(* Powers of two *)

(* A nonempty set of numbers has a least one: what follows by induction is *)
(* proved from the least counterexample.                                   *)
LEMMA LeastNumber ==
  ASSUME NEW T, T \subseteq Nat, T # {}
  PROVE  \E x \in T : \A y \in T : x <= y
  <1> DEFINE R == OpToRel(<, Nat)
  <1>1. PICK x \in T : \A y \in T : ~ (<<y, x>> \in R)
    BY NatLessThanWellFounded, WFMin, Zenon
  <1>2. \A a \in Nat, b \in Nat : b < a => <<b, a>> \in R
    BY DEF OpToRel
  <1> HIDE DEF R
  <1>3. ASSUME NEW y \in T PROVE ~ (y < x)
    BY <1>1, <1>2, Zenon
  <1>4. \A y \in T : x <= y
    BY <1>3
  <1> QED
    BY <1>4

(* A function that satisfies the definition of Pow2 exists, so Pow2 does:  *)
(* there is one on 0..m for every m, each extends the one before it, and   *)
(* the function on Nat takes its values from them.                         *)
LEMMA Pow2Unfolds ==
  \A n \in Nat : Pow2[n] = IF n = 0 THEN 1 ELSE 2 * Pow2[n - 1]
  <1> DEFINE Eqn(g, D) == g = [n \in D |-> IF n = 0 THEN 1 ELSE 2 * g[n - 1]]
             Doubles(g, m) == \A n \in 0..m : g[n] = IF n = 0 THEN 1 ELSE 2 * g[n - 1]
  <1>1. \A m \in Nat : \E g : Doubles(g, m)
    <2> DEFINE Bad == {m \in Nat : ~ \E g : Doubles(g, m)}
    <2>1. SUFFICES ASSUME Bad # {} PROVE FALSE
      OBVIOUS
    <2>2. PICK m \in Bad : \A k \in Bad : m <= k
      <3>1. Bad \subseteq Nat
        OBVIOUS
      <3> HIDE DEF Bad
      <3> QED
        BY <2>1, <3>1, LeastNumber
    <2>3. m \in Nat /\ ~ \E g : Doubles(g, m)
      OBVIOUS
    <2>4. m # 0
      <3>1. Doubles([n \in {0} |-> 1], 0)
        OBVIOUS
      <3> QED
        BY <2>3, <3>1
    <2>5. m - 1 \in Nat /\ m - 1 \notin Bad
      <3> HIDE DEF Bad
      <3> QED
        BY <2>2, <2>3, <2>4
    <2>6. PICK g : Doubles(g, m - 1)
      BY <2>5
    <2> DEFINE h == [n \in 0..m |-> IF n = m THEN 2 * g[m - 1] ELSE g[n]]
    <2>7. Doubles(h, m)
      <3> SUFFICES ASSUME NEW n \in 0..m
                   PROVE  h[n] = IF n = 0 THEN 1 ELSE 2 * h[n - 1]
        OBVIOUS
      <3>1. n \in Nat /\ n <= m /\ 0 \in 0..m
        BY <2>3
      <3>2. CASE n = m
        <4>1. m - 1 \in 0..m /\ m - 1 # m /\ m \in 0..m
          BY <2>3, <2>4
        <4>2. h[m] = 2 * g[m - 1] /\ h[m - 1] = g[m - 1]
          BY <4>1
        <4> HIDE DEF h
        <4> QED
          BY <2>4, <3>2, <4>2
      <3>3. CASE n # m
        <4>1. n \in 0..m - 1 /\ h[n] = g[n]
          BY <2>3, <3>1, <3>3
        <4>2. n # 0 => n - 1 \in 0..m /\ n - 1 # m
          BY <2>3, <3>1, <3>3
        <4>3. n # 0 => h[n - 1] = g[n - 1]
          BY <4>2
        <4> HIDE DEF h
        <4> QED
          BY <2>6, <4>1, <4>3
      <3> QED
        BY <3>2, <3>3
    <2> QED
      BY <2>3, <2>7
  <1>2. ASSUME NEW m \in Nat, NEW k \in Nat, m <= k, NEW g, NEW h,
               Doubles(g, m), Doubles(h, k)
        PROVE  g[m] = h[m]
    <2> DEFINE Bad == {n \in 0..m : g[n] # h[n]}
    <2>1. SUFFICES ASSUME Bad # {} PROVE FALSE
      <3>1. m \in 0..m
        OBVIOUS
      <3> QED
        BY <2>1, <3>1
    <2>2. PICK n \in Bad : \A i \in Bad : n <= i
      <3>1. Bad \subseteq Nat
        OBVIOUS
      <3> HIDE DEF Bad
      <3> QED
        BY <2>1, <3>1, LeastNumber
    <2>3. n \in 0..m /\ n \in 0..k /\ g[n] # h[n]
      BY <1>2
    <2>4. n # 0
      BY <1>2, <2>3
    <2>5. n - 1 \in 0..m /\ n - 1 \notin Bad
      <3> HIDE DEF Bad
      <3> QED
        BY <2>2, <2>3, <2>4
    <2>6. g[n - 1] = h[n - 1]
      BY <2>5
    <2>7. g[n] = 2 * g[n - 1] /\ h[n] = 2 * h[n - 1]
      BY <1>2, <2>3, <2>4
    <2> QED
      BY <2>3, <2>6, <2>7
  <1> HIDE DEF Doubles
  <1> DEFINE upTo(m) == CHOOSE g : Doubles(g, m)
             p == [n \in Nat |-> upTo(n)[n]]
  <1>3. \A m \in Nat : Doubles(upTo(m), m)
    BY <1>1
  <1>4. ASSUME NEW n \in Nat PROVE p[n] = IF n = 0 THEN 1 ELSE 2 * p[n - 1]
    <2>1. upTo(n)[n] = IF n = 0 THEN 1 ELSE 2 * upTo(n)[n - 1]
      <3>1. n \in 0..n /\ Doubles(upTo(n), n)
        BY <1>3
      <3> HIDE DEF upTo
      <3> QED
        BY <3>1 DEF Doubles
    <2>2. n # 0 => upTo(n)[n - 1] = upTo(n - 1)[n - 1]
      <3> HIDE DEF upTo
      <3>1. n # 0 => n - 1 \in Nat /\ n - 1 <= n
        OBVIOUS
      <3> QED
        BY <1>2, <1>3, <3>1
    <2> HIDE DEF upTo
    <2>3. n # 0 => n - 1 \in Nat
      OBVIOUS
    <2> QED
      BY <2>1, <2>2, <2>3
  <1>5. Eqn(p, Nat)
    <2> HIDE DEF upTo
    <2>1. p = [n \in Nat |-> p[n]]
      OBVIOUS
    <2> HIDE DEF p
    <2> QED
      BY <1>4, <2>1
  <1> HIDE DEF p
  <1>6. Pow2 = CHOOSE g : Eqn(g, Nat)
    BY DEF Pow2
  <1>7. Eqn(Pow2, Nat)
    BY <1>5, <1>6
  <1>8. ASSUME NEW n \in Nat PROVE Pow2[n] = IF n = 0 THEN 1 ELSE 2 * Pow2[n - 1]
    BY <1>7
  <1> QED
    BY <1>8

(* Powers of two are positive and grow. *)
LEMMA Pow2Type == \A n \in Nat : Pow2[n] \in Nat /\ Pow2[n] >= 1
  <1> DEFINE Bad == {n \in Nat : ~ (Pow2[n] \in Nat /\ Pow2[n] >= 1)}
  <1>1. SUFFICES ASSUME Bad # {} PROVE FALSE
    OBVIOUS
  <1>2. PICK n \in Bad : \A k \in Bad : n <= k
    <2>1. Bad \subseteq Nat
      OBVIOUS
    <2> HIDE DEF Bad
    <2> QED
      BY <1>1, <2>1, LeastNumber
  <1>3. n \in Nat /\ ~ (Pow2[n] \in Nat /\ Pow2[n] >= 1)
    OBVIOUS
  <1>4. n # 0
    BY <1>3, Pow2Unfolds
  <1>5. n - 1 \in Nat /\ n - 1 \notin Bad
    <2> HIDE DEF Bad
    <2> QED
      BY <1>2, <1>3, <1>4
  <1>6. Pow2[n - 1] \in Nat /\ Pow2[n - 1] >= 1
    BY <1>5
  <1>7. Pow2[n] = 2 * Pow2[n - 1]
    BY <1>3, <1>4, Pow2Unfolds
  <1> QED
    BY <1>3, <1>6, <1>7

LEMMA Pow2Next == \A n \in Nat : Pow2[n + 1] = 2 * Pow2[n]
  <1> SUFFICES ASSUME NEW n \in Nat PROVE Pow2[n + 1] = 2 * Pow2[n]
    OBVIOUS
  <1>1. n + 1 \in Nat /\ n + 1 # 0 /\ (n + 1) - 1 = n
    OBVIOUS
  <1> QED
    BY <1>1, Pow2Unfolds

LEMMA Pow2Grows ==
  ASSUME NEW m \in Nat, NEW n \in Nat, m <= n
  PROVE  Pow2[m] <= Pow2[n]
  <1> DEFINE Bad == {k \in Nat : m <= k /\ ~ (Pow2[m] <= Pow2[k])}
  <1>1. SUFFICES ASSUME Bad # {} PROVE FALSE
    OBVIOUS
  <1>2. PICK k \in Bad : \A i \in Bad : k <= i
    <2>1. Bad \subseteq Nat
      OBVIOUS
    <2> HIDE DEF Bad
    <2> QED
      BY <1>1, <2>1, LeastNumber
  <1>3. k \in Nat /\ m <= k /\ ~ (Pow2[m] <= Pow2[k])
    OBVIOUS
  <1>4. k # m /\ k # 0
    BY <1>3, Pow2Type
  <1>5. k - 1 \in Nat /\ m <= k - 1 /\ k - 1 \notin Bad
    <2> HIDE DEF Bad
    <2> QED
      BY <1>2, <1>3, <1>4
  <1>6. Pow2[m] <= Pow2[k - 1]
    BY <1>5
  <1>7. Pow2[k] = 2 * Pow2[k - 1]
    BY <1>3, <1>4, Pow2Unfolds
  <1>8. Pow2[m] \in Nat /\ Pow2[k - 1] \in Nat
    BY <1>5, Pow2Type
  <1> QED
    BY <1>3, <1>6, <1>7, <1>8

-----------------------------------------------------------------------------
(* Durations *)

LEMMA ModSmall == \A a \in Nat, m \in Nat : a < m => a % m = a
  OBVIOUS

(* The largest duration is one less than half the values a word has. *)
LEMMA Halves ==
  /\ Pow2[Width - 1] \in Nat /\ Pow2[Width - 1] >= 1
  /\ Pow2[Width] = 2 * Pow2[Width - 1] /\ MaxDuration = Pow2[Width - 1] - 1
  <1>1. Width - 1 \in Nat /\ (Width - 1) + 1 = Width
    BY WidthAssumption
  <1> QED
    BY <1>1, Pow2Type, Pow2Next DEF MaxDuration

(* A duration is an integer. *)
LEMMA WrapType == \A n \in Nat : Wrap(n) \in Int
  <1> SUFFICES ASSUME NEW n \in Nat PROVE Wrap(n) \in Int
    OBVIOUS
  <1>1. Pow2[Width - 1] \in Nat /\ Pow2[Width] \in Nat \ {0}
    BY Halves
  <1>2. \A a \in Nat, m \in Nat \ {0} : a % m \in Int
    OBVIOUS
  <1>3. (n + Pow2[Width - 1]) % Pow2[Width] \in Int
    BY <1>1, <1>2
  <1> QED
    BY <1>1, <1>3 DEF Wrap

(* A value that fits stays what it is. *)
LEMMA WrapFits ==
  ASSUME NEW n \in Int, 0 <= n, n <= MaxDuration
  PROVE  Wrap(n) = n
  <1> DEFINE H == Pow2[Width - 1]
  <1>1. /\ H \in Nat /\ n <= H - 1 /\ Pow2[Width] = 2 * H
    BY Halves
  <1>2. Wrap(n) = ((n + H) % (2 * H)) - H
    BY <1>1 DEF Wrap
  <1> HIDE DEF H
  <1>3. n + H \in Nat /\ 2 * H \in Nat /\ n + H < 2 * H
    BY <1>1
  <1>4. (n + H) % (2 * H) = n + H
    BY <1>3, ModSmall
  <1> QED
    BY <1>1, <1>2, <1>4

(* So does one that is shifted, as long as the product fits. *)
LEMMA ShlFits ==
  ASSUME NEW d \in Nat, NEW k \in Nat, d * Pow2[k] <= MaxDuration
  PROVE  Shl(d, k) = d * Pow2[k]
  <1>1. Pow2[k] \in Nat /\ Pow2[k] >= 1 /\ Width \in Nat
    BY Pow2Type, WidthAssumption
  <1> DEFINE x == d * Pow2[k]
  <1>2. x \in Nat
    BY <1>1
  <1>3. CASE k >= Width
    <2>1. Pow2[k] >= Pow2[Width]
      BY <1>1, <1>3, Pow2Grows
    <2>2. Pow2[k] > MaxDuration /\ MaxDuration \in Int
      BY <1>1, <2>1, Halves
    <2>3. d = 0
      <3> SUFFICES ASSUME d # 0 PROVE FALSE
        OBVIOUS
      <3>1. \A p \in Nat : d * p >= p
        <4> SUFFICES ASSUME NEW p \in Nat PROVE d * p >= p
          OBVIOUS
        <4>1. d * p = p + (d - 1) * p /\ d - 1 \in Nat
          OBVIOUS
        <4>2. (d - 1) * p \in Nat
          BY <4>1
        <4>3. d * p \in Nat
          OBVIOUS
        <4> QED
          BY <4>1, <4>2, <4>3
      <3> QED
        BY <1>1, <1>2, <2>2, <3>1
    <2> QED
      BY <1>1, <1>3, <2>3 DEF Shl
  <1>4. CASE ~ (k >= Width)
    <2>1. Wrap(x) = x
      BY <1>2, WrapFits
    <2> QED
      BY <1>4, <2>1 DEF Shl
  <1> QED
    BY <1>3, <1>4

-----------------------------------------------------------------------------
(* The types, of every flag and every answer. *)
THEOREM TypeCorrect == Spec => []TypeOK
  <1>1. Init => TypeOK
    BY FlagAssumption DEF Init, TypeOK, Answer
  <1>2. TypeOK /\ [Next]_vars => TypeOK'
    BY FlagAssumption DEF TypeOK, Next, Retry, Exhausted, vars, Answer
  <1> QED
    BY <1>1, <1>2, PTL DEF Spec

(* With the headers logged, a 429 waits what its Retry-After says,         *)
(* whatever the flags and the attempts before it (main.go:515).            *)
THEOREM RetryAfterIsTheDelay == Spec => []RetryAfterRespected
  <1>1. RetryAfterRespected
    <2> SUFFICES ASSUME status = "429", logHeaders, header \in 1..MaxDuration
                 PROVE  Delay = header
      BY DEF RetryAfterRespected
    <2>1. MaxDuration \in Int
      BY Halves
    <2>2. header \in Int /\ 0 < header /\ header <= MaxDuration
      BY <2>1
    <2>3. Wrap(header) = header
      BY <2>2, WrapFits
    <2> QED
      BY <2>2, <2>3 DEF Delay, DelayIf, RetryAfter, AfterAsAsked
  <1> QED
    BY <1>1, PTL

(* While the shift fits, the delay after an error answer is the product up *)
(* to the cap.                                                             *)
LEMMA Product ==
  ASSUME NEW b \in Nat, NEW n \in Nat \ {0}, b * Pow2[n - 1] <= MaxDuration
  PROVE  /\ Shl(b, Doublings(n)) = b * Pow2[n - 1] /\ b * Pow2[n - 1] \in Nat
         /\ b > 0 => b * Pow2[n - 1] > 0
  <1>1. n - 1 \in Nat
    OBVIOUS
  <1>2. Pow2[n - 1] \in Nat /\ Pow2[n - 1] >= 1
    BY <1>1, Pow2Type
  <1>3. \A p \in Nat : b * p \in Nat /\ (b > 0 /\ p >= 1 => b * p > 0)
    OBVIOUS
  <1> QED
    BY <1>1, <1>2, <1>3, ShlFits DEF Doublings

(* A retry is made at once only when a flag says so or the shift has       *)
(* overflowed, and never after a network error: what ReportRetryAtOnce of  *)
(* Crawler rests on (main.go:515).                                         *)
THEOREM NoHotLoop == Spec => []HotLoopNeedsOverflow
  <1>1. TypeOK => HotLoopNeedsOverflow
    <2> SUFFICES ASSUME TypeOK, Delay <= 0
                 PROVE  status # "none" /\ (base <= 0 \/ cap <= 0 \/ ~Fits(attempt))
      BY DEF HotLoopNeedsOverflow
    <2> DEFINE shifted == Clamp(Shl(base, Doublings(attempt)), cap)
    <2>1. ~(RetryAfter(logHeaders) > 0)
      <3>1. RetryAfter(logHeaders) \in Int
        BY WrapType DEF RetryAfter, TypeOK
      <3> QED
        BY <3>1 DEF Delay, DelayIf, AfterAsAsked
    <2>2. Delay = Raise(shifted)
      BY <2>1 DEF Delay, DelayIf
    <2>3. status # "none"
      BY <2>2 DEF Raise, NetworkMin
    <2>4. ASSUME base > 0, cap > 0, Fits(attempt) PROVE FALSE
      <3>1. base \in Nat /\ cap \in Nat /\ attempt \in Nat \ {0}
        BY <2>4 DEF TypeOK
      <3>2. /\ Shl(base, Doublings(attempt)) = base * Pow2[attempt - 1]
            /\ base * Pow2[attempt - 1] \in Nat /\ base * Pow2[attempt - 1] > 0
        BY <2>4, <3>1, Product DEF Fits
      <3>3. shifted > 0 /\ shifted \in Nat
        BY <2>4, <3>1, <3>2 DEF Clamp
      <3> QED
        BY <2>2, <2>3, <3>3 DEF Raise
    <2> QED
      BY <2>3, <2>4 DEF TypeOK
  <1> QED
    BY <1>1, TypeCorrect, PTL

(* While the shift fits, nextRetryDelay doubles the wait up to the cap     *)
(* from one retry to the next, and backoffDuration agrees (main.go:522,    *)
(* client.go:245).                                                         *)
THEOREM DelaysDouble == Spec => Doubling
  <1>1. TypeOK /\ [Next]_vars =>
          [status = "other" /\ status' = "other" /\ Fits(attempt') =>
             /\ attempt = 1 => Delay = Minimum(base, cap)
             /\ Delay' = Minimum(2 * Delay, cap)
             /\ ClientDelay' = Delay']_vars
    <2> SUFFICES ASSUME TypeOK, Retry, status = "other", status' = "other", Fits(attempt')
                 PROVE  /\ attempt = 1 => Delay = Minimum(base, cap)
                        /\ Delay' = Minimum(2 * Delay, cap)
                        /\ ClientDelay' = Delay'
      BY DEF Next, Exhausted
    <2>1. /\ attempt' = attempt + 1 /\ base' = base /\ cap' = cap
          /\ base \in Nat /\ cap \in Nat /\ attempt \in Nat \ {0} /\ attempt' \in Nat \ {0}
      BY DEF Retry, Fits, TypeOK
    <2> DEFINE x == base * Pow2[attempt - 1]
               y == base * Pow2[attempt' - 1]
    <2>2. y <= MaxDuration
      BY DEF Fits
    <2>3. Pow2[attempt' - 1] = 2 * Pow2[attempt - 1] /\ Pow2[attempt - 1] \in Nat
      <3>1. attempt - 1 \in Nat /\ attempt' - 1 = (attempt - 1) + 1
        BY <2>1
      <3> QED
        BY <3>1, Pow2Next, Pow2Type
    <2>4. y = 2 * x /\ x \in Nat /\ y \in Nat
      <3>1. \A p \in Nat : base * (2 * p) = 2 * (base * p) /\ base * p \in Nat
        BY <2>1
      <3> QED
        BY <2>3, <3>1
    <2>5. x <= MaxDuration
      BY <2>2, <2>4, Halves
    <2>6. Shl(base, Doublings(attempt)) = x /\ Shl(base, Doublings(attempt')) = y
      BY <2>1, <2>2, <2>5, Product
    <2>7. Delay = Clamp(x, cap)
      BY <2>6 DEF Delay, DelayIf, RetryAfter, Raise
    <2>8. Delay' = Clamp(y, cap)
      BY <2>1, <2>6 DEF Delay, DelayIf, RetryAfter, Raise, Doublings, Shl, Clamp
    <2>9. ClientDelay' = Clamp(y, cap)
      BY <2>1, <2>6 DEF ClientDelay, Doublings
    <2>10. attempt = 1 => x = base
      <3>1. Pow2[0] = 1
        BY Pow2Unfolds
      <3> QED
        BY <2>1, <3>1
    <2> HIDE DEF x, y
    <2> QED
      BY <2>1, <2>4, <2>7, <2>8, <2>9, <2>10 DEF Clamp, Minimum
  <1> QED
    BY <1>1, TypeCorrect, PTL DEF Spec, Doubling
=============================================================================
