--------------------------- MODULE HtmlToolProofs ---------------------------
(***************************************************************************)
(* What HtmlTool writes, for every directory, every page, every address    *)
(* and every list of mappings of IsInput, of any size:                     *)
(*  - PagesAlwaysCover: the pages of PrintPagingURLs are those that hold   *)
(*    the items (induction over the records: PagingInv);                   *)
(*  - EmailIsRecovered: the directives of a script undo what hid the       *)
(*    address (the folds of EmailDecoder, from the inside out);            *)
(*  - StreamIsComplete and OutputIsAlwaysPrefix: what StreamFromDir        *)
(*    writes is the array it owes, or a beginning of it (StreamInv: how    *)
(*    many files are behind the call, and how many objects are written).   *)
(* The first part has what FlattenSeq, Kept and FoldLeft compute, each by  *)
(* a least counterexample, since the library's induction theorems have an  *)
(* operator as a parameter.                                                *)
(***************************************************************************)
EXTENDS HtmlTool, SequenceTheorems, FiniteSetTheorems, WellFoundedInduction, TLAPS

(* A nonempty set of numbers has a least one: what follows by induction is *)
(* proved from the least counterexample.                                   *)
LEMMA NatMin ==
  ASSUME NEW T, T \subseteq Nat, T # {}
  PROVE  \E x \in T : \A y \in T : x <= y
  <1> DEFINE R == OpToRel(<, Nat)
  <1>1. PICK x \in T : \A y \in T : ~ (<<y, x>> \in R)
    BY NatLessThanWellFounded, WFMin, Zenon
  <1>2. \A a \in Nat, b \in Nat : b < a => <<b, a>> \in R
    BY DEF OpToRel
  <1> HIDE DEF R
  <1>3. ASSUME NEW y \in T PROVE ~ (y < x)
    BY <1>1, <1>2, Zenon
  <1>4. \A y \in T : x <= y
    BY <1>3
  <1> QED
    BY <1>4

-----------------------------------------------------------------------------
(* Sequences of sequences *)

(* The recursive function inside FlattenSeq exists: on 1..m for every m,   *)
(* each extending the one before it.                                       *)
LEMMA FlattenExists ==
  ASSUME NEW ss
  PROVE  \A m \in Nat : \E g : g = [i \in 1..m |-> IF i = 1 THEN ss[i] ELSE g[i - 1] \o ss[i]]
  <1> DEFINE Eqn(g, m) == g = [i \in 1..m |-> IF i = 1 THEN ss[i] ELSE g[i - 1] \o ss[i]]
             Bad == {m \in Nat : ~ \E g : Eqn(g, m)}
  <1>1. SUFFICES ASSUME Bad # {} PROVE FALSE
    OBVIOUS
  <1>2. PICK m \in Bad : \A k \in Bad : m <= k
    <2>1. Bad \subseteq Nat
      OBVIOUS
    <2> HIDE DEF Bad
    <2> QED
      BY <1>1, <2>1, NatMin
  <1>3. m \in Nat /\ ~ \E g : Eqn(g, m)
    OBVIOUS
  <1>4. m # 0
    <2>1. Eqn([i \in 1..0 |-> 0], 0)
      OBVIOUS
    <2> QED
      BY <1>3, <2>1
  <1>5. m - 1 \in Nat /\ m - 1 \notin Bad
    <2> HIDE DEF Bad
    <2> QED
      BY <1>2, <1>3, <1>4
  <1>6. PICK g : Eqn(g, m - 1)
    BY <1>5
  <1> DEFINE h == [i \in 1..m |-> IF i = 1 THEN ss[i] ELSE g[i - 1] \o ss[i]]
  <1>7. \A i \in 1..m - 1 : h[i] = g[i]
    <2> SUFFICES ASSUME NEW i \in 1..m - 1 PROVE h[i] = g[i]
      OBVIOUS
    <2>1. i \in 1..m
      BY <1>3
    <2> QED
      BY <1>6, <2>1
  <1>8. Eqn(h, m)
    <2> SUFFICES ASSUME NEW i \in 1..m, i # 1 PROVE h[i - 1] = g[i - 1]
      OBVIOUS
    <2>1. i - 1 \in 1..m - 1
      BY <1>3
    <2> QED
      BY <1>7, <2>1
  <1> QED
    BY <1>3, <1>8

(* FlattenSeq joins one sequence at a time. *)
Joins(f, ss, n, S) ==
  /\ f \in [0..n -> Seq(S)] /\ f[0] = <<>>
  /\ \A k \in 1..n : f[k] = f[k - 1] \o ss[k]
  /\ FlattenSeq(ss) = f[n]

(* FlattenSeq is the last of its partial joins. *)
LEMMA FlattenIs ==
  ASSUME NEW S, NEW n \in Nat, NEW ss \in Seq(Seq(S)), Len(ss) = n
  PROVE  \E f : Joins(f, ss, n, S)
  <1>1. n \in Nat /\ \A k \in 1..n : ss[k] \in Seq(S)
    OBVIOUS
  <1>2. <<>> \in Seq(S)
    OBVIOUS
  <1>3. CASE n = 0
    <2> DEFINE f == [k \in 0..0 |-> <<>>]
    <2>1. ss = <<>> /\ FlattenSeq(ss) = <<>>
      BY <1>3 DEF FlattenSeq
    <2>2. f \in [0..n -> Seq(S)] /\ f[0] = <<>> /\ FlattenSeq(ss) = f[n]
      BY <1>2, <1>3, <2>1
    <2>3. \A k \in 1..n : f[k] = f[k - 1] \o ss[k]
      BY <1>3
    <2> HIDE DEF f
    <2> QED
      BY <2>2, <2>3 DEF Joins
  <1>4. CASE n > 0
    <2> DEFINE Eqn(g) == g = [i \in 1..n |-> IF i = 1 THEN ss[i] ELSE g[i - 1] \o ss[i]]
               flat == CHOOSE g : Eqn(g)
               f == [k \in 0..n |-> IF k = 0 THEN <<>> ELSE flat[k]]
    <2>1. FlattenSeq(ss) = flat[n]
      BY <1>1, <1>4 DEF FlattenSeq
    <2>2. Eqn(flat)
      BY <1>1, FlattenExists
    <2> HIDE DEF flat
    <2>3. \A k \in 1..n : flat[k] = IF k = 1 THEN ss[k] ELSE flat[k - 1] \o ss[k]
      BY <2>2
    <2>4. ASSUME NEW k \in 1..n PROVE f[k] = f[k - 1] \o ss[k]
      <3>1. CASE k = 1
        <4>1. f[k] = ss[1] /\ f[k - 1] = <<>> /\ ss[1] \in Seq(S)
          BY <1>1, <2>3, <3>1
        <4> QED
          BY <3>1, <4>1, ConcatEmptySeq
      <3>2. CASE k # 1
        <4>1. k - 1 \in 1..n /\ k \in 0..n /\ k - 1 \in 0..n /\ k - 1 # 0
          BY <1>1, <3>2
        <4>2. f[k] = flat[k] /\ f[k - 1] = flat[k - 1]
          BY <3>2, <4>1
        <4> QED
          BY <2>3, <3>2, <4>2
      <3> QED
        BY <3>1, <3>2
    <2>5. \A k \in 0..n : f[k] \in Seq(S)
      <3> DEFINE Bad == {k \in 0..n : f[k] \notin Seq(S)}
      <3>1. SUFFICES ASSUME Bad # {} PROVE FALSE
        OBVIOUS
      <3>2. PICK k \in Bad : \A j \in Bad : k <= j
        <4>1. Bad \subseteq Nat
          OBVIOUS
        <4> HIDE DEF Bad
        <4> QED
          BY <3>1, <4>1, NatMin
      <3>3. k \in 0..n /\ f[k] \notin Seq(S)
        OBVIOUS
      <3>4. k # 0
        BY <1>1, <1>2, <3>3
      <3>5. k - 1 \in 0..n /\ k \in 1..n /\ k - 1 \notin Bad
        <4> HIDE DEF Bad, f
        <4> QED
          BY <1>1, <3>2, <3>3, <3>4
      <3>6. f[k - 1] \in Seq(S)
        BY <3>5
      <3> QED
        <4> HIDE DEF f, Bad
        <4>1. f[k] = f[k - 1] \o ss[k] /\ ss[k] \in Seq(S)
          BY <1>1, <2>4, <3>5
        <4> QED
          BY <3>3, <3>6, <4>1, ConcatProperties
    <2>6. f[0] = <<>> /\ f[n] = flat[n]
      BY <1>1, <1>4
    <2>7. f \in [0..n -> Seq(S)]
      BY <2>5
    <2> HIDE DEF f
    <2> QED
      BY <2>1, <2>4, <2>6, <2>7 DEF Joins
  <1>5. n = 0 \/ n > 0
    OBVIOUS
  <1> QED
    BY <1>3, <1>4, <1>5, Zenon

(* The first d + 1 sequences make what the first d make, and the next. *)
LEMMA FlattenNext ==
  ASSUME NEW S, NEW d \in Nat, NEW x, \A k \in 1..d + 1 : x[k] \in Seq(S)
  PROVE  /\ FlattenSeq([k \in 1..d |-> x[k]]) \in Seq(S)
         /\ FlattenSeq([k \in 1..d + 1 |-> x[k]]) = FlattenSeq([k \in 1..d |-> x[k]]) \o x[d + 1]
  <1> DEFINE s == [k \in 1..d |-> x[k]]
             t == [k \in 1..d + 1 |-> x[k]]
  <1>1. s \in Seq(Seq(S)) /\ Len(s) = d /\ t \in Seq(Seq(S)) /\ Len(t) = d + 1
    OBVIOUS
  <1>2. PICK f : Joins(f, s, d, S)
    <2> HIDE DEF s
    <2> QED
      BY <1>1, FlattenIs
  <1>3. PICK g : Joins(g, t, d + 1, S)
    <2>1. d + 1 \in Nat
      OBVIOUS
    <2> HIDE DEF t
    <2> QED
      BY <1>1, <2>1, FlattenIs
  <1>4. \A k \in 0..d : f[k] = g[k]
    <2> DEFINE Bad == {k \in 0..d : f[k] # g[k]}
    <2>1. SUFFICES ASSUME Bad # {} PROVE FALSE
      OBVIOUS
    <2>2. PICK k \in Bad : \A j \in Bad : k <= j
      <3>1. Bad \subseteq Nat
        OBVIOUS
      <3> HIDE DEF Bad
      <3> QED
        BY <2>1, <3>1, NatMin
    <2>3. k \in 0..d /\ f[k] # g[k]
      OBVIOUS
    <2>4. k # 0
      BY <1>2, <1>3, <2>3 DEF Joins
    <2>5. k - 1 \in 0..d /\ k \in 1..d /\ k \in 1..d + 1 /\ k - 1 \notin Bad
      <3> HIDE DEF Bad
      <3> QED
        BY <2>2, <2>3, <2>4
    <2>6. f[k - 1] = g[k - 1] /\ s[k] = t[k]
      BY <2>5
    <2> HIDE DEF Bad, s, t
    <2> QED
      BY <1>2, <1>3, <2>3, <2>5, <2>6 DEF Joins
  <1>5. d + 1 \in 1..d + 1 /\ (d + 1) - 1 = d /\ d \in 0..d /\ t[d + 1] = x[d + 1]
    OBVIOUS
  <1>6. f[d] = g[d]
    BY <1>4, <1>5
  <1> HIDE DEF s, t
  <1>7. FlattenSeq(s) = f[d] /\ FlattenSeq(t) = g[d + 1]
    BY <1>2, <1>3 DEF Joins
  <1>8. g[d + 1] = g[(d + 1) - 1] \o t[d + 1]
    BY <1>3, <1>5 DEF Joins
  <1>9. f[d] \in Seq(S)
    BY <1>2, <1>5 DEF Joins
  <1>10. FlattenSeq(t) = f[d] \o x[d + 1]
    BY <1>5, <1>6, <1>7, <1>8, Zenon
  <1> QED
    BY <1>7, <1>9, <1>10, Zenon DEF s, t

(* Nothing joins to nothing. *)
LEMMA FlattenNone == FlattenSeq(<<>>) = <<>>
  BY DEF FlattenSeq

Begins(a, b) == Len(a) <= Len(b) /\ \A j \in 1..Len(a) : b[j] = a[j]

(* What the first sequences make is a beginning of what all of them make. *)
LEMMA FlattenPrefix ==
  ASSUME NEW S, NEW n \in Nat, NEW d \in 0..n, NEW x, \A k \in 1..n : x[k] \in Seq(S)
  PROVE  LET a == FlattenSeq([k \in 1..d |-> x[k]])
             b == FlattenSeq([k \in 1..n |-> x[k]])
         IN /\ a \in Seq(S) /\ b \in Seq(S)
            /\ Begins(a, b)
  <1> DEFINE A(k) == FlattenSeq([i \in 1..k |-> x[i]])
             Before(k) == Len(A(d)) <= Len(A(k)) /\ \A j \in 1..Len(A(d)) : A(k)[j] = A(d)[j]
             Bad == {k \in d..n : ~ Before(k)}
  <1>1. \A k \in 0..n : A(k) \in Seq(S)
    <2> SUFFICES ASSUME NEW k \in 0..n PROVE A(k) \in Seq(S)
      OBVIOUS
    <2> DEFINE s == [i \in 1..k |-> x[i]]
    <2>1. s \in Seq(Seq(S)) /\ Len(s) = k /\ k \in Nat /\ k \in 0..k
      OBVIOUS
    <2> HIDE DEF s
    <2>2. PICK f : Joins(f, s, k, S)
      BY <2>1, FlattenIs
    <2>3. FlattenSeq(s) \in Seq(S)
      BY <2>1, <2>2 DEF Joins
    <2> QED
      BY <2>3 DEF s
  <1>2. ASSUME NEW k \in d..n, k # n PROVE A(k + 1) = A(k) \o x[k + 1]
    <2>1. k \in Nat /\ \A i \in 1..k + 1 : x[i] \in Seq(S)
      BY <1>2
    <2> QED
      BY <2>1, FlattenNext
  <1> HIDE DEF A
  <1>3. \A k \in d..n : Before(k)
    <2>1. SUFFICES ASSUME Bad # {} PROVE FALSE
      OBVIOUS
    <2>2. PICK k \in Bad : \A j \in Bad : k <= j
      <3>1. Bad \subseteq Nat
        OBVIOUS
      <3> HIDE DEF Bad
      <3> QED
        BY <2>1, <3>1, NatMin
    <2>3. k \in d..n /\ ~ Before(k)
      OBVIOUS
    <2>4. k # d
      <3>1. A(d) \in Seq(S)
        BY <1>1
      <3>2. Before(d)
        BY <3>1
      <3> QED
        BY <2>3, <3>2
    <2>5. k - 1 \in d..n /\ k - 1 # n /\ k - 1 \in 0..n /\ k \in 1..n /\ k - 1 \notin Bad
      <3> HIDE DEF Bad, Before
      <3> QED
        BY <2>2, <2>3, <2>4
    <2>6. Before(k - 1)
      BY <2>5
    <2>7. A(k) = A(k - 1) \o x[k]
      <3>1. A((k - 1) + 1) = A(k - 1) \o x[(k - 1) + 1]
        BY <1>2, <2>5
      <3>2. (k - 1) + 1 = k
        BY <2>5
      <3> QED
        BY <3>1, <3>2
    <2>8. A(d) \in Seq(S) /\ A(k - 1) \in Seq(S) /\ x[k] \in Seq(S)
      BY <1>1, <2>5
    <2>9. /\ Len(A(k)) = Len(A(k - 1)) + Len(x[k])
          /\ Len(x[k]) \in Nat /\ Len(A(k - 1)) \in Nat /\ Len(A(d)) \in Nat
          /\ \A j \in 1..Len(A(k - 1)) : A(k)[j] = A(k - 1)[j]
      BY <2>7, <2>8
    <2>11. Len(A(d)) <= Len(A(k - 1)) /\ \A j \in 1..Len(A(d)) : A(k - 1)[j] = A(d)[j]
      BY <2>6
    <2>12. \A j \in 1..Len(A(d)) : j \in 1..Len(A(k - 1))
      BY <2>9, <2>11
    <2>13. ASSUME NEW j \in 1..Len(A(d)) PROVE A(k)[j] = A(d)[j]
      BY <2>9, <2>11, <2>12
    <2>14. Len(A(d)) <= Len(A(k))
      <3>1. \A a, b, c \in Nat : a <= b => a <= b + c
        OBVIOUS
      <3> QED
        BY <2>9, <2>11, <3>1, Zenon
    <2>10. Before(k)
      BY <2>13, <2>14
    <2> QED
      BY <2>3, <2>10
  <1>4. n \in d..n /\ d \in 0..n /\ n \in 0..n
    OBVIOUS
  <1>5. Before(n) /\ A(d) \in Seq(S) /\ A(n) \in Seq(S)
    BY <1>1, <1>3, <1>4
  <1>6. Begins(A(d), A(n))
    BY <1>5 DEF Begins
  <1> QED
    BY <1>5, <1>6 DEF A

(* Which places are kept does not depend on what is at them. *)
KeptTo(x, I, n) == FlattenSeq([i \in 1..n |-> IF i \in I THEN <<x[i]>> ELSE <<>>])

KeptAt(I, n, m, h) ==
  /\ m \in Nat /\ h \in [1..m -> (1..n) \cap I]
  /\ \A x : KeptTo(x, I, n) = [k \in 1..m |-> x[h[k]]]

(* There is one list of the places that are kept, for every sequence. *)
LEMMA KeptPlaces ==
  ASSUME NEW I, NEW n \in Nat
  PROVE  \E m, h : KeptAt(I, n, m, h)
  <1> DEFINE F(x, k) == KeptTo(x, I, k)
             P(k) == \E m, h : KeptAt(I, k, m, h)
             Bad == {k \in Nat : ~ P(k)}
  <1>1. SUFFICES ASSUME Bad # {} PROVE FALSE
    OBVIOUS
  <1>2. PICK k \in Bad : \A j \in Bad : k <= j
    <2>1. Bad \subseteq Nat
      OBVIOUS
    <2> HIDE DEF Bad
    <2> QED
      BY <1>1, <2>1, NatMin
  <1>3. k \in Nat /\ ~ P(k)
    OBVIOUS
  <1>4. k # 0
    <2> DEFINE h == [j \in 1..0 |-> 0]
    <2>1. h \in [1..0 -> (1..0) \cap I]
      OBVIOUS
    <2>2. ASSUME NEW x PROVE F(x, 0) = [j \in 1..0 |-> x[h[j]]]
      <3>1. [i \in 1..0 |-> IF i \in I THEN <<x[i]>> ELSE <<>>] = <<>>
        OBVIOUS
      <3>2. [j \in 1..0 |-> x[h[j]]] = <<>>
        OBVIOUS
      <3> QED
        BY <3>1, <3>2, FlattenNone DEF KeptTo
    <2> HIDE DEF h
    <2>3. KeptAt(I, 0, 0, h)
      BY <2>1, <2>2 DEF KeptAt
    <2> QED
      BY <1>3, <2>3
  <1>5. k - 1 \in Nat /\ k - 1 \notin Bad
    <2> HIDE DEF Bad
    <2> QED
      BY <1>2, <1>3, <1>4
  <1> DEFINE d == k - 1
  <1>6. P(d)
    BY <1>5
  <1>7. d \in Nat /\ k = d + 1
    BY <1>3, <1>5
  <1>8. ASSUME NEW x
        PROVE  /\ F(x, d + 1) = F(x, d) \o (IF d + 1 \in I THEN <<x[d + 1]>> ELSE <<>>)
               /\ F(x, d) \in Seq({x[i] : i \in 1..d + 1})
    <2> HIDE DEF d
    <2> DEFINE S == {x[i] : i \in 1..d + 1}
               y == [i \in 1..d + 1 |-> IF i \in I THEN <<x[i]>> ELSE <<>>]
    <2>1. \A i \in 1..d + 1 : y[i] \in Seq(S) /\ x[i] \in S
      <3> SUFFICES ASSUME NEW i \in 1..d + 1 PROVE y[i] \in Seq(S) /\ x[i] \in S
        OBVIOUS
      <3>1. x[i] \in S
        OBVIOUS
      <3> HIDE DEF S
      <3> QED
        BY <3>1
    <2>2. /\ [i \in 1..d + 1 |-> y[i]] = [i \in 1..d + 1 |-> IF i \in I THEN <<x[i]>> ELSE <<>>]
          /\ [i \in 1..d |-> y[i]] = [i \in 1..d |-> IF i \in I THEN <<x[i]>> ELSE <<>>]
          /\ y[d + 1] = IF d + 1 \in I THEN <<x[d + 1]>> ELSE <<>>
      BY <1>7
    <2> HIDE DEF S, y
    <2>3. /\ FlattenSeq([i \in 1..d |-> y[i]]) \in Seq(S)
          /\ FlattenSeq([i \in 1..d + 1 |-> y[i]]) = FlattenSeq([i \in 1..d |-> y[i]]) \o y[d + 1]
      BY <1>7, <2>1, FlattenNext
    <2> QED
      BY <2>2, <2>3 DEF S, KeptTo
  <1> HIDE DEF F
  <1>9. PICK m, h : KeptAt(I, d, m, h)
    BY <1>6
  <1>10. m \in Nat /\ h \in [1..m -> (1..d) \cap I] /\ \A x : F(x, d) = [j \in 1..m |-> x[h[j]]]
    BY <1>9 DEF KeptAt, F
  <1>11. CASE d + 1 \notin I
    <2>1. ASSUME NEW x PROVE F(x, d + 1) = [j \in 1..m |-> x[h[j]]]
      <3>1. F(x, d + 1) = F(x, d)
        BY <1>8, <1>11, ConcatEmptySeq
      <3> QED
        BY <3>1, <1>10
    <2> HIDE DEF d
    <2>2. h \in [1..m -> (1..d + 1) \cap I]
      BY <1>7, <1>10
    <2>3. KeptAt(I, d + 1, m, h)
      BY <1>10, <2>1, <2>2 DEF KeptAt, F
    <2> QED
      BY <1>3, <1>7, <2>3
  <1>12. CASE d + 1 \in I
    <2> DEFINE g == [j \in 1..m + 1 |-> IF j = m + 1 THEN d + 1 ELSE h[j]]
    <2>1. g \in [1..m + 1 -> (1..d + 1) \cap I]
      <3> HIDE DEF d
      <3> SUFFICES ASSUME NEW j \in 1..m + 1 PROVE g[j] \in (1..d + 1) \cap I
        OBVIOUS
      <3>1. CASE j = m + 1
        BY <3>1, <1>7, <1>12
      <3>2. CASE j # m + 1
        <4>1. j \in 1..m
          BY <1>10, <3>2
        <4>2. h[j] \in (1..d) \cap I
          BY <1>10, <4>1
        <4> QED
          BY <3>2, <4>2, <1>7
      <3> QED
        BY <3>1, <3>2
    <2>2. ASSUME NEW x PROVE F(x, d + 1) = [j \in 1..m + 1 |-> x[g[j]]]
      <3> HIDE DEF d
      <3> DEFINE S == {x[i] : i \in 1..d + 1}
      <3>7. F(x, d) \in Seq(S)
        BY <1>8
      <3>1. F(x, d) = [j \in 1..m |-> x[h[j]]] /\ F(x, d) \in Seq(S)
        BY <1>10, <3>7
      <3>2. x[d + 1] \in S
        BY <1>7
      <3>3. F(x, d + 1) = F(x, d) \o <<x[d + 1]>>
        BY <1>8, <1>12
      <3> HIDE DEF S
      <3>4. Len(F(x, d)) = m
        BY <1>10, <3>1
      <3>5. /\ F(x, d + 1) \in Seq(S) /\ Len(F(x, d + 1)) = m + 1
            /\ \A j \in 1..m + 1 : F(x, d + 1)[j] = IF j <= m THEN F(x, d)[j] ELSE <<x[d + 1]>>[j - m]
        <4>1. \A q \in Seq(S), e \in S : /\ q \o <<e>> \in Seq(S) /\ Len(q \o <<e>>) = Len(q) + 1
                 /\ \A j \in 1..Len(q) + 1 : (q \o <<e>>)[j] = IF j <= Len(q) THEN q[j] ELSE <<e>>[j - Len(q)]
          OBVIOUS
        <4>2. PICK q, e : q = F(x, d) /\ e = x[d + 1]
          OBVIOUS
        <4>3. q \in Seq(S) /\ e \in S /\ Len(q) = m /\ F(x, d + 1) = q \o <<e>>
          BY <3>1, <3>2, <3>3, <3>4, <4>2, Zenon
        <4>4. /\ q \o <<e>> \in Seq(S) /\ Len(q \o <<e>>) = m + 1
              /\ \A j \in 1..m + 1 : (q \o <<e>>)[j] = IF j <= m THEN q[j] ELSE <<e>>[j - m]
          BY <4>1, <4>3
        <4> QED
          BY <4>2, <4>3, <4>4, Zenon
      <3>6. \A j \in 1..m + 1 : F(x, d + 1)[j] = x[g[j]]
        <4> SUFFICES ASSUME NEW j \in 1..m + 1 PROVE F(x, d + 1)[j] = x[g[j]]
          OBVIOUS
        <4>1. CASE j = m + 1
          BY <1>10, <3>5, <4>1
        <4>2. CASE j # m + 1
          <5>1. j \in 1..m /\ j <= m
            BY <1>10, <4>2
          <5> QED
            BY <1>10, <3>1, <3>5, <4>2, <5>1
        <4> QED
          BY <4>1, <4>2
      <3> QED
        BY <3>5, <3>6
    <2> HIDE DEF g, d
    <2>3. KeptAt(I, d + 1, m + 1, g)
      BY <1>10, <2>1, <2>2 DEF KeptAt, F
    <2> QED
      BY <1>3, <1>7, <2>3
  <1> QED
    BY <1>11, <1>12

(* PrintPagingURLs is about to write a line whenever it has a page. *)
LEMMA DueLine ==
  ASSUME input.op = "paging", page \in Nat, page > 0
  PROVE  Due = {Piece("line", <<url.of, page>>)}
  BY DEF Due

(* What StreamFromDir is about to write. *)
LEMMA DueStream ==
  ASSUME input.op = "stream", page = 0, started \in BOOLEAN, ~started => recs = <<>>
  PROVE  Due = IF ~started THEN {Piece("[", <<>>)}
               ELSE IF recs # <<>>
               THEN {Emitted}
               ELSE IF files = <<>> THEN {Piece("]", <<>>)} ELSE {}
  <1>1. CASE ~started
    BY <1>1 DEF Due
  <1>2. CASE started /\ recs # <<>>
    BY <1>2 DEF Due
  <1>3. CASE started /\ recs = <<>> /\ files = <<>>
    BY <1>3 DEF Due
  <1>4. CASE started /\ recs = <<>> /\ files # <<>>
    BY <1>4 DEF Due
  <1> QED
    BY <1>1, <1>2, <1>3, <1>4

(* rot13 pairs the letters. *)
LEMMA LetterFacts ==
  /\ Letter = {"e", "r", "h", "u"}
  /\ \A s \in Letter : Partner[s] \in Letter /\ Partner[Partner[s]] = s
  BY DEF Letter, Partner

(* rot13 of a symbol; "mailto:" has letters too. *)
LEMMA RotFacts ==
  \A s : Rot13Of(s) =
    IF s \in Letter THEN Partner[s]
    ELSE IF s = "mailto:" THEN "znvygb:"
    ELSE IF s = "znvygb:" THEN "mailto:" ELSE s
  BY LetterFacts DEF Rot13Of

(* A sequence of IsSequence is one of Seq. *)
LEMMA IsSeq ==
  ASSUME NEW s, IsSequence(s)
  PROVE  s \in Seq({s[i] : i \in 1..Len(s)}) /\ Len(s) \in Nat /\ DOMAIN s = 1..Len(s)
  <1> DEFINE n == Len(s) S == {s[i] : i \in 1..Len(s)}
  <1>1. n \in Nat /\ s = [i \in 1..n |-> s[i]]
    BY DEF IsSequence
  <1>2. \A i \in 1..n : s[i] \in S
    OBVIOUS
  <1> HIDE DEF n, S
  <1>3. [i \in 1..n |-> s[i]] \in Seq(S)
    BY <1>1, <1>2
  <1> QED
    BY <1>1, <1>3 DEF n, S

(* Durations, from the proofs about Backoff, whose other parameters do not *)
(* matter here. *)
Arith == INSTANCE BackoffProofs
           WITH MaxAttempts <- 2, Bases <- {}, Caps <- {}, RetryAfters <- {}, base <- 0, cap <- 0,
                logHeaders <- FALSE, attempt <- 0, status <- "none", header <- 0

(* The width of the integers, from the lemmas of the retry delay. *)
LEMMA DurationFacts ==
  /\ MaxDuration \in Nat
  /\ \A n \in 0..MaxDuration : Wrap(n) = n
  /\ Pow2[Width - 1] \in Nat /\ Pow2[Width - 1] >= 1 /\ Pow2[Width] = 2 * Pow2[Width - 1]
  /\ MaxDuration = Pow2[Width - 1] - 1
  <1>1. 2 \in Nat \ {0, 1} /\ {} \subseteq Int /\ {} \subseteq Nat
    OBVIOUS
  <1>2. /\ Arith!Pow2[Width - 1] \in Nat /\ Arith!Pow2[Width - 1] >= 1
        /\ Arith!Pow2[Width] = 2 * Arith!Pow2[Width - 1]
        /\ Arith!MaxDuration = Arith!Pow2[Width - 1] - 1
    BY <1>1, WidthAssumption, Arith!Halves
  <1>3. ASSUME NEW n \in Int, 0 <= n, n <= Arith!MaxDuration PROVE Arith!Wrap(n) = n
    BY <1>1, <1>3, WidthAssumption, Arith!WrapFits
  <1>4. Arith!Pow2 = Pow2
    BY DEF Arith!Pow2, Pow2
  <1>5. MaxDuration = Arith!MaxDuration /\ \A n : Wrap(n) = Arith!Wrap(n)
    BY <1>4 DEF Wrap, Arith!Wrap, MaxDuration, Arith!MaxDuration
  <1>6. MaxDuration \in Nat
    BY <1>2, <1>5
  <1>7. \A n \in 0..MaxDuration : n \in Int /\ 0 <= n /\ n <= MaxDuration
    BY <1>6
  <1> QED
    BY <1>2, <1>3, <1>4, <1>5, <1>6, <1>7

LastPage(count) ==
  IF count + PerPage - 1 > MaxDuration THEN 1 ELSE Cardinality(PagesWithItems(count))

(* The loop of printPages ends where the items do. *)
LEMMA PagesOf ==
  ASSUME NEW count \in 1..MaxDuration
  PROVE  /\ LastPage(count) \in Nat \ {0}
         /\ \A p \in 1..LastPage(count) : p < TotalPages(count) <=> p # LastPage(count)
  <1> DEFINE H == Pow2[Width - 1]
  <1>1. H \in Nat /\ H >= 1 /\ Pow2[Width] = 2 * H /\ MaxDuration = H - 1 /\ count \in Nat
    BY DurationFacts
  <1> HIDE DEF H
  <1>2. PerPage = 25
    BY DEF PerPage
  <1>3. CASE count + 24 > MaxDuration
    <2>1. LastPage(count) = 1
      BY <1>1, <1>2, <1>3 DEF LastPage
    <2> DEFINE m == (count + 24 + H) % (2 * H)
    <2>2. Wrap(count + 24) = m - H
      BY <1>1 DEF Wrap, H
    <2>3. m \in 0..2 * H - 1
      BY <1>1
    <2>4. m - H <= 24
      <3>1. CASE H <= 24
        BY <1>1, <2>3, <3>1
      <3>2. CASE H > 24
        <4>1. m = count + 24 + H - 2 * H
          <5>1. \A a, b \in Nat : b > 0 /\ b <= a /\ a < 2 * b => a % b = a - b
            OBVIOUS
          <5>2. 2 * H > 0 /\ 2 * H <= count + 24 + H /\ count + 24 + H < 2 * (2 * H)
            BY <1>1, <1>3, <3>2
          <5>3. count + 24 + H \in Nat /\ 2 * H \in Nat
            BY <1>1
          <5>4. PICK a, b : a = count + 24 + H /\ b = 2 * H
            OBVIOUS
          <5>5. a \in Nat /\ b \in Nat /\ b > 0 /\ b <= a /\ a < 2 * b /\ m = a % b
            BY <5>2, <5>3, <5>4
          <5>6. a % b = a - b
            BY <5>1, <5>5, Zenon
          <5>7. m = a - b
            BY <5>5, <5>6, Zenon
          <5> HIDE DEF m
          <5> QED
            BY <1>1, <5>4, <5>5, <5>7
        <4> QED
          BY <1>1, <3>2, <4>1
      <3> QED
        BY <1>1, <3>1, <3>2
    <2>5. TotalPages(count) \in Int /\ TotalPages(count) <= 0
      <3>1. m - H \in Int
        BY <1>1, <2>3
      <3>2. \A a \in Int : a <= 24 => a \div 25 \in Int /\ a \div 25 <= 0
        OBVIOUS
      <3>3. TotalPages(count) = (m - H) \div 25
        <4>1. count + PerPage - 1 = count + 24
          BY <1>1, <1>2
        <4> QED
          BY <1>2, <2>2, <4>1 DEF TotalPages
      <3> HIDE DEF m
      <3> QED
        BY <2>4, <3>1, <3>2, <3>3
    <2> QED
      BY <2>1, <2>5
  <1>4. CASE count + 24 <= MaxDuration
    <2> DEFINE q == (count - 1) \div 25 + 1
    <2>1. q \in Nat \ {0} /\ 25 * (q - 1) <= count - 1 /\ count - 1 < 25 * q
      BY <1>1
    <2>2. TotalPages(count) = q
      <3>1. Wrap(count + 24) = count + 24
        BY <1>1, <1>4, DurationFacts
      <3>2. count + PerPage - 1 = count + 24
        BY <1>1, <1>2
      <3>3. (count + 24) \div 25 = q
        BY <1>1
      <3> QED
        BY <1>2, <3>1, <3>2, <3>3 DEF TotalPages
    <2>3. PagesWithItems(count) = 1..q
      <3>1. ASSUME NEW i \in 1..count PROVE (i - 1) \div 25 + 1 \in 1..q
        BY <1>1, <3>1
      <3>2. ASSUME NEW p \in 1..q PROVE \E i \in 1..count : p = (i - 1) \div 25 + 1
        <4> HIDE DEF q
        <4> DEFINE i == 25 * (p - 1) + 1
        <4>1. p \in Nat /\ 1 <= p /\ p <= q
          BY <2>1
        <4>2. 25 * (p - 1) <= 25 * (q - 1)
          BY <2>1, <4>1
        <4>3. i \in 1..count
          BY <1>1, <2>1, <4>1, <4>2
        <4>4. (i - 1) \div 25 + 1 = p
          BY <4>1
        <4> QED
          BY <4>3, <4>4
      <3> HIDE DEF q
      <3> QED
        BY <1>2, <3>1, <3>2 DEF PagesWithItems
    <2> HIDE DEF q
    <2>4. Cardinality(1..q) = q
      BY <2>1, FS_Interval
    <2>5. LastPage(count) = q
      <3>1. ~(count + PerPage - 1 > MaxDuration)
        BY <1>1, <1>2, <1>4
      <3> QED
        BY <2>3, <2>4, <3>1 DEF LastPage
    <2> QED
      BY <2>1, <2>2, <2>5
  <1> QED
    BY <1>1, <1>3, <1>4

(* Which objects there are does not depend on what the mappings find. *)
LEMMA KeptIs ==
  ASSUME NEW seq, NEW I, NEW n \in Nat, DOMAIN seq = 1..n
  PROVE  Kept(seq, I) = KeptTo(seq, I, n)
  BY DEF Kept, KeptTo

(* What is kept is a sequence. *)
LEMMA KeptSequence ==
  ASSUME NEW seq, NEW I, NEW n \in Nat, DOMAIN seq = 1..n
  PROVE  IsSequence(Kept(seq, I))
  <1>1. PICK m, h : KeptAt(I, n, m, h)
    BY KeptPlaces
  <1>2. m \in Nat /\ Kept(seq, I) = [k \in 1..m |-> seq[h[k]]]
    BY <1>1, KeptIs DEF KeptAt
  <1>3. Len([k \in 1..m |-> seq[h[k]]]) = m
    BY <1>2
  <1> QED
    BY <1>2, <1>3 DEF IsSequence

(* The objects of a document are a sequence. *)
LEMMA ObjectsSequence ==
  ASSUME NEW doc, NEW mf, IsSequence(doc)
  PROVE  IsSequence(Objects(doc, mf))
  <1> DEFINE roots == IF mf.records THEN doc ELSE <<DocumentRoot(doc)>>
             objects == [i \in DOMAIN roots |-> parseSelection(roots[i], mf.mappings)]
  <1>1. IsSequence(roots)
    <2>1. IsSequence(<<DocumentRoot(doc)>>)
      BY DEF IsSequence
    <2> QED
      BY <2>1
  <1> HIDE DEF roots
  <1>2. PICK n \in Nat : DOMAIN objects = 1..n
    BY <1>1, IsSeq
  <1>3. \A I : IsSequence(Kept(objects, I))
    <2> HIDE DEF objects
    <2> QED
      BY <1>2, KeptSequence
  <1>4. IsSequence(<<>>)
    BY DEF IsSequence
  <1>5. Objects(doc, mf) = extractRecords(roots, mf.mappings)
    BY DEF Objects, roots
  <1> QED
    BY <1>3, <1>4, <1>5 DEF extractRecords

-----------------------------------------------------------------------------
(* PrintPagingURLs *)

Records == Objects(input.doc, input.mf)

IsDue(record) == HasURL(record) /\ Countable(record)

Line(link, p) == Piece("line", <<link, p>>)

LinesOf(record) ==
  [p \in 1..(IF IsDue(record) THEN LastPage(Count(record)) ELSE 0) |-> Line(URLOf(record), p)]

(* The lines of the first records *)
Printed(d) == FlattenSeq([k \in 1..d |-> LinesOf(Records[k])])

Taken == Len(Records) - Len(recs)

(* Every record that was taken has its lines, the last one those up to the *)
(* page that comes next. *)
PagesPrinted ==
  /\ page = 0 => out = Printed(Taken)
  /\ page # 0 =>
       /\ Taken >= 1 /\ IsDue(Records[Taken])
       /\ url = [of |-> URLOf(Records[Taken]), count |-> Count(Records[Taken])]
       /\ page \in 1..LastPage(url.count)
       /\ out = Printed(Taken - 1) \o [p \in 1..page - 1 |-> Line(url.of, p)]

PagingInv ==
  input.op = "paging" =>
    /\ started \in BOOLEAN
    /\ ~started => out = <<>> /\ page = 0 /\ result # "ok"
    /\ started /\ result # "error" =>
         /\ recs \in Seq({Records[k] : k \in 1..Len(Records)})
         /\ Len(recs) <= Len(Records)
         /\ \A j \in 1..Len(recs) : recs[j] = Records[Taken + j]
         /\ page \in Nat
         /\ PagesPrinted
         /\ result = "ok" => page = 0 /\ recs = <<>>

(* The records of a page of categories are a sequence. *)
LEMMA RecordsSequence ==
  ASSUME input \in Inputs, input.op = "paging"
  PROVE  IsSequence(Records) /\ Len(Records) \in Nat
  <1>1. IsSequence(input.doc)
    BY InputsAssumption DEF IsInput
  <1> QED
    BY <1>1, ObjectsSequence DEF Records, IsSequence

(* What the records have printed is a sequence of lines. *)
LineSet == {Line(URLOf(Records[k]), p) : k \in 1..Len(Records), p \in Nat}

(* The lines of a record, and how many it has. *)
LEMMA LinesType ==
  ASSUME NEW k \in 1..Len(Records)
  PROVE  /\ LinesOf(Records[k]) \in Seq(LineSet)
         /\ IsDue(Records[k]) => /\ Count(Records[k]) \in 1..MaxDuration
                                 /\ LastPage(Count(Records[k])) \in Nat \ {0}
         /\ ~IsDue(Records[k]) => LinesOf(Records[k]) = <<>>
  <1> DEFINE r == Records[k]
             n == IF IsDue(r) THEN LastPage(Count(r)) ELSE 0
  <1>1. IsDue(r) => Count(r) \in 1..MaxDuration /\ LastPage(Count(r)) \in Nat \ {0}
    BY PagesOf DEF IsDue, Countable
  <1>2. n \in Nat
    BY <1>1
  <1>3. \A p \in Nat : Line(URLOf(r), p) \in LineSet
    BY DEF LineSet
  <1>4. LinesOf(r) = [p \in 1..n |-> Line(URLOf(r), p)]
    BY DEF LinesOf
  <1>5. ~IsDue(r) => n = 0
    OBVIOUS
  <1> HIDE DEF n, r
  <1>6. [p \in 1..n |-> Line(URLOf(r), p)] \in Seq(LineSet)
    BY <1>2, <1>3
  <1>7. n = 0 => [p \in 1..n |-> Line(URLOf(r), p)] = <<>>
    OBVIOUS
  <1> QED
    BY <1>1, <1>4, <1>5, <1>6, <1>7 DEF r

(* The lines of one more record come after those before. *)
LEMMA PrintedNext ==
  ASSUME NEW d \in Nat, d < Len(Records), Len(Records) \in Nat
  PROVE  /\ Printed(d) \in Seq(LineSet)
         /\ Printed(d + 1) = Printed(d) \o LinesOf(Records[d + 1])
  <1> DEFINE x == [k \in 1..d + 1 |-> LinesOf(Records[k])]
  <1>1. \A k \in 1..d + 1 : x[k] \in Seq(LineSet)
    BY LinesType
  <1>2. /\ [k \in 1..d + 1 |-> x[k]] = [k \in 1..d + 1 |-> LinesOf(Records[k])]
        /\ [k \in 1..d |-> x[k]] = [k \in 1..d |-> LinesOf(Records[k])]
        /\ x[d + 1] = LinesOf(Records[d + 1])
    OBVIOUS
  <1> HIDE DEF x
  <1>3. /\ FlattenSeq([k \in 1..d |-> x[k]]) \in Seq(LineSet)
        /\ FlattenSeq([k \in 1..d + 1 |-> x[k]]) = FlattenSeq([k \in 1..d |-> x[k]]) \o x[d + 1]
    BY <1>1, FlattenNext
  <1> QED
    BY <1>2, <1>3 DEF Printed

(* No record has no line. *)
LEMMA PrintedNone == Printed(0) = <<>>
  <1>1. [k \in 1..0 |-> LinesOf(Records[k])] = <<>>
    OBVIOUS
  <1> QED
    BY <1>1, FlattenNone DEF Printed

(* A call that stays at its input owes the same lines. *)
LEMMA PagingStays ==
  ASSUME input' = input
  PROVE  /\ Records' = Records /\ LineSet' = LineSet
         /\ \A d : Printed(d)' = Printed(d)
         /\ \A r : IsDue(r)' = IsDue(r) /\ URLOf(r)' = URLOf(r)
  BY DEF Records, LineSet, Printed, LinesOf, IsDue, URLOf, HasURL

(* A call has printed nothing when it starts. *)
LEMMA PagingInit == Init => PagingInv
  BY DEF Init, PagingInv

(* Every step prints the next line that is owed, or none. *)
LEMMA PagingStep ==
  ASSUME PagingInv, input \in Inputs, [Next]_vars
  PROVE  PagingInv'
  <1> SUFFICES ASSUME input.op = "paging", input' = input
               PROVE  /\ started' \in BOOLEAN
                      /\ ~started' => out' = <<>> /\ page' = 0 /\ result' # "ok"
                      /\ started' /\ result' # "error" =>
                           /\ recs' \in Seq({Records'[k] : k \in 1..Len(Records')})
                           /\ Len(recs') <= Len(Records')
                           /\ \A j \in 1..Len(recs') : recs'[j] = Records'[Taken' + j]
                           /\ page' \in Nat
                           /\ PagesPrinted'
                           /\ result' = "ok" => page' = 0 /\ recs' = <<>>
    <2>1. input' = input
      BY DEF Next, vars, StreamFromDir, ReadDirFails, Open, ReadFile, SkipFile, EmitComma, Encode,
         Close, PrintPagingURLs, StartPaging, TakeRecord, PassRecord, PrintPage, PagingDone, Decode,
         WriteFails, Returned
    <2> QED
      BY <2>1 DEF PagingInv
  <1> DEFINE T == {Records[k] : k \in 1..Len(Records)}
  <1>1. IsSequence(Records) /\ Len(Records) \in Nat /\ Records \in Seq(T)
    BY RecordsSequence, IsSeq
  <1>2. /\ Records' = Records
        /\ \A d : Printed(d)' = Printed(d)
        /\ \A r : IsDue(r)' = IsDue(r) /\ URLOf(r)' = URLOf(r)
    BY PagingStays
  <1>3. /\ started \in BOOLEAN
        /\ ~started => out = <<>> /\ page = 0 /\ result # "ok"
        /\ started /\ result # "error" =>
             /\ recs \in Seq(T) /\ Len(recs) <= Len(Records)
             /\ \A j \in 1..Len(recs) : recs[j] = Records[Taken + j]
             /\ page \in Nat /\ PagesPrinted
             /\ result = "ok" => page = 0 /\ recs = <<>>
    BY DEF PagingInv
  <1> HIDE DEF T
  <1>4. CASE UNCHANGED vars
    <2>1. Taken' = Taken /\ PagesPrinted' <=> Taken' = Taken /\ PagesPrinted
      BY <1>2, <1>4 DEF vars, PagesPrinted, Taken
    <2> QED
      BY <1>2, <1>3, <1>4, <2>1 DEF vars, Taken, T
  <1>5. CASE StartPaging
    <2>1. recs' = Records /\ started' /\ page' = 0 /\ out' = <<>> /\ result' \in {"none", "error"}
      BY <1>3, <1>5 DEF StartPaging, Records
    <2>2. Taken' = 0
      BY <1>1, <1>2, <2>1 DEF Taken
    <2>3. PagesPrinted'
      BY <1>2, <2>1, <2>2, PrintedNone DEF PagesPrinted
    <2> QED
      BY <1>1, <1>2, <2>1, <2>2, <2>3 DEF T
  <1> DEFINE Went == /\ started /\ result = "none" /\ page = 0 /\ recs # <<>>
                     /\ started' = started /\ out' = out /\ recs' = Tail(recs)
  <1>6. ASSUME Went
        PROVE  /\ recs' \in Seq(T) /\ Len(recs') <= Len(Records)
               /\ \A j \in 1..Len(recs') : recs'[j] = Records[Taken' + j]
               /\ Taken' = Taken + 1 /\ Taken \in Nat /\ Taken < Len(Records)
               /\ Head(recs) = Records[Taken + 1]
               /\ Printed(Taken + 1) = Printed(Taken) \o LinesOf(Records[Taken + 1])
               /\ Printed(Taken) \in Seq(LineSet) /\ out' = Printed(Taken)
    <2>1. recs \in Seq(T) /\ recs # <<>> /\ Len(recs) <= Len(Records)
      BY <1>3, <1>6
    <2>2. /\ Head(recs) = recs[1] /\ Len(recs) \in Nat /\ Len(recs) >= 1
          /\ recs' \in Seq(T) /\ Len(recs') = Len(recs) - 1
          /\ \A j \in 1..Len(recs) - 1 : recs'[j] = recs[j + 1]
      BY <1>6, <2>1
    <2>3. Taken' = Taken + 1 /\ Taken \in Nat /\ Taken < Len(Records)
      BY <1>1, <1>2, <2>1, <2>2 DEF Taken
    <2>4. \A j \in 1..Len(recs) : recs[j] = Records[Taken + j]
      BY <1>3, <1>6
    <2>5. Head(recs) = Records[Taken + 1]
      BY <2>2, <2>4
    <2>6. ASSUME NEW j \in 1..Len(recs') PROVE recs'[j] = Records[Taken' + j]
      <3>1. j \in 1..Len(recs) - 1 /\ j + 1 \in 1..Len(recs) /\ j \in Nat
        BY <2>2
      <3>2. recs'[j] = Records[Taken + (j + 1)]
        BY <2>2, <2>4, <3>1
      <3>3. Taken + (j + 1) = Taken' + j
        BY <2>3, <3>1
      <3> QED
        BY <3>2, <3>3
    <2>7. Len(recs') <= Len(Records)
      BY <1>1, <2>1, <2>2
    <2>8. out' = Printed(Taken)
      BY <1>3, <1>6 DEF PagesPrinted
    <2>9. /\ Printed(Taken) \in Seq(LineSet)
          /\ Printed(Taken + 1) = Printed(Taken) \o LinesOf(Records[Taken + 1])
      BY <1>1, <2>3, PrintedNext
    <2> QED
      BY <2>2, <2>3, <2>5, <2>6, <2>7, <2>8, <2>9
  <1>7. CASE TakeRecord
    <2>1. /\ Went /\ IsDue(Head(recs)) /\ page' = 1 /\ result' = "none"
          /\ url' = [of |-> URLOf(Head(recs)), count |-> Count(Head(recs))]
      BY <1>3, <1>7 DEF TakeRecord, Paging, Running, IsDue
    <2>8. started' /\ started' \in BOOLEAN
      BY <1>3, <2>1
    <2> HIDE DEF Went
    <2>2. Taken' \in 1..Len(Records) /\ Taken' - 1 = Taken /\ Head(recs) = Records[Taken']
      BY <1>1, <1>6, <2>1
    <2>3. url'.count = Count(Records[Taken']) /\ url'.of = URLOf(Records[Taken'])
      BY <2>1, <2>2
    <2>4. IsDue(Records[Taken']) /\ 1 \in 1..LastPage(url'.count)
      <3>1. IsDue(Records[Taken'])
        BY <2>1, <2>2
      <3>2. LastPage(Count(Records[Taken'])) \in Nat \ {0}
        BY <2>2, <3>1, LinesType
      <3> QED
        BY <2>3, <3>1, <3>2
    <2>5. out' = Printed(Taken' - 1) \o <<>>
      BY <1>6, <2>1, <2>2, ConcatEmptySeq
    <2>6. [p \in 1..0 |-> Line(url'.of, p)] = <<>>
      OBVIOUS
    <2>7. PagesPrinted'
      <3>1. url' = [of |-> URLOf(Records[Taken']), count |-> Count(Records[Taken'])]
        BY <2>1, <2>2
      <3>2. out' = Printed(Taken' - 1) \o [p \in 1..page' - 1 |-> Line(url'.of, p)]
        <4>1. page' - 1 = 0
          BY <2>1
        <4> QED
          BY <2>5, <2>6, <4>1
      <3>3. page' \in 1..LastPage(url'.count) /\ page' # 0 /\ Taken' >= 1
        BY <2>1, <2>2, <2>4
      <3> QED
        BY <1>2, <2>4, <3>1, <3>2, <3>3 DEF PagesPrinted
    <2> QED
      <3>1. page' \in Nat /\ result' # "ok"
        BY <2>1
      <3> QED
        BY <1>2, <1>6, <2>1, <2>7, <2>8, <3>1 DEF T
  <1>8. CASE PassRecord
    <2>1. /\ Went /\ ~IsDue(Head(recs)) /\ page' = 0 /\ result' \in {"none", "error"}
      BY <1>3, <1>8 DEF PassRecord, Paging, Running, IsDue
    <2>8. started' /\ started' \in BOOLEAN
      BY <1>3, <2>1
    <2> HIDE DEF Went
    <2>2. Taken' = Taken + 1 /\ Taken + 1 \in 1..Len(Records) /\ Head(recs) = Records[Taken + 1]
      BY <1>1, <1>6, <2>1
    <2>3. LinesOf(Records[Taken + 1]) = <<>>
      BY <2>1, <2>2, LinesType
    <2>4. Printed(Taken') = Printed(Taken)
      BY <1>6, <2>1, <2>2, <2>3, ConcatEmptySeq
    <2>5. PagesPrinted'
      BY <1>2, <1>6, <2>1, <2>4 DEF PagesPrinted
    <2> QED
      <3>1. page' \in Nat /\ result' # "ok"
        BY <2>1
      <3> QED
        BY <1>2, <1>6, <2>1, <2>5, <2>8, <3>1 DEF T
  <1>9. CASE PrintPage
    <2>1. /\ started /\ result = "none" /\ page # 0 /\ page \in Nat /\ result' = "none"
          /\ started' = started /\ recs' = recs /\ url' = url
          /\ page' = IF page < TotalPages(url.count) THEN page + 1 ELSE 0
          /\ out' = Append(out, Line(url.of, page))
      <3>1. Due # {} /\ result = "none" /\ started' = started /\ recs' = recs /\ result' = "none" /\ url' = url
        BY <1>9 DEF PrintPage, Running, Write
      <3>2. page \in Nat
        BY <1>3, <3>1
      <3>3. page > 0
        <4>1. page = 0 => Due = {}
          BY DEF Due
        <4> QED
          BY <3>1, <3>2, <4>1
      <3>4. Due = {Line(url.of, page)}
        BY <3>2, <3>3, DueLine DEF Line
      <3>5. out' = Append(out, Line(url.of, page))
        BY <1>9, <3>4 DEF PrintPage, Write
      <3> QED
        BY <1>3, <1>9, <3>1, <3>2, <3>3, <3>5 DEF PrintPage
    <2>2. /\ Taken >= 1 /\ IsDue(Records[Taken])
          /\ url = [of |-> URLOf(Records[Taken]), count |-> Count(Records[Taken])]
          /\ page \in 1..LastPage(url.count)
          /\ out = Printed(Taken - 1) \o [p \in 1..page - 1 |-> Line(url.of, p)]
      BY <1>3, <2>1 DEF PagesPrinted
    <2>3. Taken' = Taken /\ Taken \in 1..Len(Records)
      <3>1. recs \in Seq(T)
        BY <1>3, <2>1
      <3>2. Len(recs) \in Nat
        BY <3>1
      <3> QED
        BY <1>1, <1>2, <2>1, <2>2, <3>2 DEF Taken
    <2> DEFINE u == url.of
               n == LastPage(url.count)
    <2>4. u = URLOf(Records[Taken]) /\ url.count = Count(Records[Taken])
      BY <2>2
    <2>5. n \in Nat \ {0} /\ (page < TotalPages(url.count) <=> page # n)
      <3>1. url.count \in 1..MaxDuration
        BY <2>2, <2>3, <2>4, LinesType
      <3> QED
        BY <2>2, <3>1, PagesOf
    <2>6. LinesOf(Records[Taken]) = [p \in 1..n |-> Line(u, p)]
      BY <2>2, <2>4 DEF LinesOf
    <2>7. /\ Printed(Taken - 1) \in Seq(LineSet)
          /\ Printed(Taken) = Printed(Taken - 1) \o LinesOf(Records[Taken])
      <3>1. Taken - 1 \in Nat /\ Taken - 1 < Len(Records) /\ (Taken - 1) + 1 = Taken
        BY <1>1, <2>3
      <3>2. Printed((Taken - 1) + 1) = Printed(Taken - 1) \o LinesOf(Records[(Taken - 1) + 1])
        BY <1>1, <3>1, PrintedNext
      <3> QED
        BY <1>1, <3>1, <3>2, PrintedNext
    <2>8. out' = Printed(Taken - 1) \o [p \in 1..page |-> Line(u, p)]
      <3> HIDE DEF u, n
      <3>1. \A p \in Nat : Line(u, p) \in LineSet
        BY <2>3, <2>4 DEF LineSet
      <3> DEFINE s == [p \in 1..page - 1 |-> Line(u, p)]
                 t == [p \in 1..page |-> Line(u, p)]
      <3>2. s \in Seq(LineSet) /\ Line(u, page) \in LineSet /\ Append(s, Line(u, page)) = t
        BY <2>1, <3>1
      <3>3. out = Printed(Taken - 1) \o s
        BY <2>2 DEF u
      <3> HIDE DEF s, t
      <3>4. \A a, b \in Seq(LineSet), e \in LineSet : Append(a \o b, e) = a \o Append(b, e)
        OBVIOUS
      <3>5. out' = Append(out, Line(u, page))
        BY <2>1 DEF u
      <3>6. out' = Printed(Taken - 1) \o Append(s, Line(u, page))
        BY <2>7, <3>2, <3>3, <3>4, <3>5
      <3>7. out' = Printed(Taken - 1) \o t
        BY <3>2, <3>6
      <3> QED
        BY <3>7 DEF t
    <2> HIDE DEF u, n
    <2>9. CASE page = n
      <3>1. page' = 0
        BY <2>1, <2>5, <2>9
      <3>2. out' = Printed(Taken')
        BY <2>3, <2>6, <2>7, <2>8, <2>9
      <3> QED
        BY <1>2, <1>3, <2>1, <2>3, <3>1, <3>2 DEF PagesPrinted, T
    <2>10. CASE page # n
      <3>1. page' = page + 1
        BY <2>1, <2>5, <2>10
      <3>2. page' \in 1..LastPage(url'.count) /\ page' # 0 /\ page' \in Nat
        BY <2>1, <2>2, <2>5, <2>10, <3>1 DEF n
      <3>3. page' - 1 = page
        BY <2>1, <3>1
      <3>4. out' = Printed(Taken' - 1) \o [p \in 1..page' - 1 |-> Line(url'.of, p)]
        BY <2>1, <2>3, <2>8, <3>3 DEF u
      <3>5. PagesPrinted'
        BY <1>2, <2>1, <2>2, <2>3, <3>2, <3>4 DEF PagesPrinted
      <3> QED
        BY <1>2, <1>3, <2>1, <2>3, <3>2, <3>5 DEF T
    <2> QED
      BY <2>9, <2>10
  <1>10. CASE PagingDone
    <2>1. /\ started /\ result = "none" /\ page = 0 /\ recs = <<>> /\ result' = "ok"
          /\ UNCHANGED <<started, recs, page, url, out>>
      BY <1>3, <1>10 DEF PagingDone, Paging, Running
    <2>2. Taken' = Taken /\ (PagesPrinted' <=> PagesPrinted)
      BY <1>2, <2>1 DEF Taken, PagesPrinted
    <2> QED
      BY <1>2, <1>3, <2>1, <2>2 DEF T
  <1>11. CASE WriteFails
    <2>1. result' = "error" /\ started' = started
      BY <1>11 DEF WriteFails
    <2>2. ~started => Due = {}
      BY <1>3 DEF Due
    <2>3. started
      BY <1>11, <2>2 DEF WriteFails
    <2> QED
      BY <1>3, <2>1, <2>3
  <1> QED
    <2>1. ~StreamFromDir /\ ~Decode
      BY DEF StreamFromDir, ReadDirFails, Open, ReadFile, SkipFile, EmitComma, Encode, Close, Running,
         NextFile, Decode
    <2>2. Returned => UNCHANGED vars
      BY DEF Returned
    <2> QED
      BY <1>4, <1>5, <1>7, <1>8, <1>9, <1>10, <1>11, <2>1, <2>2 DEF Next, PrintPagingURLs

(* When no record is left, the lines are those of all the records. *)
LEMMA PagesFollow ==
  ASSUME PagingInv, input \in Inputs
  PROVE  PagesCover
  <1> SUFFICES ASSUME input.op = "paging", result = "ok" PROVE out = Printed(Len(Records))
    <2>1. input.op = "paging" => DOMAIN Records = 1..Len(Records)
      BY RecordsSequence, IsSeq
    <2> QED
      BY <2>1 DEF PagesCover, Printed, LinesOf, IsDue, Line, LastPage, Records
  <1>1. Len(Records) \in Nat
    BY RecordsSequence
  <1>2. out = Printed(Taken) /\ recs = <<>>
    BY DEF PagingInv, PagesPrinted
  <1>3. Taken = Len(Records)
    BY <1>1, <1>2 DEF Taken
  <1> QED
    BY <1>2, <1>3

-----------------------------------------------------------------------------
(* DecodeEmailFromScript *)

(* The recursive function inside RemoveAll exists, for the last m places    *)
(* of the text for every m. *)
From(g, text, noise, D) ==
  \A i \in D : g[i] = IF i > Len(text) THEN <<>>
                      ELSE IF i + Len(noise) - 1 <= Len(text)
                              /\ SubSeq(text, i, i + Len(noise) - 1) = noise
                      THEN g[i + Len(noise)] ELSE <<text[i]>> \o g[i + 1]

(* There is a function that removes the noise from every place on. *)
LEMMA FromExists ==
  ASSUME NEW text, NEW noise, Len(text) \in Nat, Len(noise) \in Nat \ {0}
  PROVE  \A m \in 0..Len(text) : \E g : From(g, text, noise, Len(text) + 1 - m .. Len(text) + 1)
  <1> DEFINE L == Len(text)
             n == Len(noise)
             P(m) == \E g : From(g, text, noise, L + 1 - m .. L + 1)
             Bad == {m \in 0..L : ~ P(m)}
  <1>1. SUFFICES ASSUME Bad # {} PROVE FALSE
    OBVIOUS
  <1>2. PICK m \in Bad : \A j \in Bad : m <= j
    <2>1. Bad \subseteq Nat
      OBVIOUS
    <2> HIDE DEF Bad
    <2> QED
      BY <1>1, <2>1, NatMin
  <1>3. m \in 0..L /\ ~ P(m)
    OBVIOUS
  <1>4. m # 0
    <2> DEFINE g == [i \in {L + 1} |-> <<>>]
    <2>1. \A i \in L + 1 - 0 .. L + 1 : i = L + 1 /\ i > L
      OBVIOUS
    <2>2. From(g, text, noise, L + 1 - 0 .. L + 1)
      BY <2>1 DEF From
    <2> HIDE DEF g
    <2> QED
      BY <1>3, <2>2
  <1>5. m - 1 \in 0..L /\ m - 1 \notin Bad
    <2> HIDE DEF Bad
    <2> QED
      BY <1>2, <1>3, <1>4
  <1>6. PICK g : From(g, text, noise, L + 1 - (m - 1) .. L + 1)
    BY <1>5
  <1> DEFINE a == L + 1 - m
  <1>7. a \in 1..L /\ L + 1 - (m - 1) = a + 1 /\ n \in Nat \ {0} /\ L \in Nat
    BY <1>3, <1>4
  <1> HIDE DEF a, n, L
  <1> DEFINE h == [i \in a..L + 1 |->
                     IF i # a THEN g[i]
                     ELSE IF i + n - 1 <= L /\ SubSeq(text, i, i + n - 1) = noise THEN g[i + n]
                     ELSE <<text[i]>> \o g[i + 1]]
  <1>8. \A i \in a + 1..L + 1 : h[i] = g[i]
    BY <1>7
  <1>9. ASSUME NEW i \in a..L + 1
        PROVE  h[i] = IF i > L THEN <<>>
                      ELSE IF i + n - 1 <= L /\ SubSeq(text, i, i + n - 1) = noise
                      THEN h[i + n] ELSE <<text[i]>> \o h[i + 1]
    <2>1. i <= L => i + 1 \in a + 1..L + 1
      BY <1>7
    <2>2. i <= L /\ i + n - 1 <= L => i + n \in a + 1..L + 1
      BY <1>7
    <2>3. CASE i = a
      <3>1. ~(i > L) /\ i <= L
        BY <1>7, <2>3
      <3>2. h[i + 1] = g[i + 1] /\ (i + n - 1 <= L => h[i + n] = g[i + n])
        BY <1>8, <2>1, <2>2, <3>1
      <3>3. h[i] = IF i + n - 1 <= L /\ SubSeq(text, i, i + n - 1) = noise
                   THEN g[i + n] ELSE <<text[i]>> \o g[i + 1]
        BY <2>3
      <3> HIDE DEF h
      <3> QED
        BY <3>1, <3>2, <3>3
    <2>4. CASE i # a
      <3>1. i \in a + 1..L + 1
        BY <1>7, <2>4
      <3>2. h[i] = g[i]
        BY <1>8, <3>1
      <3>3. g[i] = IF i > L THEN <<>>
                   ELSE IF i + n - 1 <= L /\ SubSeq(text, i, i + n - 1) = noise
                   THEN g[i + n] ELSE <<text[i]>> \o g[i + 1]
        BY <1>6, <1>7, <3>1 DEF From, L, n
      <3>4. i <= L \/ i > L
        BY <1>7
      <3> HIDE DEF h
      <3> QED
        BY <1>8, <2>1, <2>2, <3>2, <3>3, <3>4
    <2> QED
      BY <2>3, <2>4
  <1> HIDE DEF h
  <1>10. P(m)
    <2>1. From(h, text, noise, a..L + 1)
      BY <1>9 DEF From, L, n
    <2> QED
      BY <2>1 DEF a, L
  <1> QED
    BY <1>3, <1>10

(* Joining, under a name of its own: the provers are told when to expand it. *)
Join(a, b) == a \o b

(* The length and the elements of a join. *)
LEMMA JoinOf ==
  ASSUME NEW S, NEW s \in Seq(S), NEW t \in Seq(S)
  PROVE  LET st == Join(s, t) IN
         /\ st \in Seq(S) /\ Len(st) = Len(s) + Len(t)
         /\ Len(s) \in Nat /\ Len(t) \in Nat
         /\ \A i \in 1..Len(st) : st[i] = IF i <= Len(s) THEN s[i] ELSE t[i - Len(s)]
  <1> DEFINE st == s \o t
  <1>1. Len(s) \in Nat /\ Len(t) \in Nat
    OBVIOUS
  <1>2. st \in Seq(S) /\ Len(st) = Len(s) + Len(t)
    OBVIOUS
  <1>3. \A i \in 1..Len(st) : st[i] = IF i <= Len(s) THEN s[i] ELSE t[i - Len(s)]
    OBVIOUS
  <1> QED
    BY <1>1, <1>2, <1>3, Zenon DEF Join

(* Joining is associative. *)
LEMMA JoinAssociative ==
  ASSUME NEW S, NEW a \in Seq(S), NEW b \in Seq(S), NEW c \in Seq(S)
  PROVE  Join(Join(a, b), c) = Join(a, Join(b, c))
  <1> DEFINE ab == Join(a, b)
             bc == Join(b, c)
             l == Join(ab, c)
             r == Join(a, bc)
  <1> HIDE DEF ab, bc, l, r
  <1>1. /\ ab \in Seq(S) /\ Len(ab) = Len(a) + Len(b) /\ Len(a) \in Nat /\ Len(b) \in Nat
        /\ \A i \in 1..Len(ab) : ab[i] = IF i <= Len(a) THEN a[i] ELSE b[i - Len(a)]
    BY JoinOf DEF ab
  <1>2. /\ bc \in Seq(S) /\ Len(bc) = Len(b) + Len(c) /\ Len(c) \in Nat
        /\ \A i \in 1..Len(bc) : bc[i] = IF i <= Len(b) THEN b[i] ELSE c[i - Len(b)]
    BY JoinOf DEF bc
  <1>3. /\ l \in Seq(S) /\ Len(l) = Len(ab) + Len(c)
        /\ \A i \in 1..Len(l) : l[i] = IF i <= Len(ab) THEN ab[i] ELSE c[i - Len(ab)]
    <2>1. ab \in Seq(S)
      BY <1>1
    <2> QED
      BY ONLY <2>1, c \in Seq(S), JoinOf DEF l
  <1>4. /\ r \in Seq(S) /\ Len(r) = Len(a) + Len(bc)
        /\ \A i \in 1..Len(r) : r[i] = IF i <= Len(a) THEN a[i] ELSE bc[i - Len(a)]
    <2>1. bc \in Seq(S)
      BY <1>2
    <2> QED
      BY ONLY <2>1, a \in Seq(S), JoinOf DEF r
  <1>5. l = r
    <2>1. Len(l) = Len(r)
      BY <1>1, <1>2, <1>3, <1>4
    <2>2. ASSUME NEW i \in 1..Len(l) PROVE l[i] = r[i]
      <3>1. CASE i <= Len(a)
        <4>1. l[i] = a[i]
          BY <1>1, <1>2, <1>3, <3>1
        <4>2. i \in 1..Len(r)
          BY <2>1
        <4> QED
          BY <1>4, <3>1, <4>1, <4>2
      <3>2. CASE i > Len(a) /\ i <= Len(ab)
        <4>1. l[i] = b[i - Len(a)]
          BY <1>1, <1>3, <3>2
        <4>2. i \in 1..Len(r) /\ ~(i <= Len(a)) /\ i - Len(a) \in 1..Len(bc) /\ i - Len(a) <= Len(b)
          BY <1>1, <1>2, <1>3, <1>4, <3>2
        <4>3. r[i] = bc[i - Len(a)] /\ bc[i - Len(a)] = b[i - Len(a)]
          BY <1>2, <1>4, <4>2
        <4> QED
          BY <4>1, <4>3
      <3>3. CASE i > Len(ab)
        <4>1. l[i] = c[i - Len(ab)] /\ i - Len(ab) = (i - Len(a)) - Len(b)
          BY <1>1, <1>3, <3>3
        <4>2. i \in 1..Len(r) /\ ~(i <= Len(a)) /\ i - Len(a) \in 1..Len(bc) /\ ~(i - Len(a) <= Len(b))
          BY <1>1, <1>2, <1>3, <1>4, <3>3
        <4>3. r[i] = bc[i - Len(a)] /\ bc[i - Len(a)] = c[(i - Len(a)) - Len(b)]
          BY <1>2, <1>4, <4>2
        <4> QED
          BY <4>1, <4>3
      <3> QED
        BY <1>1, <1>3, <3>1, <3>2, <3>3
    <2> QED
      BY <1>3, <1>4, <2>1, <2>2, SeqEqual
  <1> QED
    BY <1>5 DEF l, r, ab, bc

(* The rest of a sequence, and more, begins with its first element. *)
LEMMA RestAndMore ==
  ASSUME NEW S, NEW s \in Seq(S), NEW more \in Seq(S), NEW i \in 1..Len(s)
  PROVE  SubSeq(s, i, Len(s)) \o more = <<s[i]>> \o (SubSeq(s, i + 1, Len(s)) \o more)
  <1>1. Len(s) \in i..Len(s)
    OBVIOUS
  <1>2. SubSeq(s, i, Len(s)) = <<s[i]>> \o SubSeq(s, i + 1, Len(s))
    BY <1>1, SubSeqRecursiveFirst
  <1>3. SubSeq(s, i + 1, Len(s)) \in Seq(S)
    <2>1. i + 1 \in Int /\ Len(s) \in Int /\ \A j \in i + 1..Len(s) : s[j] \in S
      OBVIOUS
    <2> QED
      BY <2>1, SubSeqProperties
  <1>4. <<s[i]>> \in Seq(S)
    OBVIOUS
  <1> DEFINE a == <<s[i]>>
             b == SubSeq(s, i + 1, Len(s))
  <1>5. a \in Seq(S) /\ b \in Seq(S)
    BY <1>3, <1>4
  <1> HIDE DEF a, b
  <1>6. Join(Join(a, b), more) = Join(a, Join(b, more))
    BY <1>5, JoinAssociative
  <1> QED
    BY <1>2, <1>6, Zenon DEF a, b, Join

(* What a foreign noise was put into comes out of RemoveAll. *)
LEMMA NoiseRemoved ==
  ASSUME NEW S, NEW left \in Seq(S), NEW right \in Seq(S), NEW noise \in Seq(S), noise # <<>>,
         NEW head, head = left \o noise,
         \A i \in 1..Len(noise) : /\ \A j \in 1..Len(left) : noise[i] # left[j]
                                  /\ \A j \in 1..Len(right) : noise[i] # right[j]
  PROVE  RemoveAll(head \o right, noise) = left \o right
  <1> DEFINE text == left \o noise \o right
             L == Len(text)
             n == Len(noise)
             l == Len(left)
  <1>1. /\ text \in Seq(S) /\ n \in Nat \ {0} /\ l \in Nat /\ L \in Nat
        /\ L = l + n + Len(right) /\ Len(right) \in Nat
    OBVIOUS
  <1>2. /\ \A i \in 1..l : text[i] = left[i]
        /\ \A i \in l + 1..l + n : text[i] = noise[i - l]
        /\ \A i \in l + n + 1..L : text[i] = right[i - l - n]
    OBVIOUS
  <1>12. \A i \in 1..l : SubSeq(left, i, l) \o right = <<left[i]>> \o (SubSeq(left, i + 1, l) \o right)
    BY RestAndMore
  <1> HIDE DEF text, L, n, l
  <1> DEFINE F(g) == g = [i \in 1..L + 1 |->
               IF i > L THEN <<>>
               ELSE IF i + n - 1 <= L /\ SubSeq(text, i, i + n - 1) = noise THEN g[i + n]
               ELSE <<text[i]>> \o g[i + 1]]
             from == CHOOSE g : F(g)
  <1>3. RemoveAll(text, noise) = from[1]
    BY DEF RemoveAll, L, n
  <1>4. F(from)
    <2>1. PICK g : From(g, text, noise, 1..L + 1)
      <3>1. L \in 0..L /\ L + 1 - L = 1
        BY <1>1
      <3> QED
        BY <1>1, <3>1, FromExists DEF L, n
    <2> DEFINE h == [i \in 1..L + 1 |-> g[i]]
    <2>2. F(h)
      <3> SUFFICES ASSUME NEW i \in 1..L + 1
                   PROVE  h[i] = IF i > L THEN <<>>
                                 ELSE IF i + n - 1 <= L /\ SubSeq(text, i, i + n - 1) = noise THEN h[i + n]
                                 ELSE <<text[i]>> \o h[i + 1]
        OBVIOUS
      <3>1. ~(i > L) => i + 1 \in 1..L + 1
        BY <1>1
      <3>2. i + n - 1 <= L => i + n \in 1..L + 1
        BY <1>1
      <3>3. /\ h[i] = g[i] /\ (~(i > L) => h[i + 1] = g[i + 1])
            /\ (i + n - 1 <= L => h[i + n] = g[i + n])
        BY <3>1, <3>2
      <3>4. g[i] = IF i > L THEN <<>>
                   ELSE IF i + n - 1 <= L /\ SubSeq(text, i, i + n - 1) = noise THEN g[i + n]
                   ELSE <<text[i]>> \o g[i + 1]
        BY <2>1 DEF From, L, n
      <3> HIDE DEF h
      <3> QED
        BY <3>3, <3>4
    <2> HIDE DEF h, F
    <2> QED
      BY <2>2
  <1> HIDE DEF from
  <1>5. ASSUME NEW i \in 1..L + 1
        PROVE  from[i] = IF i > L THEN <<>>
                         ELSE IF i + n - 1 <= L /\ SubSeq(text, i, i + n - 1) = noise THEN from[i + n]
                         ELSE <<text[i]>> \o from[i + 1]
    BY <1>4
  (* Only at its own place is the noise found. *)
  <1>6. ASSUME NEW i \in 1..L, i + n - 1 <= L
        PROVE  SubSeq(text, i, i + n - 1) = noise <=> i = l + 1
    <2>1. /\ SubSeq(text, i, i + n - 1) \in Seq(S) /\ Len(SubSeq(text, i, i + n - 1)) = n
          /\ \A j \in 1..n : SubSeq(text, i, i + n - 1)[j] = text[i + j - 1]
      <3>1. i \in Int /\ i + n - 1 \in Int /\ i <= i + n - 1 /\ (i + n - 1) - i + 1 = n
        BY <1>1
      <3>2. \A j \in i..i + n - 1 : text[j] \in S
        BY <1>1, <1>6, <3>1 DEF L
      <3> QED
        BY <3>1, <3>2, SubSeqProperties
    <2>2. CASE i = l + 1
      <3>1. \A j \in 1..n : text[i + j - 1] = noise[j]
        <4> SUFFICES ASSUME NEW j \in 1..n PROVE text[i + j - 1] = noise[j]
          OBVIOUS
        <4>1. i + j - 1 \in l + 1..l + n /\ (i + j - 1) - l = j
          BY <1>1, <2>2
        <4> QED
          BY <1>2, <4>1
      <3>2. \A j \in 1..n : SubSeq(text, i, i + n - 1)[j] = noise[j]
        BY <2>1, <3>1
      <3>3. SubSeq(text, i, i + n - 1) = noise
        <4>1. noise \in Seq(S) /\ Len(noise) = n
          BY DEF n
        <4> QED
          BY <2>1, <3>2, <4>1, SeqEqual
      <3> QED
        BY <2>2, <3>3
    <2>3. CASE i # l + 1
      <3>1. SubSeq(text, i, i + n - 1)[1] = text[i] /\ 1 \in 1..n
        <4>1. 1 \in 1..n /\ i + 1 - 1 = i
          BY <1>1
        <4> QED
          BY <2>1, <4>1
      <3>2. CASE i <= l
        <4>1. i \in 1..l /\ text[i] = left[i]
          BY <1>1, <1>2, <3>2
        <4> QED
          BY <2>3, <3>1, <4>1 DEF l, n
      <3>3. CASE i > l + 1 /\ i <= l + n
        (* the end of the noise and more: the symbol after the noise is foreign *)
        <4>1. l + n + 2 - i \in 1..n /\ i + (l + n + 2 - i) - 1 = l + n + 1
          BY <1>1, <3>3
        <4>2. SubSeq(text, i, i + n - 1)[l + n + 2 - i] = text[l + n + 1]
          BY <2>1, <4>1
        <4> DEFINE k == l + n + 1
        <4>3. k \in l + n + 1..L /\ k - l - n = 1 /\ 1 \in 1..Len(right)
          BY <1>1, <1>6, <3>3
        <4>4. text[k] = right[1]
          <5>1. text[k] = right[k - l - n]
            <6> HIDE DEF k
            <6> QED
              BY <1>2, <4>3
          <5> QED
            BY <4>3, <5>1
        <4> QED
          BY <2>3, <4>1, <4>2, <4>3, <4>4 DEF n
      <3>4. CASE i > l + n
        <4>1. i \in l + n + 1..L /\ i - l - n \in 1..Len(right)
          BY <1>1, <3>4
        <4>2. text[i] = right[i - l - n]
          BY <1>2, <4>1
        <4> QED
          BY <2>3, <3>1, <4>1, <4>2 DEF n
      <3> QED
        BY <1>1, <2>3, <3>2, <3>3, <3>4
    <2> QED
      BY <2>2, <2>3
  (* After the noise the text is taken as it is. *)
  <1>7. \A i \in l + n + 1..L + 1 : from[i] = SubSeq(text, i, L)
    <2> DEFINE Bad == {k \in 0..Len(right) : from[(L + 1) - k] # SubSeq(text, (L + 1) - k, L)}
    <2>1. Bad = {}
      <3> SUFFICES ASSUME Bad # {} PROVE FALSE
        OBVIOUS
      <3>1. PICK k \in Bad : \A j \in Bad : k <= j
        <4>1. Bad \subseteq Nat
          BY <1>1
        <4> HIDE DEF Bad
        <4> QED
          BY <4>1, NatMin
      <3>2. k \in 0..Len(right) /\ from[(L + 1) - k] # SubSeq(text, (L + 1) - k, L)
        OBVIOUS
      <3> HIDE DEF Bad
      <3> DEFINE i == (L + 1) - k
      <3>3. i \in 1..L + 1 /\ i > l + n /\ i = (L + 1) - k
        <4>1. k \in 0..Len(right)
          BY <3>2
        <4> QED
          BY <1>1, <4>1
      <3>4. CASE k = 0
        <4>1. i > L /\ from[i] = <<>>
          <5>1. i > L
            BY <1>1, <3>3, <3>4
          <5> HIDE DEF i
          <5> QED
            BY <1>5, <3>3, <5>1
        <4>2. SubSeq(text, i, L) = <<>>
          BY <1>1, <3>3, <4>1, SubSeqEmpty
        <4> QED
          BY <3>2, <4>1, <4>2
      <3>5. CASE k # 0
        <4>1. i \in 1..L /\ i # l + 1 /\ ~(i > L)
          <5>1. k \in 0..Len(right)
            BY <3>2
          <5> QED
            BY <1>1, <3>3, <3>5, <5>1
        <4>2. k - 1 \in 0..Len(right) /\ k - 1 \notin Bad
          <5> HIDE DEF Bad, i
          <5> QED
            BY <3>1, <3>2, <3>5
        <4>3. from[i + 1] = SubSeq(text, i + 1, L)
          <5>1. (L + 1) - (k - 1) = i + 1
            BY <1>1, <3>2
          <5> HIDE DEF i
          <5> QED
            BY <4>2, <5>1 DEF Bad
        <4> HIDE DEF i, Bad
        <4>4. from[i] = <<text[i]>> \o SubSeq(text, i + 1, L)
          BY <1>5, <1>6, <3>3, <4>1, <4>3
        <4>5. SubSeq(text, i, L) = <<text[i]>> \o SubSeq(text, i + 1, L)
          <5>1. i \in 1..Len(text) /\ L \in i..Len(text)
            BY <1>1, <4>1 DEF L
          <5> QED
            BY <1>1, <5>1, SubSeqRecursiveFirst
        <4> QED
          BY <3>2, <4>4, <4>5 DEF i
      <3> QED
        BY <3>4, <3>5
    <2> SUFFICES ASSUME NEW i \in l + n + 1..L + 1 PROVE from[i] = SubSeq(text, i, L)
      OBVIOUS
    <2>2. (L + 1) - i \in 0..Len(right) /\ (L + 1) - ((L + 1) - i) = i
      BY <1>1
    <2> QED
      BY <2>1, <2>2
  <1>8. SubSeq(text, l + n + 1, L) = right
    <2> DEFINE tail == SubSeq(text, l + n + 1, L)
    <2>1. /\ tail \in Seq(S) /\ Len(tail) = Len(right)
          /\ \A j \in 1..Len(right) : tail[j] = text[(l + n + 1) + j - 1]
      <3>1. l + n + 1 \in Int /\ L \in Int /\ L - (l + n + 1) + 1 = Len(right)
        BY <1>1
      <3>2. \A j \in l + n + 1..L : text[j] \in S
        BY <1>1 DEF L
      <3>3. IF l + n + 1 <= L THEN L - (l + n + 1) + 1 = Len(right) ELSE 0 = Len(right)
        BY <1>1
      <3> DEFINE m == l + n + 1
      <3>4. m \in Int /\ \A j \in m..L : text[j] \in S
        BY <3>1, <3>2
      <3> HIDE DEF m, L, tail
      <3>5. /\ SubSeq(text, m, L) \in Seq(S)
            /\ Len(SubSeq(text, m, L)) = IF m <= L THEN L - m + 1 ELSE 0
            /\ \A j \in 1..L - m + 1 : SubSeq(text, m, L)[j] = text[m + j - 1]
        BY <3>1, <3>4, SubSeqProperties
      <3>6. tail = SubSeq(text, m, L)
        BY DEF tail, m
      <3> QED
        BY <3>1, <3>3, <3>5, <3>6 DEF m
    <2>2. \A j \in 1..Len(right) : tail[j] = right[j]
      <3> SUFFICES ASSUME NEW j \in 1..Len(right) PROVE tail[j] = right[j]
        OBVIOUS
      <3> DEFINE k == (l + n + 1) + j - 1
      <3>1. k \in l + n + 1..L /\ k - l - n = j
        BY <1>1
      <3>2. text[k] = right[k - l - n]
        <4> HIDE DEF k
        <4> QED
          BY <1>2, <3>1
      <3> HIDE DEF tail
      <3> QED
        BY <2>1, <3>1, <3>2
    <2> HIDE DEF tail
    <2>3. tail = right
      BY <2>1, <2>2, SeqEqual
    <2> QED
      BY <2>3 DEF tail
  (* Before it too. *)
  <1>9. \A i \in 1..l + 1 : from[i] = SubSeq(left, i, l) \o right
    <2> DEFINE Bad == {k \in 0..l : from[(l + 1) - k] # SubSeq(left, (l + 1) - k, l) \o right}
    <2>1. Bad = {}
      <3> SUFFICES ASSUME Bad # {} PROVE FALSE
        OBVIOUS
      <3>1. PICK k \in Bad : \A j \in Bad : k <= j
        <4>1. Bad \subseteq Nat
          BY <1>1
        <4> HIDE DEF Bad
        <4> QED
          BY <4>1, NatMin
      <3> DEFINE i == (l + 1) - k
      <3>2. k \in 0..l /\ from[i] # SubSeq(left, i, l) \o right
        OBVIOUS
      <3> HIDE DEF Bad
      <3>3. i \in 1..l + 1 /\ i \in 1..L /\ i \in 1..L + 1
        <4>1. k \in 0..l
          BY <3>2
        <4> QED
          BY <1>1, <4>1
      <3>4. CASE k = 0
        <4>1. i = l + 1 /\ ~(i > L) /\ i + n - 1 <= L /\ i + n = l + n + 1 /\ i + n \in l + n + 1..L + 1
          BY <1>1, <3>4
        <4> HIDE DEF i, Bad
        <4>2. from[i] = from[i + n]
          BY <1>5, <1>6, <3>3, <4>1
        <4>3. from[i + n] = right
          BY <1>7, <1>8, <4>1
        <4>4. SubSeq(left, i, l) \o right = right
          <5>1. SubSeq(left, i, l) = <<>>
            BY <1>1, <4>1, SubSeqEmpty
          <5> QED
            BY <5>1
        <4> QED
          BY <3>2, <4>2, <4>3, <4>4
      <3>5. CASE k # 0
        <4>1. i \in 1..l /\ i # l + 1 /\ ~(i > L)
          BY <1>1, <3>2, <3>5
        <4>2. k - 1 \in 0..l /\ k - 1 \notin Bad
          <5> HIDE DEF Bad, i
          <5> QED
            BY <3>1, <3>2, <3>5, <1>1
        <4>3. from[i + 1] = SubSeq(left, i + 1, l) \o right
          <5>1. (l + 1) - (k - 1) = i + 1
            BY <1>1, <3>2
          <5> HIDE DEF i
          <5> QED
            BY <4>2, <5>1 DEF Bad
        <4> HIDE DEF i, Bad
        <4>4. from[i] = <<text[i]>> \o from[i + 1] /\ text[i] = left[i]
          BY <1>2, <1>5, <1>6, <3>3, <4>1
        <4>5. SubSeq(left, i, l) \o right = <<left[i]>> \o (SubSeq(left, i + 1, l) \o right)
          BY <1>12, <4>1
        <4> QED
          BY <3>2, <4>3, <4>4, <4>5
      <3> QED
        BY <3>4, <3>5
    <2> SUFFICES ASSUME NEW i \in 1..l + 1 PROVE from[i] = SubSeq(left, i, l) \o right
      OBVIOUS
    <2>2. (l + 1) - i \in 0..l /\ (l + 1) - ((l + 1) - i) = i
      BY <1>1
    <2> QED
      BY <2>1, <2>2
  <1>10. SubSeq(left, 1, l) = left
    BY SubSeqFull DEF l
  <1>11. from[1] = left \o right
    <2>1. 1 \in 1..l + 1
      BY <1>1
    <2> QED
      BY <1>9, <1>10, <2>1
  <1> QED
    BY <1>3, <1>11 DEF text

-----------------------------------------------------------------------------
(* Folds: FoldLeft is a recursive function on the subsets of 1..Len(seq).  *)

LEMMA MaxOf ==
  ASSUME NEW n \in Nat, NEW s \in SUBSET (1..n), s # {}
  PROVE  Max(s) \in s /\ \A y \in s : Max(s) >= y
  <1> DEFINE T == {n - x : x \in s}
  <1>1. T \subseteq Nat /\ T # {}
    <2>1. \A x \in s : x \in Nat /\ n - x \in Nat
      OBVIOUS
    <2> QED
      BY <2>1
  <1>2. PICK t \in T : \A y \in T : t <= y
    BY <1>1, NatMin
  <1>3. PICK x \in s : t = n - x
    BY <1>2
  <1>4. \A y \in s : x >= y
    <2> SUFFICES ASSUME NEW y \in s PROVE x >= y
      OBVIOUS
    <2>1. n - y \in T /\ x \in Int /\ y \in Int
      OBVIOUS
    <2>2. n - x <= n - y
      BY <2>1, <1>2, <1>3
    <2> QED
      BY <2>1, <2>2
  <1> QED
    BY <1>4 DEF Max

(* The folds of the decoder and of the extractor, one step of each *)
Step(what, root, acc, x) ==
  IF what = "remove" THEN RemoveAll(acc, x)
  ELSE IF what = "subst" THEN AddSubst(acc, x)
  ELSE IfValued(acc, x.path, x.all, Values(root, x))

Folding(g, what, root, base, seq, m) ==
  g = [s \in SUBSET (1..m) |->
         IF s = {} THEN base ELSE Step(what, root, g[s \ {Max(s)}], seq[Max(s)])]

(* There is a function that folds every prefix of a sequence. *)
LEMMA FoldingExists ==
  ASSUME NEW what, NEW root, NEW base, NEW seq
  PROVE  \A m \in Nat : \E g : Folding(g, what, root, base, seq, m)
  <1> DEFINE Next1(g, s) == Step(what, root, g[s \ {Max(s)}], seq[Max(s)])
             Eqn(g, m) == Folding(g, what, root, base, seq, m)
             Bad == {m \in Nat : ~ \E g : Eqn(g, m)}
  <1>1. \A g, m : Eqn(g, m) <=> g = [s \in SUBSET (1..m) |-> IF s = {} THEN base ELSE Next1(g, s)]
    BY DEF Folding
  <1> HIDE DEF Eqn
  <1>2. ASSUME NEW m \in Nat, m > 0, NEW g, NEW h, NEW s \in SUBSET (1..m), s # {},
               \A t \in SUBSET (1..m - 1) : g[t] = h[t]
        PROVE  Next1(g, s) = Next1(h, s)
    <2>1. Max(s) \in 1..m /\ \A y \in s : Max(s) >= y
      BY <1>2, MaxOf
    <2>2. s \ {Max(s)} \in SUBSET (1..m - 1)
      <3> DEFINE x == Max(s)
      <3> HIDE DEF x
      <3>1. x \in 1..m /\ \A y \in s : x >= y
        BY <2>1 DEF x
      <3>2. ASSUME NEW y \in s, y # x PROVE y \in 1..m - 1
        <4>1. y \in 1..m /\ x >= y
          BY <3>1
        <4> QED
          BY <4>1, <3>1, <3>2, <1>2
      <3> QED
        BY <3>2 DEF x
    <2> QED
      BY <2>2, <1>2
  <1> HIDE DEF Next1
  <1>3. SUFFICES ASSUME Bad # {} PROVE FALSE
    BY DEF Eqn
  <1>4. PICK m \in Bad : \A k \in Bad : m <= k
    <2>1. Bad \subseteq Nat
      OBVIOUS
    <2> HIDE DEF Bad
    <2> QED
      BY <1>3, <2>1, NatMin
  <1>5. m \in Nat /\ ~ \E g : Eqn(g, m)
    OBVIOUS
  <1>6. m # 0
    <2> DEFINE g == [s \in SUBSET (1..0) |-> base]
    <2>1. SUBSET (1..0) = {{}}
      OBVIOUS
    <2>2. Eqn(g, 0)
      BY <1>1, <2>1
    <2> HIDE DEF g
    <2> QED
      BY <1>5, <2>2
  <1>7. m - 1 \in Nat /\ m - 1 \notin Bad
    <2> HIDE DEF Bad
    <2> QED
      BY <1>4, <1>5, <1>6
  <1>8. PICK g : Eqn(g, m - 1)
    BY <1>7
  <1> DEFINE h == [s \in SUBSET (1..m) |-> IF s = {} THEN base ELSE Next1(g, s)]
  <1>9. \A t \in SUBSET (1..m - 1) : g[t] = h[t]
    <2> SUFFICES ASSUME NEW t \in SUBSET (1..m - 1) PROVE g[t] = h[t]
      OBVIOUS
    <2>1. t \in SUBSET (1..m)
      BY <1>5, <1>7
    <2>2. g[t] = IF t = {} THEN base ELSE Next1(g, t)
      BY <1>1, <1>8
    <2> QED
      BY <2>1, <2>2
  <1>10. Eqn(h, m)
    <2>1. \A s \in SUBSET (1..m) : s # {} => Next1(g, s) = Next1(h, s)
      <3> HIDE DEF h, Bad
      <3>1. m > 0
        BY <1>5, <1>6
      <3> QED
        BY <1>2, <1>5, <1>9, <3>1
    <2>2. h = [s \in SUBSET (1..m) |-> IF s = {} THEN base ELSE Next1(h, s)]
      <3> SUFFICES ASSUME NEW s \in SUBSET (1..m)
                   PROVE  h[s] = IF s = {} THEN base ELSE Next1(h, s)
        OBVIOUS
      <3>1. h[s] = IF s = {} THEN base ELSE Next1(g, s)
        OBVIOUS
      <3> HIDE DEF h
      <3> QED
        BY <2>1, <3>1
    <2> HIDE DEF h
    <2> QED
      BY <1>1, <2>2
  <1> HIDE DEF h
  <1> QED
    BY <1>5, <1>10

(* The values that a fold goes through *)
Chain(f, what, root, base, seq, n) ==
  f[0] = base /\ \A k \in 1..n : f[k] = Step(what, root, f[k - 1], seq[k])

(* Such a function is a chain of results, one for each element. *)
LEMMA FoldingChain ==
  ASSUME NEW what, NEW root, NEW base, NEW seq, NEW n \in Nat, NEW g,
         Folding(g, what, root, base, seq, n)
  PROVE  \E f : Chain(f, what, root, base, seq, n) /\ f[n] = g[1..n]
  <1> DEFINE f == [k \in 0..n |-> g[1..k]]
  <1>1. f[0] = base
    <2>1. 1..0 = {} /\ {} \in SUBSET (1..n) /\ 0 \in 0..n
      OBVIOUS
    <2> QED
      BY <2>1 DEF Folding
  <1>2. ASSUME NEW k \in 1..n PROVE f[k] = Step(what, root, f[k - 1], seq[k])
    <2>1. 1..k \in SUBSET (1..n) /\ 1..k # {} /\ k \in 0..n /\ k - 1 \in 0..n
      OBVIOUS
    <2>2. Max(1..k) = k
      <3>1. Max(1..k) \in 1..k /\ \A y \in 1..k : Max(1..k) >= y
        BY <2>1, MaxOf
      <3> QED
        BY <3>1
    <2>3. (1..k) \ {k} = 1..k - 1
      OBVIOUS
    <2>4. g[1..k] = Step(what, root, g[(1..k) \ {Max(1..k)}], seq[Max(1..k)])
      BY <2>1 DEF Folding
    <2> QED
      BY <2>1, <2>2, <2>3, <2>4
  <1>3. f[n] = g[1..n]
    OBVIOUS
  <1> HIDE DEF f
  <1> QED
    BY <1>1, <1>2, <1>3 DEF Chain

(* The fold over the noises is such a chain. *)
LEMMA FoldRemovals ==
  ASSUME NEW base, NEW S, NEW seq \in Seq(S)
  PROVE  \E f : /\ Chain(f, "remove", 0, base, seq, Len(seq))
                /\ f[Len(seq)] = FoldLeft(RemoveAll, base, seq)
  <1> DEFINE n == Len(seq)
             Eqn(g) == g = [s \in SUBSET (1..n) |->
                              IF s = {} THEN base ELSE RemoveAll(g[s \ {Max(s)}], seq[Max(s)])]
             iter == CHOOSE g : Eqn(g)
  <1>1. n \in Nat /\ DOMAIN seq = 1..n
    OBVIOUS
  <1>2. FoldLeft(RemoveAll, base, seq) = iter[1..n]
    BY <1>1 DEF FoldLeft, MapThenFoldSet
  <1>3. \A g : Eqn(g) <=> Folding(g, "remove", 0, base, seq, n)
    BY DEF Folding, Step
  <1> HIDE DEF Eqn, n
  <1>4. PICK g : Eqn(g)
    BY <1>1, <1>3, FoldingExists
  <1>5. Folding(iter, "remove", 0, base, seq, n)
    BY <1>3, <1>4
  <1> HIDE DEF iter
  <1>6. PICK f : Chain(f, "remove", 0, base, seq, n) /\ f[n] = iter[1..n]
    BY <1>1, <1>5, FoldingChain
  <1> QED
    BY <1>2, <1>6 DEF n

(* The fold over the substitutions is such a chain. *)
LEMMA FoldSubsts ==
  ASSUME NEW base, NEW S, NEW seq \in Seq(S)
  PROVE  \E f : /\ Chain(f, "subst", 0, base, seq, Len(seq))
                /\ f[Len(seq)] = FoldLeft(AddSubst, base, seq)
  <1> DEFINE n == Len(seq)
             Eqn(g) == g = [s \in SUBSET (1..n) |->
                              IF s = {} THEN base ELSE AddSubst(g[s \ {Max(s)}], seq[Max(s)])]
             iter == CHOOSE g : Eqn(g)
  <1>1. n \in Nat /\ DOMAIN seq = 1..n
    OBVIOUS
  <1>2. FoldLeft(AddSubst, base, seq) = iter[1..n]
    BY <1>1 DEF FoldLeft, MapThenFoldSet
  <1>3. \A g : Eqn(g) <=> Folding(g, "subst", 0, base, seq, n)
    BY DEF Folding, Step
  <1> HIDE DEF Eqn, n
  <1>4. PICK g : Eqn(g)
    BY <1>1, <1>3, FoldingExists
  <1>5. Folding(iter, "subst", 0, base, seq, n)
    BY <1>3, <1>4
  <1> HIDE DEF iter
  <1>6. PICK f : Chain(f, "subst", 0, base, seq, n) /\ f[n] = iter[1..n]
    BY <1>1, <1>5, FoldingChain
  <1> QED
    BY <1>2, <1>6 DEF n

(* The fold over the mappings is such a chain. *)
LEMMA FoldValues ==
  ASSUME NEW root, NEW S, NEW seq \in Seq(S)
  PROVE  \E f : /\ Chain(f, "value", root, Empty, seq, Len(seq))
                /\ f[Len(seq)] = parseSelection(root, seq)
  <1> DEFINE n == Len(seq)
             Eqn(g) == g = [s \in SUBSET (1..n) |->
                              IF s = {} THEN Empty
                              ELSE IfValued(g[s \ {Max(s)}], seq[Max(s)].path, seq[Max(s)].all,
                                            Values(root, seq[Max(s)]))]
             iter == CHOOSE g : Eqn(g)
  <1>1. n \in Nat /\ DOMAIN seq = 1..n
    OBVIOUS
  <1>2. parseSelection(root, seq) = iter[1..n]
    BY <1>1 DEF parseSelection, FoldLeft, MapThenFoldSet
  <1>3. \A g : Eqn(g) <=> Folding(g, "value", root, Empty, seq, n)
    BY DEF Folding, Step
  <1> HIDE DEF Eqn, n
  <1>4. PICK g : Eqn(g)
    BY <1>1, <1>3, FoldingExists
  <1>5. Folding(iter, "value", root, Empty, seq, n)
    BY <1>3, <1>4
  <1> HIDE DEF iter
  <1>6. PICK f : Chain(f, "value", root, Empty, seq, n) /\ f[n] = iter[1..n]
    BY <1>1, <1>5, FoldingChain
  <1> QED
    BY <1>2, <1>6 DEF n

-----------------------------------------------------------------------------
(* The directives of a script *)

LEMMA FlattenFew ==
  ASSUME NEW S, NEW a \in Seq(S), NEW b \in Seq(S)
  PROVE  /\ FlattenSeq(<<a>>) = a /\ FlattenSeq(<<a, b>>) = a \o b
  <1>0. <<>> \o a = a
    BY ConcatEmptySeq
  <1>1. FlattenSeq(<<a>>) = a
    <2>1. PICK f : Joins(f, <<a>>, 1, S)
      <3>1. <<a>> \in Seq(Seq(S)) /\ Len(<<a>>) = 1 /\ 1 \in Nat
        OBVIOUS
      <3> QED
        BY <3>1, FlattenIs
    <2>2. 1 \in 1..1 /\ 1 - 1 = 0 /\ <<a>>[1] = a
      OBVIOUS
    <2>3. f[0] = <<>> /\ f[1] = f[0] \o a /\ FlattenSeq(<<a>>) = f[1]
      BY <2>1, <2>2 DEF Joins
    <2> QED
      BY <1>0, <2>3, Zenon
  <1>2. FlattenSeq(<<a, b>>) = a \o b
    <2>1. PICK f : Joins(f, <<a, b>>, 2, S)
      <3>1. <<a, b>> \in Seq(Seq(S)) /\ Len(<<a, b>>) = 2 /\ 2 \in Nat
        OBVIOUS
      <3> QED
        BY <3>1, FlattenIs
    <2>2. /\ 1 \in 1..2 /\ 2 \in 1..2 /\ 1 - 1 = 0 /\ 2 - 1 = 1
          /\ <<a, b>>[1] = a /\ <<a, b>>[2] = b
      OBVIOUS
    <2>3. f[0] = <<>> /\ f[1] = f[0] \o a /\ f[2] = f[1] \o b /\ FlattenSeq(<<a, b>>) = f[2]
      <3>1. \A k \in 1..2 : f[k] = f[k - 1] \o <<a, b>>[k]
        BY <2>1 DEF Joins
      <3>2. f[1] = f[1 - 1] \o <<a, b>>[1] /\ f[2] = f[2 - 1] \o <<a, b>>[2]
        BY <2>2, <3>1, Zenon
      <3>3. f[0] = <<>> /\ FlattenSeq(<<a, b>>) = f[2]
        BY <2>1 DEF Joins
      <3> QED
        BY <2>2, <3>2, <3>3
    <2> QED
      BY <1>0, <2>3, Zenon
  <1> QED
    BY <1>1, <1>2

(* Two sequences after an empty one. *)
LEMMA FlattenLast ==
  ASSUME NEW S, NEW b \in Seq(S), NEW c \in Seq(S)
  PROVE  FlattenSeq(<< <<>>, b, c >>) = b \o c
  <1> DEFINE a == <<>>
  <1>0. a \in Seq(S) /\ a = <<>> /\ a \o a = a /\ a \o b = b
    BY ConcatEmptySeq
  <1> HIDE DEF a
  <1>1. PICK f : Joins(f, <<a, b, c>>, 3, S)
    <2>1. <<a, b, c>> \in Seq(Seq(S)) /\ Len(<<a, b, c>>) = 3 /\ 3 \in Nat
      BY <1>0
    <2> QED
      BY <2>1, FlattenIs
  <1>2. /\ 1 \in 1..3 /\ 2 \in 1..3 /\ 3 \in 1..3 /\ 1 - 1 = 0 /\ 2 - 1 = 1 /\ 3 - 1 = 2
        /\ <<a, b, c>>[1] = a /\ <<a, b, c>>[2] = b /\ <<a, b, c>>[3] = c
    OBVIOUS
  <1>3. /\ f[0] = <<>> /\ f[1] = f[0] \o a /\ f[2] = f[1] \o b /\ f[3] = f[2] \o c
        /\ FlattenSeq(<<a, b, c>>) = f[3]
    <2>1. \A k \in 1..3 : f[k] = f[k - 1] \o <<a, b, c>>[k]
      BY <1>1 DEF Joins
    <2>2. /\ f[1] = f[1 - 1] \o <<a, b, c>>[1] /\ f[2] = f[2 - 1] \o <<a, b, c>>[2]
          /\ f[3] = f[3 - 1] \o <<a, b, c>>[3]
      BY <1>2, <2>1, Zenon
    <2>3. f[0] = <<>> /\ FlattenSeq(<<a, b, c>>) = f[3]
      BY <1>1 DEF Joins
    <2> QED
      BY <1>2, <2>2, <2>3
  <1>4. FlattenSeq(<<a, b, c>>) = b \o c
    BY <1>0, <1>3, Zenon
  <1> QED
    BY <1>4 DEF a

(* A pair is its elements joined. *)
LEMMA Pair ==
  ASSUME NEW x, NEW y
  PROVE  <<x>> \o <<y>> = <<x, y>>
  <1>1. <<x>> \in Seq({x, y}) /\ <<y>> \in Seq({x, y}) /\ <<x, y>> \in Seq({x, y})
    OBVIOUS
  <1>2. Len(<<x>> \o <<y>>) = 2 /\ (<<x>> \o <<y>>)[1] = x /\ (<<x>> \o <<y>>)[2] = y
    BY <1>1
  <1>3. <<x>> \o <<y>> \in Seq({x, y})
    BY <1>1, ConcatProperties
  <1> DEFINE s == <<x>> \o <<y>>
             t == <<x, y>>
  <1>4. Len(s) = Len(t) /\ Len(s) = 2
    BY <1>2
  <1>5. \A i \in 1..Len(s) : s[i] = t[i]
    <2>1. \A i \in 1..2 : i = 1 \/ i = 2
      OBVIOUS
    <2> QED
      BY <1>2, <1>4, <2>1
  <1>6. s \in Seq({x, y}) /\ t \in Seq({x, y})
    BY <1>1, <1>3
  <1> HIDE DEF s, t
  <1>7. s = t
    BY <1>4, <1>5, <1>6, SeqEqual
  <1> QED
    BY <1>7 DEF s, t

(* The directives of a script are the two of the address. *)
LEMMA ScriptTokens ==
  ASSUME NEW address, NEW how
  PROVE  Tokens(Script(address, how)) =
           <<Token(FALSE, how.noise, how.subst), Token(how.rot, <<>>, NoSubst)>>
  <1> DEFINE s == Script(address, how)
             t1 == Token(TRUE, <<"e">>, [h |-> "e"])
             t2 == [Token(TRUE, <<".">>, NoSubst) EXCEPT !.length = 5]
             t3 == Token(FALSE, how.noise, how.subst)
             t4 == Token(how.rot, <<>>, NoSubst)
             S == {t1, t2, t3, t4}
  <1>1. /\ DOMAIN s.classes = 1..2
        /\ s.classes[1] = [email |-> FALSE, tokens |-> <<t1>>]
        /\ s.classes[2] = [email |-> TRUE, tokens |-> <<t2, t3, t4>>]
    BY DEF Script
  <1>2. ~Carries(t2) /\ Carries(t3) /\ Carries(t4)
    BY DEF Carries, Token
  <1>3. <<>> \in Seq(S) /\ <<t1>> \in Seq(S) /\ <<t3>> \in Seq(S) /\ <<t4>> \in Seq(S)
        /\ <<t3, t4>> \in Seq(S)
    OBVIOUS
  <1> HIDE DEF s, t1, t2, t3, t4, S
  <1>4. ASSUME NEW I, 1 \notin I PROVE Kept(<<t1>>, I) = <<>>
    <2>1. [i \in DOMAIN <<t1>> |-> IF i \in I THEN <<<<t1>>[i]>> ELSE <<>>] = <<<<>>>>
      BY <1>4
    <2> QED
      BY <1>3, <2>1, FlattenFew DEF Kept
  <1>5. ASSUME NEW I, 1 \notin I, 2 \in I, 3 \in I PROVE Kept(<<t2, t3, t4>>, I) = <<t3, t4>>
    <2>1. [i \in DOMAIN <<t2, t3, t4>> |-> IF i \in I THEN <<<<t2, t3, t4>>[i]>> ELSE <<>>]
          = << <<>>, <<t3>>, <<t4>> >>
      BY <1>5
    <2>2. FlattenSeq(<< <<>>, <<t3>>, <<t4>> >>) = <<t3>> \o <<t4>>
      BY <1>3, FlattenLast
    <2>3. <<t3>> \o <<t4>> = <<t3, t4>>
      BY Pair, Zenon
    <2> QED
      BY <2>1, <2>2, <2>3 DEF Kept
  <1> DEFINE K(i) == {k \in DOMAIN s.classes[i].tokens :
                        s.classes[i].email /\ Carries(s.classes[i].tokens[k])}
  <1>6. 1 \notin K(1)
    BY <1>1
  <1>7. 1 \notin K(2) /\ 2 \in K(2) /\ 3 \in K(2)
    BY <1>1, <1>2
  <1>8. Tokens(s) = FlattenSeq([i \in DOMAIN s.classes |-> Kept(s.classes[i].tokens, K(i))])
    BY DEF Tokens
  <1> HIDE DEF K
  <1>9. [i \in DOMAIN s.classes |-> Kept(s.classes[i].tokens, K(i))] = << <<>>, <<t3, t4>> >>
    <2>1. Kept(s.classes[1].tokens, K(1)) = <<>> /\ Kept(s.classes[2].tokens, K(2)) = <<t3, t4>>
      BY <1>1, <1>4, <1>5, <1>6, <1>7
    <2> QED
      BY <1>1, <2>1
  <1>10. FlattenSeq(<< <<>>, <<t3, t4>> >>) = <<>> \o <<t3, t4>>
    BY <1>3, FlattenFew
  <1>11. Tokens(s) = <<t3, t4>>
    BY <1>3, <1>8, <1>9, <1>10, ConcatEmptySeq
  <1> QED
    BY <1>11 DEF s, t3, t4

(* What is asked for: the noise, if there is any, the substitution and the *)
(* rotation of the address. *)
LEMMA Asked ==
  ASSUME NEW address, NEW how, Hides(how)
  PROVE  LET s == Script(address, how)
         IN /\ Removals(s) = IF how.noise = <<>> THEN <<>> ELSE <<how.noise>>
            /\ SubstObfToReal(s) = how.subst
            /\ Rot13Asked(s) = how.rot
            /\ s.found = TRUE /\ s.a = Hidden(address, how)
  <1> DEFINE s == Script(address, how)
             t == Token(FALSE, how.noise, how.subst)
             u == Token(how.rot, <<>>, NoSubst)
  <1>1. Tokens(s) = <<t, u>>
    BY ScriptTokens
  <1>2. /\ t.object.rmv = how.noise /\ t.object.subst = how.subst /\ t.object.rot = FALSE
        /\ u.object.rmv = <<>> /\ u.object.subst = NoSubst /\ u.object.rot = how.rot
    BY DEF Token
  <1>3. s.found = TRUE /\ s.a = Hidden(address, how)
    BY DEF Script
  <1> HIDE DEF s, t, u
  <1>4. Rot13Asked(s) = how.rot
    <2>1. how.rot \in BOOLEAN
      BY DEF Hides
    <2>2. DOMAIN <<t, u>> = {1, 2} /\ <<t, u>>[1] = t /\ <<t, u>>[2] = u
      OBVIOUS
    <2> QED
      BY <1>1, <1>2, <2>1, <2>2 DEF Rot13Asked
  <1>5. Removals(s) = IF how.noise = <<>> THEN <<>> ELSE <<how.noise>>
    <2> DEFINE rmvs == [i \in DOMAIN <<t, u>> |-> <<t, u>>[i].object.rmv]
               I == {i \in DOMAIN rmvs : rmvs[i] # <<>>}
               S == {how.noise}
    <2>1. rmvs = <<how.noise, <<>>>>
      BY <1>2
    <2>2. Removals(s) = Kept(rmvs, I)
      BY <1>1 DEF Removals
    <2>3. 2 \notin I /\ (1 \in I <=> how.noise # <<>>) /\ DOMAIN rmvs = 1..2
      BY <2>1
    <2>4. <<>> \in Seq(S) /\ <<how.noise>> \in Seq(S)
      OBVIOUS
    <2> HIDE DEF I, S
    <2>5. [i \in DOMAIN rmvs |-> IF i \in I THEN <<rmvs[i]>> ELSE <<>>]
          = << IF 1 \in I THEN <<rmvs[1]>> ELSE <<>>, <<>> >>
      <3> HIDE DEF rmvs
      <3> QED
        BY <2>3
    <2>6. Kept(rmvs, I) = FlattenSeq(<< IF how.noise # <<>> THEN <<how.noise>> ELSE <<>>, <<>> >>)
      BY <2>1, <2>3, <2>5 DEF Kept
    <2> HIDE DEF rmvs
    <2>7. CASE how.noise = <<>>
      <3>1. Kept(rmvs, I) = FlattenSeq(<< <<>>, <<>> >>)
        BY <2>6, <2>7
      <3>2. FlattenSeq(<< <<>>, <<>> >>) = <<>> \o <<>>
        BY <2>4, FlattenFew
      <3> QED
        BY <2>2, <2>7, <3>1, <3>2
    <2>8. CASE how.noise # <<>>
      <3>1. Kept(rmvs, I) = FlattenSeq(<< <<how.noise>>, <<>> >>)
        BY <2>6, <2>8
      <3>2. FlattenSeq(<< <<how.noise>>, <<>> >>) = <<how.noise>> \o <<>>
        BY <2>4, FlattenFew
      <3> QED
        BY <2>2, <2>8, <3>1, <3>2
    <2> QED
      BY <2>7, <2>8
  <1>6. SubstObfToReal(s) = how.subst
    <2>1. <<t, u>> \in Seq({t, u}) /\ Len(<<t, u>>) = 2 /\ <<t, u>>[1] = t /\ <<t, u>>[2] = u
      OBVIOUS
    <2>2. PICK f : /\ Chain(f, "subst", 0, NoSubst, <<t, u>>, 2)
                   /\ f[2] = FoldLeft(AddSubst, NoSubst, <<t, u>>)
      BY <2>1, FoldSubsts
    <2>3. f[1] = AddSubst(NoSubst, t) /\ f[2] = AddSubst(f[1], u)
      <3>1. f[0] = NoSubst /\ \A k \in 1..2 : f[k] = Step("subst", 0, f[k - 1], <<t, u>>[k])
        BY <2>2 DEF Chain
      <3>2. f[1] = Step("subst", 0, f[0], t) /\ f[2] = Step("subst", 0, f[1], u)
        BY <2>1, <3>1
      <3> QED
        BY <3>1, <3>2 DEF Step
    <2>4. how.subst = [hid \in DOMAIN how.subst |-> how.subst[hid]] /\ DOMAIN NoSubst = {}
      <3>1. how.subst \in [DOMAIN how.subst -> Letter]
        BY DEF Hides
      <3> DEFINE m == how.subst
                 D == DOMAIN how.subst
      <3>2. m \in [D -> Letter]
        BY <3>1
      <3> HIDE DEF m, D
      <3>3. m = [hid \in D |-> m[hid]]
        BY <3>2
      <3>4. DOMAIN NoSubst = {}
        BY DEF NoSubst
      <3> QED
        BY <3>3, <3>4, Zenon DEF m, D
    <2>5. AddSubst(NoSubst, t) = how.subst
      BY <1>2, <2>4 DEF AddSubst
    <2>6. AddSubst(how.subst, u) = how.subst
      BY <1>2, <2>4 DEF AddSubst
    <2> QED
      BY <1>1, <2>2, <2>3, <2>5, <2>6 DEF SubstObfToReal
  <1> QED
    BY <1>3, <1>4, <1>5, <1>6 DEF s

(* The only noise removed is that of the address. *)
LEMMA Cleaned ==
  ASSUME NEW address, NEW how, Hides(how), NEW clear
  PROVE  FoldLeft(RemoveAll, clear, Removals(Script(address, how))) =
           IF how.noise = <<>> THEN clear ELSE RemoveAll(clear, how.noise)
  <1> DEFINE rs == Removals(Script(address, how))
  <1>1. rs = IF how.noise = <<>> THEN <<>> ELSE <<how.noise>>
    BY Asked
  <1> HIDE DEF rs
  <1>2. rs \in Seq({how.noise})
    <2>1. <<>> \in Seq({how.noise}) /\ <<how.noise>> \in Seq({how.noise})
      OBVIOUS
    <2> QED
      BY <1>1, <2>1, Zenon
  <1>3. PICK f : /\ Chain(f, "remove", 0, clear, rs, Len(rs))
                 /\ f[Len(rs)] = FoldLeft(RemoveAll, clear, rs)
    BY <1>2, FoldRemovals
  <1>4. CASE how.noise = <<>>
    <2>1. Len(rs) = 0
      BY <1>1, <1>4
    <2> QED
      BY <1>3, <1>4, <2>1 DEF Chain, rs
  <1>5. CASE how.noise # <<>>
    <2>1. Len(rs) = 1 /\ rs[1] = how.noise
      BY <1>1, <1>5
    <2>2. f[0] = clear /\ f[1] = Step("remove", 0, f[1 - 1], rs[1])
      BY <1>3, <2>1 DEF Chain
    <2>3. f[1] = RemoveAll(clear, how.noise)
      BY <2>1, <2>2 DEF Step
    <2> QED
      BY <1>3, <1>5, <2>1, <2>3 DEF rs
  <1> QED
    BY <1>4, <1>5

-----------------------------------------------------------------------------
(* How an address is hidden, step by step *)

Sign == Letter \cup {"@", "."}

Symbol == Sign \cup {"mailto:", "znvygb:"}

(* The marks are no letters. *)
LEMMA Marks ==
  /\ "mailto:" \notin Letter /\ "znvygb:" \notin Letter /\ "&#64;" \notin Letter
  /\ "@" \notin Letter /\ "." \notin Letter
  BY LetterFacts

(* An address is a sequence of letters and marks. *)
LEMMA AddressType ==
  ASSUME NEW address, IsSequence(address), looksLikeEmail(address)
  PROVE  address \in Seq(Sign) /\ address # <<>> /\ Len(address) \in Nat
  <1>1. address \in Seq({address[i] : i \in 1..Len(address)}) /\ DOMAIN address = 1..Len(address)
    BY IsSeq
  <1>2. \A i \in DOMAIN address : address[i] \in Sign
    BY DEF looksLikeEmail, Sign
  <1>3. address # <<>>
    BY DEF looksLikeEmail
  <1>4. address = [i \in 1..Len(address) |-> address[i]] /\ Len(address) \in Nat
    BY DEF IsSequence
  <1> DEFINE n == Len(address)
  <1> HIDE DEF n
  <1>5. [i \in 1..n |-> address[i]] \in Seq(Sign)
    BY <1>1, <1>2, <1>4 DEF n
  <1> QED
    BY <1>3, <1>4, <1>5 DEF n

Bare(address, how) == IF how.mailto THEN <<"mailto:">> \o address ELSE address

(* "mailto:" is only at the front, and is trimmed there. *)
LEMMA BareType ==
  ASSUME NEW address \in Seq(Sign), address # <<>>, NEW how
  PROVE  /\ Bare(address, how) \in Seq(Symbol) /\ Bare(address, how) # <<>>
         /\ \A i \in 1..Len(Bare(address, how)) : Bare(address, how)[i] # "znvygb:"
         /\ Bare(address, how)[1] = "mailto:" => how.mailto
         /\ TrimMailto(Bare(address, how)) = address /\ TrimMailto(address) = address
         /\ how.mailto => Tail(Bare(address, how)) = address
  <1> DEFINE full == <<"mailto:">> \o address
  <1>1. \A i \in 1..Len(address) : address[i] \in Sign /\ address[i] # "znvygb:" /\ address[i] # "mailto:"
    <2>1. \A s \in Sign : s # "znvygb:" /\ s # "mailto:"
      BY Marks DEF Sign
    <2>2. \A i \in 1..Len(address) : address[i] \in Sign
      OBVIOUS
    <2> QED
      BY <2>1, <2>2
  <1>2. address \in Seq(Symbol) /\ <<"mailto:">> \in Seq(Symbol)
    <2>1. Sign \subseteq Symbol /\ "mailto:" \in Symbol
      BY DEF Symbol
    <2> QED
      BY <2>1
  <1>3. full \in Seq(Symbol) /\ full # <<>> /\ Len(full) = Len(address) + 1 /\ full[1] = "mailto:"
    BY <1>2
  <1>4. \A i \in 1..Len(full) : full[i] # "znvygb:"
    <2> SUFFICES ASSUME NEW i \in 1..Len(full) PROVE full[i] # "znvygb:"
      OBVIOUS
    <2>1. i = 1 \/ (i - 1 \in 1..Len(address) /\ full[i] = address[i - 1])
      BY <1>2, <1>3
    <2> QED
      BY <1>1, <1>3, <2>1
  <1>5. Tail(full) = address
    <2>1. Tail(full) \in Seq(Symbol) /\ Len(Tail(full)) = Len(address)
      BY <1>3
    <2>2. \A i \in 1..Len(address) : Tail(full)[i] = address[i]
      BY <1>2, <1>3
    <2> QED
      BY <1>2, <2>1, <2>2, SeqEqual
  <1>6. address[1] # "mailto:"
    BY <1>1
  <1> HIDE DEF full
  <1>7. TrimMailto(full) = address /\ TrimMailto(address) = address
    BY <1>3, <1>5, <1>6 DEF TrimMailto
  <1>8. Bare(address, how) = IF how.mailto THEN full ELSE address
    BY DEF Bare, full
  <1> QED
    BY <1>1, <1>2, <1>3, <1>4, <1>5, <1>6, <1>7, <1>8

(* Rotation is its own inverse. *)
LEMMA RotTwice ==
  ASSUME NEW text \in Seq(Symbol)
  PROVE  rot13(text) \in Seq(Symbol) /\ Len(rot13(text)) = Len(text) /\ rot13(rot13(text)) = text
  <1>1. \A s \in Symbol : Rot13Of(s) \in Symbol /\ Rot13Of(Rot13Of(s)) = s
    <2> SUFFICES ASSUME NEW s \in Symbol PROVE Rot13Of(s) \in Symbol /\ Rot13Of(Rot13Of(s)) = s
      OBVIOUS
    <2>1. CASE s \in Letter
      BY <2>1, LetterFacts, RotFacts DEF Symbol, Sign
    <2>2. CASE s \notin Letter
      BY <2>2, Marks, RotFacts DEF Symbol, Sign
    <2> QED
      BY <2>1, <2>2
  <1> DEFINE n == Len(text)
  <1>2. n \in Nat /\ DOMAIN text = 1..n /\ text = [i \in 1..n |-> text[i]] /\ \A i \in 1..n : text[i] \in Symbol
    OBVIOUS
  <1> HIDE DEF n
  <1>3. rot13(text) = [i \in 1..n |-> Rot13Of(text[i])]
    BY <1>2 DEF rot13
  <1> DEFINE t == [i \in 1..n |-> Rot13Of(text[i])]
  <1>4. t \in Seq(Symbol) /\ Len(t) = n /\ DOMAIN t = 1..n
    BY <1>1, <1>2
  <1>5. \A i \in 1..n : Rot13Of(t[i]) = text[i]
    BY <1>1, <1>2
  <1> HIDE DEF t
  <1>6. rot13(t) = text
    <2>1. rot13(t) = [i \in 1..n |-> Rot13Of(t[i])]
      BY <1>4 DEF rot13
    <2>2. [i \in 1..n |-> Rot13Of(t[i])] = [i \in 1..n |-> text[i]]
      BY <1>5
    <2> QED
      BY <1>2, <2>1, <2>2
  <1> QED
    BY <1>3, <1>4, <1>6 DEF t, n

(* A second rot13 undoes the first. *)
LEMMA RotatedIs ==
  ASSUME NEW address \in Seq(Sign), address # <<>>, NEW how
  PROVE  LET shown == Rotated(address, how)
         IN /\ shown \in Seq(Symbol) /\ shown # <<>>
            /\ (IF how.rot THEN rot13(shown) ELSE shown) = Bare(address, how)
            /\ shown[1] = "mailto:" => ~how.rot /\ how.mailto
  <1> DEFINE p == Bare(address, how)
             shown == Rotated(address, how)
  <1>1. /\ p \in Seq(Symbol) /\ p # <<>> /\ \A i \in 1..Len(p) : p[i] # "znvygb:"
        /\ p[1] = "mailto:" => how.mailto
    BY BareType
  <1>2. shown = IF how.rot THEN rot13(p) ELSE p
    BY DEF Rotated, Bare
  <1> HIDE DEF p, shown
  <1>3. CASE how.rot
    <2>1. shown = rot13(p) /\ shown \in Seq(Symbol) /\ Len(shown) = Len(p) /\ rot13(shown) = p
      BY <1>1, <1>2, <1>3, RotTwice
    <2>2. shown # <<>> /\ 1 \in 1..Len(p) /\ DOMAIN p = 1..Len(p)
      BY <1>1, <2>1
    <2>3. shown[1] = Rot13Of(p[1])
      BY <2>1, <2>2 DEF rot13
    <2>4. p[1] # "znvygb:" /\ p[1] \in Symbol
      BY <1>1, <2>2
    <2>5. Rot13Of(p[1]) # "mailto:"
      BY <2>4, RotFacts, LetterFacts, Marks
    <2> QED
      BY <1>3, <2>1, <2>2, <2>3, <2>5 DEF p, shown
  <1>4. CASE ~how.rot
    BY <1>1, <1>2, <1>4 DEF p, shown
  <1> QED
    BY <1>3, <1>4

(* The tail of a join. *)
LEMMA TailOfJoin ==
  ASSUME NEW S, NEW s \in Seq(S), NEW t \in Seq(S), s # <<>>
  PROVE  Tail(s \o t) = Tail(s) \o t
  <1> DEFINE st == s \o t
             rest == Tail(s)
             rt == rest \o t
             a == Len(s)
             b == Len(t)
  <1>1. rest \in Seq(S) /\ Len(rest) = a - 1 /\ \A j \in 1..Len(rest) : rest[j] = s[j + 1]
    BY HeadTailProperties
  <1>2. /\ st \in Seq(S) /\ Len(st) = a + b
        /\ \A j \in 1..a + b : st[j] = IF j <= a THEN s[j] ELSE t[j - a]
    BY ConcatProperties
  <1> HIDE DEF rest
  <1>3. /\ rt \in Seq(S) /\ Len(rt) = Len(rest) + b
        /\ \A j \in 1..Len(rest) + b : rt[j] = IF j <= Len(rest) THEN rest[j] ELSE t[j - Len(rest)]
    BY <1>1, ConcatProperties
  <1>4. a \in Nat \ {0} /\ b \in Nat
    OBVIOUS
  <1> HIDE DEF st, rt, a, b
  <1>5. /\ Tail(st) \in Seq(S) /\ Len(Tail(st)) = a + b - 1
        /\ \A j \in 1..Len(Tail(st)) : Tail(st)[j] = st[j + 1]
    <2>1. st # <<>>
      BY <1>2, <1>4
    <2>2. /\ Tail(st) \in Seq(S) /\ Len(Tail(st)) = Len(st) - 1
          /\ \A j \in 1..Len(Tail(st)) : Tail(st)[j] = st[j + 1]
      BY <1>2, <2>1, HeadTailProperties
    <2> QED
      BY <1>2, <1>4, <2>2
  <1>6. ASSUME NEW j \in 1..a + b - 1 PROVE Tail(st)[j] = rt[j]
    <2>1. /\ j \in 1..Len(rest) + b /\ j + 1 \in 1..a + b
          /\ (j <= Len(rest) <=> j + 1 <= a) /\ j - Len(rest) = (j + 1) - a
          /\ j \in 1..Len(Tail(st)) /\ (j <= Len(rest) => j \in 1..Len(rest))
      BY <1>1, <1>4, <1>5
    <2>2. Tail(st)[j] = st[j + 1]
      BY <1>5, <2>1
    <2>3. st[j + 1] = IF j + 1 <= a THEN s[j + 1] ELSE t[(j + 1) - a]
      BY <1>2, <2>1
    <2>4. rt[j] = IF j <= Len(rest) THEN rest[j] ELSE t[j - Len(rest)]
      BY <1>3, <2>1
    <2> QED
      BY <1>1, <2>1, <2>2, <2>3, <2>4
  <1>7. Len(rt) = a + b - 1
    BY <1>1, <1>3, <1>4
  <1>8. Tail(st) = rt
    BY <1>3, <1>5, <1>6, <1>7, SeqEqual
  <1> QED
    BY <1>8 DEF st, rt, rest

(* A text with noise put into it, foreign to the text and to the mark *)
NoiseIn(S, left, right, noise, head, text, full) ==
  /\ left \in Seq(S) /\ right \in Seq(S) /\ noise \in Seq(S)
  /\ \A i \in 1..Len(noise) : /\ noise[i] # "mailto:"
                              /\ \A j \in 1..Len(left) : noise[i] # left[j]
                              /\ \A j \in 1..Len(right) : noise[i] # right[j]
  /\ text = left \o right
  /\ head = left \o noise /\ full = head \o right

(* The noise is gone wherever it was put, and the mark with it or not. *)
LEMMA NoiseGone ==
  ASSUME NEW S, NEW left, NEW right, NEW noise, NEW head, NEW text, NEW full,
         NoiseIn(S, left, right, noise, head, text, full)
  PROVE  (IF noise = <<>> THEN TrimMailto(full) ELSE RemoveAll(TrimMailto(full), noise))
           \in {text, TrimMailto(text)}
  <1>0. /\ left \in Seq(S) /\ right \in Seq(S) /\ noise \in Seq(S)
        /\ \A i \in 1..Len(noise) : /\ noise[i] # "mailto:"
                                    /\ \A j \in 1..Len(left) : noise[i] # left[j]
                                    /\ \A j \in 1..Len(right) : noise[i] # right[j]
        /\ text = left \o right
        /\ head = left \o noise /\ full = head \o right
    BY DEF NoiseIn
  <1>4. \A i \in 1..Len(noise) : /\ \A j \in 1..Len(left) : noise[i] # left[j]
                                 /\ \A j \in 1..Len(right) : noise[i] # right[j]
    BY DEF NoiseIn
  <1> USE <1>0
  <1>1. CASE noise = <<>>
    <2>1. head = left
      BY <1>1, ConcatEmptySeq
    <2> QED
      BY <1>1, <2>1
  <1>2. CASE noise # <<>> /\ ~(left # <<>> /\ left[1] = "mailto:")
    <2>1. full # <<>> /\ full[1] # "mailto:"
      <3>1. head \in Seq(S) /\ head # <<>> /\ Len(head) = Len(left) + Len(noise)
        BY <1>2
      <3>2. head[1] # "mailto:"
        <4>1. CASE left = <<>>
          <5>1. head = noise
            BY <4>1, ConcatEmptySeq
          <5> QED
            BY <1>2, <5>1
        <4>2. CASE left # <<>>
          <5>1. head[1] = left[1]
            BY <4>2
          <5> QED
            BY <1>2, <4>2, <5>1
        <4> QED
          BY <4>1, <4>2
      <3>3. full # <<>> /\ full[1] = head[1]
        BY <3>1
      <3> QED
        BY <3>2, <3>3
    <2>2. TrimMailto(full) = full
      <3>1. ~(full # <<>> /\ Head(full) = "mailto:")
        BY <2>1 DEF Head
      <3> QED
        BY <3>1, Zenon DEF TrimMailto
    <2>3. RemoveAll(full, noise) = text
      <3>1. RemoveAll(head \o right, noise) = left \o right
        BY <1>2, <1>4, NoiseRemoved
      <3> QED
        BY <3>1
    <2> QED
      BY <1>2, <2>2, <2>3
  <1>3. CASE noise # <<>> /\ left # <<>> /\ left[1] = "mailto:"
    <2> DEFINE rest == Tail(left)
               head2 == rest \o noise
    <2>1. rest \in Seq(S) /\ Len(rest) = Len(left) - 1 /\ \A j \in 1..Len(rest) : rest[j] = left[j + 1]
      BY <1>3, HeadTailProperties
    <2>2. head \in Seq(S) /\ Len(head) = Len(left) + Len(noise) /\ head # <<>> /\ head[1] = "mailto:"
      BY <1>3
    <2>3. full \in Seq(S) /\ full # <<>> /\ full[1] = "mailto:" /\ Len(full) = Len(head) + Len(right)
      BY <2>2
    <2>4. Tail(head) = head2
      BY <1>3, TailOfJoin
    <2> HIDE DEF rest, head2
    <2>5. \A s \in Seq(S), t \in Seq(S) : s # <<>> => Tail(s \o t) = Tail(s) \o t
      BY TailOfJoin
    <2>6. Tail(full) = head2 \o right /\ Tail(text) = rest \o right
      BY <1>3, <2>2, <2>4, <2>5 DEF rest
    <2>7. TrimMailto(full) = Tail(full) /\ TrimMailto(text) = Tail(text)
      <3>1. text # <<>> /\ text[1] = "mailto:"
        BY <1>3
      <3>2. \A s : s # <<>> /\ s[1] = "mailto:" => TrimMailto(s) = Tail(s)
        BY DEF TrimMailto
      <3> QED
        BY <2>3, <3>1, <3>2, Zenon
    <2>8. RemoveAll(head2 \o right, noise) = rest \o right
      <3>1. \A i \in 1..Len(noise), j \in 1..Len(rest) : noise[i] # rest[j]
        <4> SUFFICES ASSUME NEW i \in 1..Len(noise), NEW j \in 1..Len(rest) PROVE noise[i] # rest[j]
          OBVIOUS
        <4>1. j + 1 \in 1..Len(left)
          BY <2>1
        <4> QED
          BY <2>1, <4>1
      <3>2. \A i \in 1..Len(noise) : /\ \A j \in 1..Len(rest) : noise[i] # rest[j]
                                     /\ \A j \in 1..Len(right) : noise[i] # right[j]
        BY <1>4, <3>1, Zenon
      <3>3. head2 = rest \o noise /\ rest \in Seq(S) /\ noise # <<>>
        BY <1>3, <2>1 DEF head2
      <3> QED
        BY <3>2, <3>3, NoiseRemoved
    <2> QED
      BY <1>3, <2>6, <2>7, <2>8
  <1> QED
    BY <1>1, <1>2, <1>3

(* Substitution is undone by the same map when what hides an address        *)
(* leaves it recoverable. *)
LEMMA Substituted ==
  ASSUME NEW address \in Seq(Sign), address # <<>>, NEW how, Hides(how), Recoverable(address, how)
  PROVE  LET shown == Rotated(address, how)
             text  == Replaced(shown, how.subst)
         IN /\ text \in Seq(Symbol) /\ Len(text) = Len(shown) /\ text # <<>>
            /\ applyCharSubst(text, how.subst) = shown
            /\ text[1] = "mailto:" => shown[1] = "mailto:"
            /\ applyCharSubst(Tail(text), how.subst) = Tail(shown)
  <1> DEFINE shown == Rotated(address, how)
             map == how.subst
             D == DOMAIN map
             text == Replaced(shown, map)
             n == Len(shown)
  <1>1. shown \in Seq(Symbol) /\ shown # <<>>
    BY RotatedIs
  <1>2. map \in [D -> Letter] /\ D \subseteq Letter
    BY DEF Hides
  <1>3. \A hid \in D : hid \in {shown[i] : i \in DOMAIN shown} => \E other \in D : map[other] = hid
    BY DEF Recoverable
  <1> HIDE DEF shown, map, D
  <1>4. n \in Nat \ {0} /\ DOMAIN shown = 1..n /\ \A i \in 1..n : shown[i] \in Symbol
    BY <1>1
  <1> HIDE DEF n
  <1>5. text = [i \in 1..n |-> IF \E hid \in D : map[hid] = shown[i]
                               THEN CHOOSE hid \in D : map[hid] = shown[i] ELSE shown[i]]
    BY <1>4 DEF Replaced, D
  <1> HIDE DEF text
  <1>6. ASSUME NEW i \in 1..n
        PROVE  /\ text[i] \in Symbol
               /\ (IF text[i] \in D THEN map[text[i]] ELSE text[i]) = shown[i]
               /\ text[i] = "mailto:" => shown[i] = "mailto:"
    <2>1. CASE \E hid \in D : map[hid] = shown[i]
      <3>1. text[i] = CHOOSE hid \in D : map[hid] = shown[i]
        BY <1>5, <2>1
      <3>2. text[i] \in D /\ map[text[i]] = shown[i]
        BY <2>1, <3>1
      <3>3. text[i] \in Letter
        BY <1>2, <3>2
      <3> QED
        BY <3>2, <3>3, Marks DEF Symbol, Sign
    <2>2. CASE ~ \E hid \in D : map[hid] = shown[i]
      <3>1. text[i] = shown[i]
        BY <1>5, <2>2
      <3>2. shown[i] \notin D
        BY <1>3, <1>4, <2>2
      <3> QED
        BY <1>4, <3>1, <3>2
    <2> QED
      BY <2>1, <2>2
  <1>7. text \in Seq(Symbol) /\ Len(text) = n /\ DOMAIN text = 1..n /\ text # <<>>
    <2> DEFINE t == [i \in 1..n |-> text[i]]
    <2>1. text = t
      BY <1>5
    <2>2. \A i \in 1..n : t[i] \in Symbol
      BY <1>6
    <2>3. t \in Seq(Symbol) /\ Len(t) = n /\ DOMAIN t = 1..n
      BY <1>4, <2>2
    <2> HIDE DEF t
    <2> QED
      BY <1>4, <2>1, <2>3
  <1>8. applyCharSubst(text, map) = shown
    <2>1. applyCharSubst(text, map) = [i \in 1..n |-> IF text[i] \in D THEN map[text[i]] ELSE text[i]]
      BY <1>7 DEF applyCharSubst, D
    <2>2. [i \in 1..n |-> IF text[i] \in D THEN map[text[i]] ELSE text[i]] = [i \in 1..n |-> shown[i]]
      BY <1>6
    <2>3. shown = [i \in 1..n |-> shown[i]]
      BY <1>1, <1>4
    <2> QED
      BY <2>1, <2>2, <2>3, Zenon
  <1>9. applyCharSubst(Tail(text), map) = Tail(shown)
    <2> DEFINE tt == Tail(text)
               ts == Tail(shown)
    <2>1. tt \in Seq(Symbol) /\ Len(tt) = n - 1 /\ \A j \in 1..n - 1 : tt[j] = text[j + 1]
      BY <1>7, HeadTailProperties
    <2>2. ts \in Seq(Symbol) /\ Len(ts) = n - 1 /\ \A j \in 1..n - 1 : ts[j] = shown[j + 1]
      BY <1>1, <1>4, HeadTailProperties DEF n
    <2> HIDE DEF tt, ts
    <2>3. applyCharSubst(tt, map) = [j \in 1..n - 1 |-> IF tt[j] \in D THEN map[tt[j]] ELSE tt[j]]
      <3>1. DOMAIN tt = 1..n - 1
        BY <2>1
      <3> QED
        BY <3>1 DEF applyCharSubst, D
    <2>4. \A j \in 1..n - 1 : (IF tt[j] \in D THEN map[tt[j]] ELSE tt[j]) = ts[j]
      <3> SUFFICES ASSUME NEW j \in 1..n - 1 PROVE (IF tt[j] \in D THEN map[tt[j]] ELSE tt[j]) = ts[j]
        OBVIOUS
      <3>1. j + 1 \in 1..n
        BY <1>4
      <3> QED
        BY <1>6, <2>1, <2>2, <3>1
    <2>5. ts = [j \in 1..n - 1 |-> ts[j]]
      BY <2>2
    <2>6. [j \in 1..n - 1 |-> IF tt[j] \in D THEN map[tt[j]] ELSE tt[j]] = [j \in 1..n - 1 |-> ts[j]]
      BY <2>4
    <2> QED
      BY <2>3, <2>5, <2>6 DEF tt, ts
  <1>10. text[1] = "mailto:" => shown[1] = "mailto:"
    BY <1>4, <1>6
  <1> QED
    BY <1>7, <1>8, <1>9, <1>10 DEF text, shown, map, n

(* What is in the script, its entities undone: the noise somewhere in the   *)
(* substituted text. *)
LEMMA HiddenIs ==
  ASSUME NEW address \in Seq(Sign), address # <<>>, NEW how, Hides(how), Recoverable(address, how)
  PROVE  LET text == Replaced(Rotated(address, how), how.subst)
         IN \E S, left, right, head :
              NoiseIn(S, left, right, how.noise, head, text, UnescapeString(Hidden(address, how)))
  <1> DEFINE text == Replaced(Rotated(address, how), how.subst)
             noise == how.noise
             L == Len(text)
             cut == IF how.place <= L THEN how.place ELSE L
             left == SubSeq(text, 1, cut)
             right == SubSeq(text, cut + 1, L)
             head == left \o noise
             full == head \o right
             S == Symbol \cup {noise[i] : i \in 1..Len(noise)}
  <1>1. text \in Seq(Symbol)
    BY Substituted
  <1>2. how.place \in Nat /\ IsSequence(noise) /\ how.entity \in BOOLEAN
        /\ \A i \in DOMAIN noise : noise[i] \notin {"&#64;", "mailto:"}
    BY DEF Hides
  <1>3. \A i \in DOMAIN noise, j \in DOMAIN text : noise[i] # text[j]
    <2>1. DOMAIN text = DOMAIN Rotated(address, how)
      BY DEF Replaced
    <2> QED
      BY <2>1 DEF Recoverable
  <1>4. noise \in Seq({noise[i] : i \in 1..Len(noise)}) /\ DOMAIN noise = 1..Len(noise) /\ Len(noise) \in Nat
    BY <1>2, IsSeq
  <1>5. Hidden(address, how) = [i \in DOMAIN full |-> IF full[i] = "@" /\ how.entity THEN "&#64;" ELSE full[i]]
    BY DEF Hidden
  <1>6. L \in Nat /\ cut \in 0..L /\ DOMAIN text = 1..L
    <2> HIDE DEF text
    <2>1. L \in Nat /\ DOMAIN text = 1..L
      BY <1>1
    <2>2. how.place \in Nat
      BY <1>2
    <2> HIDE DEF L
    <2> DEFINE p == how.place
    <2>3. p \in Nat /\ cut = IF p <= L THEN p ELSE L
      BY <2>2
    <2> HIDE DEF p, cut
    <2>4. cut \in 0..L
      BY <2>1, <2>3
    <2> QED
      BY <2>1, <2>4
  <1> HIDE DEF text, cut
  <1> HIDE DEF noise, L
  <1>7. left \in Seq(Symbol) /\ right \in Seq(Symbol) /\ left \o right = text
    <2>1. \A i \in 1..L : text[i] \in Symbol
      BY <1>1, <1>6
    <2>2. left \in Seq(Symbol)
      <3>1. 1 \in Int /\ cut \in Int /\ \A i \in 1..cut : text[i] \in Symbol
        BY <1>6, <2>1
      <3> QED
        BY <3>1, SubSeqProperties
    <2>3. right \in Seq(Symbol)
      <3>1. cut + 1 \in Int /\ L \in Int /\ \A i \in cut + 1..L : text[i] \in Symbol
        BY <1>6, <2>1
      <3> QED
        BY <3>1, SubSeqProperties
    <2>4. SubSeq(text, 1, cut) \o SubSeq(text, cut + 1, L) = SubSeq(text, 1, L)
      <3>1. 1 \in 1..Len(text) + 1 /\ cut \in 1 - 1..Len(text) /\ L \in cut..Len(text)
        BY <1>6 DEF L
      <3> QED
        BY <1>1, <3>1, ConcatAdjacentSubSeq
    <2>5. SubSeq(text, 1, L) = text
      BY <1>1, SubSeqFull DEF L
    <2> QED
      BY <2>2, <2>3, <2>4, <2>5
  <1>8. /\ \A j \in 1..Len(left) : \E k \in 1..L : left[j] = text[k]
        /\ \A j \in 1..Len(right) : \E k \in 1..L : right[j] = text[k]
    <2> DEFINE l == Len(left)
               r == Len(right)
    <2> HIDE DEF left, right
    <2>0. /\ L = l + r /\ l \in Nat /\ r \in Nat
          /\ \A k \in 1..l + r : text[k] = IF k <= l THEN left[k] ELSE right[k - l]
      BY <1>7, ConcatProperties DEF L
    <2> HIDE DEF l, r
    <2>1. ASSUME NEW j \in 1..l PROVE \E k \in 1..L : left[j] = text[k]
      <3>1. j \in 1..L /\ j <= l /\ j \in 1..l + r
        BY <2>0
      <3> QED
        BY <2>0, <3>1
    <2>2. ASSUME NEW j \in 1..r PROVE \E k \in 1..L : right[j] = text[k]
      <3>1. l + j \in 1..L /\ ~(l + j <= l) /\ l + j \in 1..l + r /\ (l + j) - l = j
        BY <2>0
      <3> QED
        BY <2>0, <3>1
    <2> QED
      BY <2>1, <2>2 DEF l, r
  <1>9. Symbol \subseteq S /\ {noise[i] : i \in 1..Len(noise)} \subseteq S
    OBVIOUS
  <1>10. "&#64;" \notin S
    <2>1. "&#64;" \notin Symbol
      BY Marks DEF Symbol, Sign
    <2> QED
      BY <1>2, <1>4, <2>1
  <1> HIDE DEF left, right, S
  <1>11. left \in Seq(S) /\ right \in Seq(S) /\ noise \in Seq(S)
    BY <1>4, <1>7, <1>9
  <1>12. head \in Seq(S)
    BY <1>11
  <1>13. full \in Seq(S)
    <2> HIDE DEF head
    <2> QED
      BY <1>11, <1>12
  <1> DEFINE m == Len(full)
  <1>14. m \in Nat /\ DOMAIN full = 1..m /\ (\A i \in 1..m : full[i] \in S) /\ full = [i \in 1..m |-> full[i]]
    <2> HIDE DEF full
    <2> QED
      BY <1>13
  <1>15. UnescapeString(Hidden(address, how)) = full
    <2> HIDE DEF full, m
    <2> DEFINE h == [i \in 1..m |-> IF full[i] = "@" /\ how.entity THEN "&#64;" ELSE full[i]]
    <2>1. Hidden(address, how) = h
      BY <1>5, <1>14
    <2>2. UnescapeString(h) = [i \in 1..m |-> IF h[i] = "&#64;" THEN "@" ELSE h[i]]
      BY DEF UnescapeString
    <2>3. \A i \in 1..m : (IF h[i] = "&#64;" THEN "@" ELSE h[i]) = full[i]
      BY <1>10, <1>14
    <2> HIDE DEF h
    <2>4. [i \in 1..m |-> IF h[i] = "&#64;" THEN "@" ELSE h[i]] = [i \in 1..m |-> full[i]]
      BY <2>3
    <2> QED
      BY <1>14, <2>1, <2>2, <2>4, Zenon
  <1>16. \A i \in 1..Len(noise) : /\ noise[i] # "mailto:"
                                  /\ \A j \in 1..Len(left) : noise[i] # left[j]
                                  /\ \A j \in 1..Len(right) : noise[i] # right[j]
    <2> SUFFICES ASSUME NEW i \in 1..Len(noise)
                 PROVE  /\ noise[i] # "mailto:"
                        /\ \A j \in 1..Len(left) : noise[i] # left[j]
                        /\ \A j \in 1..Len(right) : noise[i] # right[j]
      OBVIOUS
    <2>1. i \in DOMAIN noise
      BY <1>4
    <2>2. noise[i] # "mailto:"
      BY <1>2, <2>1
    <2>3. \A k \in 1..L : noise[i] # text[k]
      BY <1>3, <1>6, <2>1
    <2> QED
      BY <1>8, <2>2, <2>3
  <1> DEFINE hd == left \o noise
  <1>17. hd = left \o noise /\ UnescapeString(Hidden(address, how)) = hd \o right
    BY <1>15
  <1> HIDE DEF hd, full, head
  <1>18. NoiseIn(S, left, right, noise, hd, text, UnescapeString(Hidden(address, how)))
    BY <1>7, <1>11, <1>16, <1>17, Zenon DEF NoiseIn
  <1> QED
    BY <1>18 DEF text, noise

(* DecodeEmailFromScript undoes what hid the address. *)
LEMMA Decoded ==
  ASSUME NEW address, IsSequence(address), looksLikeEmail(address),
         NEW how, Hides(how), Recoverable(address, how)
  PROVE  DecodeEmailFromScript(Script(address, how)) = address
  <1> DEFINE script == Script(address, how)
             shown == Rotated(address, how)
             text == Replaced(shown, how.subst)
             clear == TrimMailto(UnescapeString(script.a))
             cleaned == FoldLeft(RemoveAll, clear, Removals(script))
             email == TrimMailto(SubstFirst(cleaned, script))
  <1>1. address \in Seq(Sign) /\ address # <<>>
    BY AddressType
  <1>2. /\ shown \in Seq(Symbol) /\ shown # <<>>
        /\ (IF how.rot THEN rot13(shown) ELSE shown) = Bare(address, how)
        /\ shown[1] = "mailto:" => ~how.rot /\ how.mailto
    BY <1>1, RotatedIs
  <1>3. /\ text \in Seq(Symbol) /\ text # <<>>
        /\ applyCharSubst(text, how.subst) = shown
        /\ text[1] = "mailto:" => shown[1] = "mailto:"
        /\ applyCharSubst(Tail(text), how.subst) = Tail(shown)
    BY <1>1, Substituted
  <1>4. /\ SubstObfToReal(script) = how.subst /\ Rot13Asked(script) = how.rot
        /\ script.found = TRUE /\ script.a = Hidden(address, how)
    BY Asked
  <1>5. cleaned = IF how.noise = <<>> THEN clear ELSE RemoveAll(clear, how.noise)
    BY Cleaned
  <1>6. cleaned \in {text, TrimMailto(text)}
    <2> HIDE DEF text, cleaned, script
    <2>1. PICK S, left, right, head :
            NoiseIn(S, left, right, how.noise, head, text, UnescapeString(Hidden(address, how)))
      BY <1>1, HiddenIs DEF text
    <2>2. clear = TrimMailto(UnescapeString(Hidden(address, how)))
      BY <1>4
    <2> HIDE DEF clear
    <2>3. (IF how.noise = <<>> THEN TrimMailto(UnescapeString(Hidden(address, how)))
           ELSE RemoveAll(TrimMailto(UnescapeString(Hidden(address, how))), how.noise))
            \in {text, TrimMailto(text)}
      BY <2>1, NoiseGone
    <2> QED
      BY <1>5, <2>2, <2>3
  <1>7. /\ TrimMailto(Bare(address, how)) = address /\ TrimMailto(address) = address
        /\ how.mailto => Tail(Bare(address, how)) = address
    BY <1>1, BareType
  <1> HIDE DEF text, shown, cleaned, script
  <1>8. email = address
    <2>1. SubstFirst(cleaned, script) =
            IF how.rot THEN rot13(applyCharSubst(cleaned, how.subst)) ELSE applyCharSubst(cleaned, how.subst)
      BY <1>4 DEF SubstFirst
    <2>2. CASE cleaned = text
      BY <1>2, <1>3, <1>7, <2>1, <2>2
    <2>3. CASE cleaned # text
      <3>1. cleaned = TrimMailto(text)
        BY <1>6, <2>3
      <3>2. text[1] = "mailto:" /\ cleaned = Tail(text)
        BY <1>3, <2>3, <3>1 DEF TrimMailto
      <3>3. ~how.rot /\ how.mailto /\ shown = Bare(address, how)
        BY <1>2, <1>3, <3>2
      <3>4. SubstFirst(cleaned, script) = Tail(shown)
        BY <1>3, <2>1, <3>2, <3>3
      <3> QED
        BY <1>7, <3>3, <3>4
    <2> QED
      BY <2>2, <2>3
  <1>9. DecodeEmailFromScript(script) =
          IF script.found /\ looksLikeEmail(email) THEN email ELSE <<>>
    BY DEF DecodeEmailFromScript, cleaned
  <1> QED
    BY <1>4, <1>8, <1>9 DEF script

DecodeInv ==
  input.op = "decode" /\ result = "ok" =>
    out = <<Piece("email", DecodeEmailFromScript(Script(input.address, input.how)))>>

(* A call keeps what it was given. *)
LEMMA InputKept == Spec => [](input \in Inputs)
  <1>1. Init => input \in Inputs
    BY DEF Init
  <1>2. input \in Inputs /\ [Next]_vars => (input \in Inputs)'
    BY DEF Next, vars, StreamFromDir, ReadDirFails, Open, ReadFile, SkipFile, NextFile, EmitComma,
           Encode, Close, PrintPagingURLs, StartPaging, TakeRecord, PassRecord, PrintPage, PagingDone,
           Decode, WriteFails, Returned
  <1> QED
    BY <1>1, <1>2, PTL DEF Spec

(* The pages of every category are printed, each once and in order         *)
(* (PrintPagingURLs), whatever the records, their number and their counts. *)
THEOREM PagesAlwaysCover == Spec => []PagesCover
  <1>1. Init => PagingInv
    BY PagingInit
  <1>2. PagingInv /\ input \in Inputs /\ [Next]_vars => PagingInv'
    BY PagingStep
  <1>3. PagingInv /\ input \in Inputs => PagesCover
    BY PagesFollow
  <1> QED
    BY <1>1, <1>2, <1>3, InputKept, PTL DEF Spec

(* Every address that is hidden recoverably comes out of                     *)
(* DecodeEmailFromScript, whatever its length, the noise and the letters put *)
(* for others.                                                               *)
THEOREM EmailIsRecovered == Spec => []EmailRecovered
  <1>1. Init => DecodeInv
    BY DEF Init, DecodeInv
  <1>2. DecodeInv /\ [Next]_vars => DecodeInv'
    <2> SUFFICES ASSUME DecodeInv, [Next]_vars, (input.op = "decode" /\ result = "ok")'
                 PROVE  (out = <<Piece("email", DecodeEmailFromScript(Script(input.address, input.how)))>>)'
      BY DEF DecodeInv
    <2>1. CASE StreamFromDir
      BY <2>1 DEF StreamFromDir, ReadDirFails, Open, ReadFile, SkipFile, NextFile, EmitComma, Encode, Close, Running
    <2>2. CASE PrintPagingURLs
      BY <2>2 DEF PrintPagingURLs, StartPaging, TakeRecord, PassRecord, PrintPage, PagingDone, Paging, Running
    <2>3. CASE Decode
      BY <2>3 DEF Decode
    <2>4. CASE WriteFails
      BY <2>4 DEF WriteFails
    <2>5. CASE Returned \/ UNCHANGED vars
      BY <2>5 DEF Returned, vars, DecodeInv
    <2> QED
      BY <2>1, <2>2, <2>3, <2>4, <2>5 DEF Next
  <1>3. DecodeInv /\ input \in Inputs => EmailRecovered
    <2> SUFFICES ASSUME DecodeInv, input \in Inputs, input.op = "decode", result = "ok",
                        Recoverable(input.address, input.how)
                 PROVE  out = <<Piece("email", input.address)>>
      BY DEF EmailRecovered
    <2>1. IsSequence(input.address) /\ looksLikeEmail(input.address) /\ Hides(input.how)
      BY InputsAssumption DEF IsInput
    <2>2. DecodeEmailFromScript(Script(input.address, input.how)) = input.address
      BY <2>1, Decoded
    <2> QED
      BY <2>2 DEF DecodeInv
  <1> QED
    BY <1>1, <1>2, <1>3, InputKept, PTL DEF Spec

-----------------------------------------------------------------------------
(* StreamFromDir: the names in their order *)

Sorted(f, k, T) == f \in [1..k -> T] /\ \A i, j \in 1..k : i < j => f[i] < f[j]

(* A finite set of names can be sorted. *)
LEMMA SortedExists ==
  ASSUME NEW T, T \subseteq Nat, IsFiniteSet(T)
  PROVE  \E f : Sorted(f, Cardinality(T), T)
  <1> DEFINE P(k) == \A U : U \subseteq Nat /\ IsFiniteSet(U) /\ Cardinality(U) = k => \E f : Sorted(f, k, U)
             Bad == {k \in Nat : ~ P(k)}
  <1>1. Cardinality(T) \in Nat
    BY FS_CardinalityType
  <1>2. Bad = {}
    <2> SUFFICES ASSUME Bad # {} PROVE FALSE
      OBVIOUS
    <2>1. PICK k \in Bad : \A j \in Bad : k <= j
      <3>1. Bad \subseteq Nat
        OBVIOUS
      <3> HIDE DEF Bad
      <3> QED
        BY <3>1, NatMin
    <2>2. k \in Nat /\ ~ P(k)
      OBVIOUS
    <2>3. PICK U : U \subseteq Nat /\ IsFiniteSet(U) /\ Cardinality(U) = k /\ ~ \E f : Sorted(f, k, U)
      BY <2>2
    <2>4. k # 0
      <3>1. Sorted([i \in 1..0 |-> 0], 0, U)
        BY DEF Sorted
      <3> QED
        BY <2>3, <3>1
    <2>5. U # {}
      BY <2>3, <2>4, FS_EmptySet
    <2>6. PICK x \in U : \A y \in U : x <= y
      BY <2>3, <2>5, NatMin
    <2> DEFINE V == U \ {x}
    <2>7. V \subseteq Nat /\ IsFiniteSet(V) /\ Cardinality(V) = k - 1
      BY <2>3, FS_RemoveElement
    <2>8. k - 1 \in Nat /\ k - 1 \notin Bad
      <3> HIDE DEF Bad
      <3> QED
        BY <2>1, <2>2, <2>4
    <2>9. PICK g : Sorted(g, k - 1, V)
      <3> HIDE DEF V
      <3>1. P(k - 1)
        BY <2>8
      <3> QED
        BY <2>7, <3>1
    <2> DEFINE f == [i \in 1..k |-> IF i = 1 THEN x ELSE g[i - 1]]
    <2>10. \A i \in 2..k : i - 1 \in 1..k - 1 /\ i \in 1..k
      BY <2>2
    <2>11. \A i \in 2..k : f[i] = g[i - 1] /\ f[i] \in U /\ f[i] \in Nat /\ x < f[i]
      <3> SUFFICES ASSUME NEW i \in 2..k PROVE f[i] = g[i - 1] /\ f[i] \in U /\ f[i] \in Nat /\ x < f[i]
        OBVIOUS
      <3>1. f[i] = g[i - 1]
        BY <2>10
      <3>2. g[i - 1] \in V
        BY <2>9, <2>10 DEF Sorted
      <3>3. g[i - 1] \in Nat /\ x \in Nat /\ x <= g[i - 1] /\ x # g[i - 1] /\ g[i - 1] \in U
        BY <2>3, <2>6, <3>2
      <3> HIDE DEF f
      <3> QED
        BY <3>1, <3>3
    <2>12. f[1] = x /\ 1 \in 1..k /\ \A i \in 1..k : i = 1 \/ i \in 2..k
      BY <2>2, <2>4
    <2>13. f \in [1..k -> U]
      <3>1. DOMAIN f = 1..k /\ f = [i \in 1..k |-> f[i]]
        OBVIOUS
      <3> HIDE DEF f
      <3>2. \A i \in 1..k : f[i] \in U
        BY <2>11, <2>12
      <3> QED
        BY <3>1, <3>2
    <2>14. ASSUME NEW i \in 1..k, NEW j \in 1..k, i < j PROVE f[i] < f[j]
      <3>1. j \in 2..k
        BY <2>2, <2>14
      <3>2. CASE i = 1
        BY <2>11, <2>12, <3>1, <3>2
      <3>3. CASE i # 1
        <4>1. i \in 2..k /\ i - 1 < j - 1
          BY <2>14, <3>3
        <4>2. g[i - 1] < g[j - 1]
          BY <2>9, <2>10, <3>1, <4>1 DEF Sorted
        <4> HIDE DEF f
        <4> QED
          BY <2>11, <3>1, <4>1, <4>2
      <3> QED
        BY <3>2, <3>3
    <2> HIDE DEF f
    <2>15. Sorted(f, k, U)
      BY <2>13, <2>14 DEF Sorted
    <2> QED
      BY <2>3, <2>15
  <1> HIDE DEF P
  <1>3. P(Cardinality(T))
    BY <1>1, <1>2
  <1> QED
    BY <1>3 DEF P

(* A directory has its names in order, each once. *)
LEMMA NamesSorted ==
  ASSUME NEW dir, IsDirectory(dir)
  PROVE  LET names == SortedNames(dir)
         IN /\ IsSequence(names) /\ Len(names) \in Nat /\ DOMAIN names = 1..Len(names)
            /\ \A k \in 1..Len(names) : names[k] \in DOMAIN dir
            /\ \A i, j \in 1..Len(names) : names[i] = names[j] => i = j
  <1> DEFINE T == DOMAIN dir
             n == Cardinality(T)
             names == SortedNames(dir)
  <1>1. T \subseteq Nat /\ IsFiniteSet(T) /\ n \in Nat
    BY FS_CardinalityType DEF IsDirectory
  <1> HIDE DEF T
  <1>2. PICK f : Sorted(f, n, T)
    BY <1>1, SortedExists
  <1>3. names = CHOOSE g \in [1..n -> T] : \A i, j \in DOMAIN g : i < j => g[i] < g[j]
    BY DEF SortedNames, T
  <1> HIDE DEF n
  <1>4. f \in [1..n -> T] /\ \A i, j \in DOMAIN f : i < j => f[i] < f[j]
    BY <1>2 DEF Sorted
  <1> HIDE DEF names
  <1>5. names \in [1..n -> T] /\ \A i, j \in DOMAIN names : i < j => names[i] < names[j]
    BY <1>3, <1>4
  <1>6. Len(names) = n /\ DOMAIN names = 1..n /\ names = [i \in 1..n |-> names[i]]
    BY <1>1, <1>5
  <1>7. ASSUME NEW i \in 1..n, NEW j \in 1..n, names[i] = names[j] PROVE i = j
    <2>1. names[i] \in Nat
      BY <1>1, <1>5
    <2>2. i < j => names[i] < names[j]
      BY <1>5, <1>6
    <2>3. j < i => names[j] < names[i]
      BY <1>5, <1>6
    <2> QED
      BY <1>1, <1>7, <2>1, <2>2, <2>3
  <1> QED
    BY <1>1, <1>5, <1>6, <1>7 DEF T, names, IsSequence

-----------------------------------------------------------------------------
(* What parseSelection makes of a root *)

Latest(root, mappings, path, k, i) ==
  /\ i \in Valued(root, mappings) \cap (1..k) /\ mappings[i].path = path
  /\ \A j \in Valued(root, mappings) \cap (1..k) : mappings[j].path = path => j <= i

Says(root, mappings, obj, k) ==
  /\ obj = [path \in DOMAIN obj |-> obj[path]]
  /\ DOMAIN obj = {mappings[i].path : i \in Valued(root, mappings) \cap (1..k)}
  /\ \A path \in DOMAIN obj : \E i \in 1..k :
       /\ Latest(root, mappings, path, k, i)
       /\ obj[path] = [list |-> mappings[i].all, values |-> Values(root, mappings[i])]

(* parseSelection finds what the mappings say. *)
LEMMA ParseSays ==
  ASSUME NEW root, NEW mappings, IsSequence(mappings)
  PROVE  Says(root, mappings, parseSelection(root, mappings), Len(mappings))
  <1> DEFINE n == Len(mappings)
             V == Valued(root, mappings)
  <1>1. n \in Nat /\ DOMAIN mappings = 1..n /\ mappings \in Seq({mappings[i] : i \in 1..n})
    BY IsSeq
  <1>2. PICK f : /\ Chain(f, "value", root, Empty, mappings, n)
                 /\ f[n] = parseSelection(root, mappings)
    BY <1>1, FoldValues
  <1>3. /\ f[0] = Empty
        /\ \A k \in 1..n : f[k] = IfValued(f[k - 1], mappings[k].path, mappings[k].all,
                                           Values(root, mappings[k]))
    BY <1>2 DEF Chain, Step
  <1>4. \A i \in 1..n : i \in V <=> Values(root, mappings[i]) # <<>>
    BY <1>1 DEF Valued
  <1> DEFINE P(k) == Says(root, mappings, f[k], k)
             Bad == {k \in 0..n : ~ P(k)}
  <1>5. Bad = {}
    <2> SUFFICES ASSUME Bad # {} PROVE FALSE
      OBVIOUS
    <2>1. PICK k \in Bad : \A j \in Bad : k <= j
      <3>1. Bad \subseteq Nat
        BY <1>1
      <3> HIDE DEF Bad
      <3> QED
        BY <3>1, NatMin
    <2>2. k \in 0..n /\ ~ P(k)
      OBVIOUS
    <2>3. k # 0
      <3>1. Says(root, mappings, Empty, 0)
        BY DEF Says, Empty
      <3> QED
        BY <1>3, <2>2, <3>1
    <2>4. k - 1 \in 0..n /\ k - 1 \notin Bad /\ k \in 1..n
      <3> HIDE DEF Bad, P, n
      <3> QED
        BY <1>1, <2>1, <2>2, <2>3
    <2> DEFINE old == f[k - 1]
               new == f[k]
               m == mappings[k]
    <2>5. Says(root, mappings, old, k - 1)
      BY <2>4
    <2>6. new = IfValued(old, m.path, m.all, Values(root, m))
      BY <1>3, <2>4
    <2>7. k \in V <=> Values(root, m) # <<>>
      BY <1>4, <2>4
    <2>8. 1..k = (1..k - 1) \cup {k} /\ k \notin 1..k - 1 /\ k \in Nat
      BY <2>4
    <2>9. k \in 1..k
      BY <2>8
    <2> HIDE DEF n, V, old, new, m, Bad
    <2>10. CASE k \notin V
      <3>1. V \cap (1..k) = V \cap (1..k - 1)
        BY <2>8, <2>10
      <3>2. new = old
        BY <2>6, <2>7, <2>10 DEF IfValued
      <3>3. Says(root, mappings, old, k)
        BY <2>5, <2>8, <3>1 DEF Says, Latest, V
      <3> QED
        BY <2>2, <3>2, <3>3 DEF new
    <2>11. CASE k \in V
      <3> DEFINE D == DOMAIN old
      <3>1. new = [key \in D \cup {m.path} |->
                     IF key = m.path THEN [list |-> m.all, values |-> Values(root, m)] ELSE old[key]]
        BY <2>6, <2>7, <2>11 DEF IfValued, Put
      <3>2. DOMAIN new = D \cup {m.path} /\ new = [key \in DOMAIN new |-> new[key]]
        BY <3>1
      <3>3. V \cap (1..k) = (V \cap (1..k - 1)) \cup {k}
        BY <2>8, <2>11
      <3>4. D = {mappings[i].path : i \in V \cap (1..k - 1)}
        BY <2>5 DEF Says, V
      <3> HIDE DEF D
      <3>5. DOMAIN new = {mappings[i].path : i \in V \cap (1..k)}
        BY <3>2, <3>3, <3>4 DEF m
      <3>6. ASSUME NEW path \in DOMAIN new
            PROVE  \E i \in 1..k :
                     /\ Latest(root, mappings, path, k, i)
                     /\ new[path] = [list |-> mappings[i].all, values |-> Values(root, mappings[i])]
        <4>1. CASE path = m.path
          <5>1. new[path] = [list |-> mappings[k].all, values |-> Values(root, mappings[k])]
            BY <3>1, <4>1 DEF m
          <5>2. Latest(root, mappings, path, k, k)
            <6>1. \A j \in V \cap (1..k) : j <= k
              BY <2>8
            <6> QED
              BY <2>9, <2>11, <4>1, <6>1 DEF Latest, V, m
          <5> QED
            BY <2>9, <5>1, <5>2
        <4>2. CASE path # m.path
          <5>1. path \in D /\ new[path] = old[path]
            BY <3>1, <3>2, <4>2
          <5>2. PICK i \in 1..k - 1 :
                  /\ Latest(root, mappings, path, k - 1, i)
                  /\ old[path] = [list |-> mappings[i].all, values |-> Values(root, mappings[i])]
            BY <2>5, <5>1 DEF Says, D
          <5>3. Latest(root, mappings, path, k, i)
            BY <3>3, <4>2, <5>2 DEF Latest, V, m
          <5> QED
            BY <2>8, <5>1, <5>2, <5>3
        <4> QED
          BY <4>1, <4>2
      <3>7. Says(root, mappings, new, k)
        BY <3>2, <3>5, <3>6 DEF Says, V
      <3> QED
        BY <2>2, <3>7 DEF new
    <2> QED
      BY <2>10, <2>11
  <1>6. P(n)
    <2>1. n \in 0..n
      BY <1>1
    <2> HIDE DEF P
    <2> QED
      BY <1>5, <2>1
  <1> QED
    BY <1>2, <1>6

(* It is empty when no mapping finds a value; with the name it is what the *)
(* mappings say. *)
LEMMA Parsed ==
  ASSUME NEW root, NEW mappings, IsSequence(mappings), NEW name
  PROVE  LET obj == parseSelection(root, mappings)
         IN /\ obj # Empty <=> Valued(root, mappings) # {}
            /\ WithSource(obj, name) = ObjectOf(root, mappings, name)
  <1> DEFINE n == Len(mappings)
             V == Valued(root, mappings)
             obj == parseSelection(root, mappings)
             D == DOMAIN obj
             source == [list |-> FALSE, values |-> <<<<name>>>>]
             value(i) == [list |-> mappings[i].all, values |-> Values(root, mappings[i])]
  <1>1. n \in Nat /\ DOMAIN mappings = 1..n
    BY IsSeq
  <1>2. V \cap (1..n) = V /\ V \subseteq 1..n
    BY <1>1 DEF Valued
  <1>3. Says(root, mappings, obj, n)
    BY ParseSays
  <1> HIDE DEF obj, V, n
  <1>4. obj = [path \in D |-> obj[path]] /\ D = {mappings[i].path : i \in V}
    BY <1>2, <1>3 DEF Says, V
  <1>5. \A path \in D : \E i \in V :
          /\ mappings[i].path = path /\ \A j \in V : mappings[j].path = path => j <= i
          /\ obj[path] = value(i)
    BY <1>2, <1>3 DEF Says, Latest, V
  <1>6. obj # Empty <=> V # {}
    <2>1. V = {} => D = {}
      BY <1>4
    <2>2. D = {} => obj = Empty
      <3>1. ASSUME D = {} PROVE [path \in D |-> obj[path]] = <<>>
        BY <3>1
      <3> QED
        BY <1>4, <3>1 DEF Empty
    <2>3. obj = Empty => D = {}
      BY DEF Empty
    <2>4. D = {} => V = {}
      BY <1>4
    <2> QED
      BY <2>1, <2>2, <2>3, <2>4
  <1>7. ASSUME NEW path \in D PROVE obj[path] = value(LastFor(root, mappings, path))
    <2> DEFINE c == LastFor(root, mappings, path)
    <2>1. PICK i \in V : /\ mappings[i].path = path /\ \A j \in V : mappings[j].path = path => j <= i
                         /\ obj[path] = value(i)
      BY <1>5
    <2>2. c = CHOOSE k \in V : mappings[k].path = path /\ \A j \in V : mappings[j].path = path => j <= k
      BY DEF LastFor, V
    <2> HIDE DEF c
    <2>3. c \in V /\ mappings[c].path = path /\ \A j \in V : mappings[j].path = path => j <= c
      BY <2>1, <2>2
    <2>4. c <= i /\ i <= c /\ c \in Nat /\ i \in Nat
      BY <1>1, <1>2, <2>1, <2>3
    <2>5. c = i
      BY <2>4
    <2> QED
      BY <2>1, <2>5 DEF c
  <1>8. WithSource(obj, name) =
          [key \in D \cup {"source_file"} |-> IF key = "source_file" THEN source ELSE obj[key]]
    BY DEF WithSource, Put
  <1>9. ObjectOf(root, mappings, name) =
          [key \in D \cup {"source_file"} |->
             IF key = "source_file" THEN source ELSE value(LastFor(root, mappings, key))]
    BY <1>4 DEF ObjectOf, V
  <1> HIDE DEF D, value, source
  <1>10. [key \in D \cup {"source_file"} |-> IF key = "source_file" THEN source ELSE obj[key]] =
         [key \in D \cup {"source_file"} |->
            IF key = "source_file" THEN source ELSE value(LastFor(root, mappings, key))]
    BY <1>7
  <1> QED
    BY <1>6, <1>8, <1>9, <1>10, Zenon DEF obj, V

(* Nothing is kept of nothing. *)
LEMMA KeptNone == Kept(<<>>, {}) = <<>>
  <1>1. [i \in DOMAIN <<>> |-> IF i \in {} THEN <<<<>>[i]>> ELSE <<>>] = <<>>
    OBVIOUS
  <1> QED
    BY <1>1, FlattenNone DEF Kept

(* The objects a file yields are those it owes. *)
LEMMA FileObjects ==
  ASSUME input \in Inputs, input.op = "stream", NEW name \in DOMAIN input.dir, name \notin skipped
  PROVE  LET entry == input.dir[name]
             objs  == IF entry.isDir THEN <<>> ELSE Objects(entry.doc, input.mf)
         IN [i \in DOMAIN objs |-> WithSource(objs[i], name)] = OwedFor(name)
  <1> DEFINE entry == input.dir[name]
             mappings == input.mf.mappings
             roots == IF input.mf.records THEN entry.doc ELSE <<DocumentRoot(entry.doc)>>
             objs == IF entry.isDir THEN <<>> ELSE Objects(entry.doc, input.mf)
             says == [r \in DOMAIN roots |-> ObjectOf(roots[r], mappings, name)]
             I == {r \in DOMAIN roots : Valued(roots[r], mappings) # {}}
             objects == [i \in DOMAIN roots |-> parseSelection(roots[i], mappings)]
  <1>1. /\ IsSequence(mappings) /\ entry.isDir \in BOOLEAN /\ IsSequence(entry.doc)
    BY InputsAssumption DEF IsInput, IsDirectory, IsMappingFile
  <1>2. OwedFor(name) = IF entry.isDir \/ ~MappingsCompile(mappings) THEN <<>> ELSE Kept(says, I)
    <2>1. CASE entry.isDir \/ ~MappingsCompile(mappings)
      <3> DEFINE rs == IF entry.isDir \/ name \in skipped \/ ~MappingsCompile(mappings) THEN <<>> ELSE roots
      <3>1. OwedFor(name) = Kept([r \in DOMAIN rs |-> ObjectOf(rs[r], mappings, name)],
                                 {r \in DOMAIN rs : Valued(rs[r], mappings) # {}})
        BY DEF OwedFor
      <3>2. rs = <<>>
        BY <2>1
      <3> HIDE DEF rs
      <3>3. [r \in DOMAIN rs |-> ObjectOf(rs[r], mappings, name)] = <<>>
        BY <3>2
      <3>4. {r \in DOMAIN rs : Valued(rs[r], mappings) # {}} = {}
        BY <3>2
      <3> QED
        BY <2>1, <3>1, <3>3, <3>4, KeptNone
    <2>2. CASE ~(entry.isDir \/ ~MappingsCompile(mappings))
      BY <2>2 DEF OwedFor
    <2> QED
      BY <2>1, <2>2
  <1>3. CASE entry.isDir \/ ~MappingsCompile(mappings)
    <2>1. objs = <<>>
      BY <1>3 DEF Objects, extractRecords
    <2> HIDE DEF objs
    <2>2. [i \in DOMAIN objs |-> WithSource(objs[i], name)] = <<>>
      BY <2>1
    <2> QED
      BY <1>2, <1>3, <2>2 DEF objs
  <1>4. CASE ~(entry.isDir \/ ~MappingsCompile(mappings))
    <2>1. IsSequence(roots)
      <3>1. IsSequence(<<DocumentRoot(entry.doc)>>)
        BY DEF IsSequence
      <3> QED
        BY <1>1, <3>1
    <2>2. objs = Kept(objects, {i \in DOMAIN roots : objects[i] # Empty})
      BY <1>4 DEF Objects, extractRecords
    <2> HIDE DEF roots
    <2>3. PICK n \in Nat : DOMAIN roots = 1..n
      BY <2>1, IsSeq
    <2>4. \A r \in DOMAIN roots :
            /\ objects[r] # Empty <=> Valued(roots[r], mappings) # {}
            /\ WithSource(objects[r], name) = says[r]
      BY <1>1, Parsed
    <2>5. {i \in DOMAIN roots : objects[i] # Empty} = I
      BY <2>4
    <2>6. DOMAIN objects = 1..n /\ DOMAIN says = 1..n
      BY <2>3
    <2> HIDE DEF objects, says, I
    <2>7. PICK m, h : KeptAt(I, n, m, h)
      BY <2>3, KeptPlaces
    <2>8. m \in Nat /\ h \in [1..m -> (1..n) \cap I]
      BY <2>7 DEF KeptAt
    <2>9. Kept(objects, I) = [k \in 1..m |-> objects[h[k]]] /\ Kept(says, I) = [k \in 1..m |-> says[h[k]]]
      <3>1. Kept(objects, I) = KeptTo(objects, I, n) /\ Kept(says, I) = KeptTo(says, I, n)
        BY <2>3, <2>6, KeptIs
      <3>2. \A x : KeptTo(x, I, n) = [k \in 1..m |-> x[h[k]]]
        BY <2>7 DEF KeptAt
      <3> QED
        BY <3>1, <3>2, Zenon
    <2>10. objs = [k \in 1..m |-> objects[h[k]]]
      BY <2>2, <2>5, <2>9
    <2>11. [i \in DOMAIN objs |-> WithSource(objs[i], name)] = [k \in 1..m |-> says[h[k]]]
      <3> HIDE DEF objs
      <3>1. DOMAIN objs = 1..m
        BY <2>10
      <3>2. \A k \in 1..m : WithSource(objs[k], name) = says[h[k]]
        <4> SUFFICES ASSUME NEW k \in 1..m PROVE WithSource(objs[k], name) = says[h[k]]
          OBVIOUS
        <4>1. h[k] \in DOMAIN roots
          BY <2>3, <2>8
        <4>2. objs[k] = objects[h[k]]
          BY <2>10
        <4> QED
          BY <2>4, <4>1, <4>2
      <3> QED
        BY <3>1, <3>2
    <2> QED
      BY <1>2, <1>4, <2>9, <2>11
  <1> QED
    BY <1>3, <1>4

(* What a file owes depends on the call and on the files it could not read. *)
OwedOf(in, gone, name) ==
  LET mappings == in.mf.mappings
      entry    == in.dir[name]
      roots    == IF entry.isDir \/ name \in gone \/ ~MappingsCompile(mappings) THEN <<>>
                  ELSE IF in.mf.records THEN entry.doc ELSE <<DocumentRoot(entry.doc)>>
  IN Kept([r \in DOMAIN roots |-> ObjectOf(roots[r], mappings, name)],
          {r \in DOMAIN roots : Valued(roots[r], mappings) # {}})

(* What a file owes is a sequence, empty when it could not be read. *)
LEMMA OwedSequence ==
  ASSUME NEW in \in Inputs, in.op = "stream", NEW gone, NEW name \in DOMAIN in.dir
  PROVE  /\ IsSequence(OwedOf(in, gone, name))
         /\ name \in gone => OwedOf(in, gone, name) = <<>>
  <1> DEFINE entry == in.dir[name]
             mappings == in.mf.mappings
             roots == IF entry.isDir \/ name \in gone \/ ~MappingsCompile(mappings) THEN <<>>
                      ELSE IF in.mf.records THEN entry.doc ELSE <<DocumentRoot(entry.doc)>>
             says == [r \in DOMAIN roots |-> ObjectOf(roots[r], mappings, name)]
             I == {r \in DOMAIN roots : Valued(roots[r], mappings) # {}}
  <1>1. IsSequence(entry.doc)
    BY InputsAssumption DEF IsInput, IsDirectory
  <1>2. IsSequence(roots)
    <2>1. IsSequence(<<DocumentRoot(entry.doc)>>) /\ IsSequence(<<>>)
      BY DEF IsSequence
    <2> QED
      BY <1>1, <2>1
  <1>3. OwedOf(in, gone, name) = Kept(says, I)
    BY DEF OwedOf
  <1>4. name \in gone => roots = <<>>
    OBVIOUS
  <1> HIDE DEF roots
  <1>5. PICK n \in Nat : DOMAIN says = 1..n
    BY <1>2, IsSeq
  <1>6. roots = <<>> => says = <<>> /\ I = {}
    OBVIOUS
  <1> HIDE DEF says, I
  <1> QED
    BY <1>3, <1>4, <1>5, <1>6, KeptSequence, KeptNone

NamesOf(in) == SortedNames(in.dir)

(* The objects of the first files *)
DoneOf(in, gone, d) == FlattenSeq([k \in 1..d |-> OwedOf(in, gone, NamesOf(in)[k])])

(* The names are those of the directory, each once. *)
LEMMA NamesFacts ==
  ASSUME NEW in \in Inputs, in.op = "stream"
  PROVE  /\ IsSequence(NamesOf(in)) /\ Len(NamesOf(in)) \in Nat
         /\ DOMAIN NamesOf(in) = 1..Len(NamesOf(in))
         /\ \A k \in 1..Len(NamesOf(in)) : NamesOf(in)[k] \in DOMAIN in.dir
         /\ \A i, j \in 1..Len(NamesOf(in)) : NamesOf(in)[i] = NamesOf(in)[j] => i = j
  <1>1. IsDirectory(in.dir)
    BY InputsAssumption DEF IsInput
  <1> QED
    BY <1>1, NamesSorted DEF NamesOf

(* What the first files owe grows by what the next one owes. *)
LEMMA DoneFacts ==
  ASSUME NEW in \in Inputs, in.op = "stream", NEW gone
  PROVE  /\ DoneOf(in, gone, 0) = <<>>
         /\ \E S : /\ \A d \in 0..Len(NamesOf(in)) : DoneOf(in, gone, d) \in Seq(S)
                   /\ \A d \in 0..Len(NamesOf(in)) - 1 :
                        /\ OwedOf(in, gone, NamesOf(in)[d + 1]) \in Seq(S)
                        /\ DoneOf(in, gone, d + 1) =
                             DoneOf(in, gone, d) \o OwedOf(in, gone, NamesOf(in)[d + 1])
  <1> DEFINE N == Len(NamesOf(in))
             x == [k \in 1..N |-> OwedOf(in, gone, NamesOf(in)[k])]
             S == {x[k][i] : k \in 1..N, i \in UNION {1..Len(x[k]) : k \in 1..N}}
  <1>1. N \in Nat /\ \A k \in 1..N : IsSequence(x[k])
    BY NamesFacts, OwedSequence
  <1>2. \A d \in 0..N : DoneOf(in, gone, d) = FlattenSeq([k \in 1..d |-> x[k]])
    <2> SUFFICES ASSUME NEW d \in 0..N PROVE DoneOf(in, gone, d) = FlattenSeq([k \in 1..d |-> x[k]])
      OBVIOUS
    <2>1. \A k \in 1..d : x[k] = OwedOf(in, gone, NamesOf(in)[k])
      BY <1>1
    <2> HIDE DEF x
    <2>2. [k \in 1..d |-> x[k]] = [k \in 1..d |-> OwedOf(in, gone, NamesOf(in)[k])]
      BY <2>1
    <2> QED
      BY <2>2 DEF DoneOf
  <1>3. \A k \in 1..N : x[k] = OwedOf(in, gone, NamesOf(in)[k])
    OBVIOUS
  <1> HIDE DEF x
  <1>4. ASSUME NEW k \in 1..N PROVE x[k] \in Seq(S)
    <2>1. x[k] \in Seq({x[k][i] : i \in 1..Len(x[k])})
      BY <1>1, IsSeq
    <2>2. {x[k][i] : i \in 1..Len(x[k])} \subseteq S
      OBVIOUS
    <2> HIDE DEF S
    <2> QED
      BY <2>1, <2>2, SeqMonotonic
  <1> HIDE DEF S, N
  <1>5. ASSUME NEW d \in 0..N PROVE FlattenSeq([k \in 1..d |-> x[k]]) \in Seq(S)
    BY <1>1, <1>4, <1>5, FlattenPrefix
  <1>6. ASSUME NEW d \in 0..N - 1
        PROVE  /\ x[d + 1] \in Seq(S)
               /\ FlattenSeq([k \in 1..d + 1 |-> x[k]]) = FlattenSeq([k \in 1..d |-> x[k]]) \o x[d + 1]
    <2>1. d \in Nat /\ d + 1 \in 1..N /\ \A k \in 1..d + 1 : k \in 1..N
      BY <1>1
    <2>2. \A k \in 1..d + 1 : x[k] \in Seq(S)
      BY <1>4, <2>1
    <2> QED
      BY <1>4, <2>1, <2>2, FlattenNext
  <1>7. DoneOf(in, gone, 0) = <<>>
    <2>1. [k \in 1..0 |-> OwedOf(in, gone, NamesOf(in)[k])] = <<>>
      OBVIOUS
    <2> QED
      BY <2>1, FlattenNone DEF DoneOf
  <1>8. \A d \in 0..N : DoneOf(in, gone, d) \in Seq(S)
    BY <1>2, <1>5
  <1>9. \A d \in 0..N - 1 :
          /\ OwedOf(in, gone, NamesOf(in)[d + 1]) \in Seq(S)
          /\ DoneOf(in, gone, d + 1) = DoneOf(in, gone, d) \o OwedOf(in, gone, NamesOf(in)[d + 1])
    <2> SUFFICES ASSUME NEW d \in 0..N - 1
                 PROVE  /\ OwedOf(in, gone, NamesOf(in)[d + 1]) \in Seq(S)
                        /\ DoneOf(in, gone, d + 1) = DoneOf(in, gone, d) \o OwedOf(in, gone, NamesOf(in)[d + 1])
      OBVIOUS
    <2>1. d \in 0..N /\ d + 1 \in 0..N /\ d + 1 \in 1..N
      BY <1>1
    <2> QED
      BY <1>2, <1>3, <1>6, <2>1
  <1> QED
    BY <1>7, <1>8, <1>9 DEF N

(* A file that is found unreadable owed nothing before. *)
LEMMA DoneGone ==
  ASSUME NEW in \in Inputs, in.op = "stream", NEW gone, NEW d \in 0..Len(NamesOf(in)) - 1
  PROVE  DoneOf(in, gone \cup {NamesOf(in)[d + 1]}, d) = DoneOf(in, gone, d)
  <1> DEFINE names == NamesOf(in)
             more == gone \cup {names[d + 1]}
  <1>1. \A k \in 1..d : OwedOf(in, more, names[k]) = OwedOf(in, gone, names[k])
    <2> SUFFICES ASSUME NEW k \in 1..d PROVE OwedOf(in, more, names[k]) = OwedOf(in, gone, names[k])
      OBVIOUS
    <2>1. Len(names) \in Nat /\ k \in 1..Len(names) /\ d + 1 \in 1..Len(names) /\ k # d + 1
      BY NamesFacts
    <2>2. names[k] # names[d + 1]
      BY <2>1, NamesFacts
    <2>3. names[k] \in more <=> names[k] \in gone
      BY <2>2
    <2> HIDE DEF more
    <2> QED
      BY <2>3 DEF OwedOf
  <1> HIDE DEF more
  <1>2. [k \in 1..d |-> OwedOf(in, more, names[k])] = [k \in 1..d |-> OwedOf(in, gone, names[k])]
    BY <1>1
  <1> QED
    BY <1>2 DEF DoneOf, more

-----------------------------------------------------------------------------
(* The pieces of an array *)

PieceOf(objects, i) ==
  IF i = 1 THEN Piece("[", <<>>)
  ELSE IF i % 2 = 0 THEN Piece("object", objects[i \div 2]) ELSE Piece(",", <<>>)

(* The first pieces of the array of some objects *)
Part(objects, m) == [i \in 1..m |-> PieceOf(objects, i)]

(* The places of the objects and of the commas. *)
LEMMA Halves ==
  ASSUME NEW w \in Nat
  PROVE  /\ (2 * w) % 2 = 0 /\ (2 * w) \div 2 = w
         /\ (2 * w + 1) % 2 = 1 /\ (2 * w + 1) \div 2 = w
  OBVIOUS

(* A part of an array grows by its next piece. *)
LEMMA PartFacts ==
  ASSUME NEW objects, NEW m \in Nat
  PROVE  /\ Part(objects, m) \in Seq({PieceOf(objects, i) : i \in Nat}) /\ Len(Part(objects, m)) = m
         /\ \A i \in 1..m : /\ Part(objects, m)[i] = PieceOf(objects, i)
                            /\ Part(objects, m)[i].whole = TRUE
         /\ Append(Part(objects, m), PieceOf(objects, m + 1)) = Part(objects, m + 1)
  <1> DEFINE S == {PieceOf(objects, i) : i \in Nat}
             p == Part(objects, m)
             q == Part(objects, m + 1)
             a == Append(p, PieceOf(objects, m + 1))
  <1>1. \A i \in Nat : PieceOf(objects, i) \in S
    OBVIOUS
  <1>2. \A i \in Nat : PieceOf(objects, i).whole = TRUE
    BY DEF PieceOf, Piece
  <1> HIDE DEF S
  <1>3. p \in Seq(S) /\ Len(p) = m /\ \A i \in 1..m : p[i] = PieceOf(objects, i)
    BY <1>1 DEF Part
  <1>4. q \in Seq(S) /\ Len(q) = m + 1 /\ \A i \in 1..m + 1 : q[i] = PieceOf(objects, i)
    BY <1>1 DEF Part
  <1> HIDE DEF p, q
  <1>5. a \in Seq(S) /\ Len(a) = m + 1 /\ \A i \in 1..m + 1 : a[i] = IF i <= m THEN p[i] ELSE PieceOf(objects, m + 1)
    BY <1>1, <1>3
  <1>6. \A i \in 1..m + 1 : a[i] = q[i]
    <2> HIDE DEF a
    <2> SUFFICES ASSUME NEW i \in 1..m + 1 PROVE a[i] = q[i]
      OBVIOUS
    <2>1. (i <= m /\ i \in 1..m) \/ (~(i <= m) /\ i = m + 1)
      OBVIOUS
    <2> QED
      BY <1>3, <1>4, <1>5, <2>1
  <1> HIDE DEF a
  <1>7. a = q
    BY <1>4, <1>5, <1>6, SeqEqual
  <1> QED
    BY <1>2, <1>3, <1>7 DEF S, p, q, a

(* A part depends on the objects that are in it. *)
LEMMA PartSame ==
  ASSUME NEW objects, NEW other, NEW m \in Nat, \A i \in 1..m \div 2 : other[i] = objects[i]
  PROVE  Part(other, m) = Part(objects, m)
  <1>1. \A i \in 1..m : PieceOf(other, i) = PieceOf(objects, i)
    <2> SUFFICES ASSUME NEW i \in 1..m PROVE PieceOf(other, i) = PieceOf(objects, i)
      OBVIOUS
    <2>1. i % 2 = 0 => i \div 2 \in 1..m \div 2
      OBVIOUS
    <2> QED
      BY <2>1 DEF PieceOf
  <1> QED
    BY <1>1 DEF Part

(* What was written whole *)
IntactOf(o) == IF o # <<>> /\ ~o[Len(o)].whole THEN Front(o) ELSE o

(* A part is whole, and is what is left when a cut piece is dropped. *)
LEMMA IntactIs ==
  ASSUME NEW objects, NEW m \in Nat
  PROVE  LET p == Part(objects, m)
         IN /\ IntactOf(p) = p
            /\ \A c : c.whole = FALSE => IntactOf(Append(p, c)) = p
  <1> DEFINE S == {PieceOf(objects, i) : i \in Nat}
             p == Part(objects, m)
  <1>1. p \in Seq(S) /\ Len(p) = m /\ \A i \in 1..m : p[i].whole = TRUE
    BY PartFacts
  <1> HIDE DEF p, S
  <1>2. IntactOf(p) = p
    <2>1. p # <<>> => m \in 1..m
      BY <1>1
    <2> QED
      BY <1>1, <2>1 DEF IntactOf
  <1>3. ASSUME NEW c, c.whole = FALSE PROVE IntactOf(Append(p, c)) = p
    <2> DEFINE T == S \cup {c}
               a == Append(p, c)
    <2>1. p \in Seq(T) /\ c \in T
      <3>1. S \subseteq T
        OBVIOUS
      <3> HIDE DEF T
      <3>2. p \in Seq(T)
        BY <1>1, <3>1, SeqMonotonic
      <3> QED
        BY <3>2 DEF T
    <2> HIDE DEF T
    <2>2. a \in Seq(T) /\ Len(a) = m + 1 /\ a[m + 1] = c /\ a # <<>> /\ \A i \in 1..m : a[i] = p[i]
      BY <1>1, <2>1
    <2> HIDE DEF a
    <2>3. Front(a) = SubSeq(a, 1, m)
      BY <2>2 DEF Front
    <2>4. SubSeq(a, 1, m) = p
      <3>1. \A i \in 1..m : a[i] \in T
        BY <2>2
      <3>2. /\ SubSeq(a, 1, m) \in Seq(T) /\ Len(SubSeq(a, 1, m)) = IF 1 <= m THEN m - 1 + 1 ELSE 0
            /\ \A i \in 1..m - 1 + 1 : SubSeq(a, 1, m)[i] = a[1 + i - 1]
        BY <3>1, SubSeqProperties
      <3>3. Len(SubSeq(a, 1, m)) = m /\ \A i \in 1..m : SubSeq(a, 1, m)[i] = a[i]
        <4>1. m - 1 + 1 = m /\ \A i \in 1..m : 1 + i - 1 = i
          OBVIOUS
        <4> QED
          BY <3>2, <4>1
      <3> QED
        BY <1>1, <2>1, <2>2, <3>2, <3>3, SeqEqual
    <2>5. ~a[Len(a)].whole
      BY <1>3, <2>2
    <2> QED
      BY <2>2, <2>3, <2>4, <2>5 DEF IntactOf, a
  <1> QED
    BY <1>2, <1>3 DEF p

(* w objects are written, and perhaps the comma before the next one. *)
Shape(o, objects, w, more) ==
  \E m \in Nat : /\ o = Part(objects, m)
                 /\ w = 0 => m = 1
                 /\ w > 0 => m = 2 * w \/ (more /\ m = 2 * w + 1)

(* More objects after those written change nothing. *)
LEMMA ShapeKept ==
  ASSUME NEW o, NEW objects, NEW other, NEW w \in Nat, NEW more, NEW more2, more => more2,
         Shape(o, objects, w, more), \A i \in 1..w : other[i] = objects[i]
  PROVE  Shape(o, other, w, more2)
  <1>1. PICK m \in Nat : /\ o = Part(objects, m)
                         /\ w = 0 => m = 1
                         /\ w > 0 => m = 2 * w \/ (more /\ m = 2 * w + 1)
    BY DEF Shape
  <1>2. m \div 2 <= w
    <2>1. 1 \div 2 = 0
      OBVIOUS
    <2>2. CASE w = 0
      BY <1>1, <2>1, <2>2
    <2>3. CASE w > 0
      BY <1>1, <2>3, Halves
    <2> QED
      BY <2>2, <2>3
  <1>3. Part(other, m) = Part(objects, m)
    <2>1. \A i \in 1..m \div 2 : other[i] = objects[i]
      BY <1>2
    <2> QED
      BY <2>1, PartSame
  <1> QED
    BY <1>1, <1>3 DEF Shape

(* The array is its pieces and a bracket. *)
LEMMA ArrayIs ==
  ASSUME NEW S, NEW objects \in Seq(S),
         NEW m \in Nat, Len(objects) = 0 => m = 1, Len(objects) > 0 => m = 2 * Len(objects)
  PROVE  Array(objects) = Append(Part(objects, m), Piece("]", <<>>))
  <1> DEFINE p == Part(objects, m)
             last == IF objects = <<>> THEN 2 ELSE 2 * Len(objects) + 1
  <1>1. last = m + 1 /\ m >= 1
    <2>1. objects = <<>> <=> Len(objects) = 0
      OBVIOUS
    <2> QED
      BY <2>1
  <1>2. Array(objects) = [i \in 1..last |-> IF i = last THEN Piece("]", <<>>) ELSE PieceOf(objects, i)]
    <2>1. \A i \in 1..last :
            (IF i = 1 THEN Piece("[", <<>>)
             ELSE IF i = last THEN Piece("]", <<>>)
             ELSE IF i % 2 = 0 THEN Piece("object", objects[i \div 2])
             ELSE Piece(",", <<>>))
            = IF i = last THEN Piece("]", <<>>) ELSE PieceOf(objects, i)
      <3>1. last # 1
        BY <1>1
      <3> HIDE DEF last
      <3> QED
        BY <3>1 DEF PieceOf
    <2>2. Array(objects) = [i \in 1..last |->
            IF i = 1 THEN Piece("[", <<>>)
             ELSE IF i = last THEN Piece("]", <<>>)
             ELSE IF i % 2 = 0 THEN Piece("object", objects[i \div 2])
             ELSE Piece(",", <<>>)]
      BY DEF Array
    <2> HIDE DEF last
    <2> QED
      BY <2>1, <2>2
  <1> HIDE DEF last
  <1>3. p \in Seq({PieceOf(objects, i) : i \in Nat}) /\ Len(p) = m /\ \A i \in 1..m : p[i] = PieceOf(objects, i)
    <2> DEFINE Q == {PieceOf(objects, i) : i \in Nat}
    <2>1. p \in Seq(Q)
      <3>1. \A i \in Nat : PieceOf(objects, i) \in Q
        OBVIOUS
      <3> HIDE DEF Q
      <3> QED
        BY <3>1 DEF Part
    <2>2. Len(p) = m
      BY PartFacts
    <2>3. \A i \in 1..m : p[i] = PieceOf(objects, i)
      BY PartFacts
    <2> HIDE DEF p, Q
    <2> QED
      BY <2>1, <2>2, <2>3 DEF Q
  <1> DEFINE c == Piece("]", <<>>)
             T == {PieceOf(objects, i) : i \in Nat} \cup {c}
             a == Append(p, c)
             b == [i \in 1..m + 1 |-> IF i = m + 1 THEN c ELSE PieceOf(objects, i)]
  <1>4. Array(objects) = b
    BY <1>1, <1>2
  <1>5. p \in Seq(T) /\ c \in T /\ \A i \in Nat : PieceOf(objects, i) \in T
    <2> DEFINE Q == {PieceOf(objects, i) : i \in Nat}
    <2>1. Q \subseteq T
      OBVIOUS
    <2> HIDE DEF T, Q
    <2>2. p \in Seq(T)
      BY <1>3, <2>1, SeqMonotonic DEF Q
    <2> QED
      BY <2>1, <2>2 DEF T, Q
  <1> HIDE DEF T, p, c
  <1>6. a \in Seq(T) /\ Len(a) = m + 1 /\ a[m + 1] = c /\ \A i \in 1..m : a[i] = p[i]
    <2> HIDE DEF last, b
    <2>1. a \in Seq(T) /\ Len(a) = Len(p) + 1 /\ a[Len(p) + 1] = c /\ \A i \in 1..Len(p) : a[i] = p[i]
      BY <1>5, AppendProperties
    <2> HIDE DEF a
    <2> QED
      BY <1>3, <2>1
  <1>7. b \in Seq(T) /\ Len(b) = m + 1
    <2>1. \A i \in 1..m + 1 : (IF i = m + 1 THEN c ELSE PieceOf(objects, i)) \in T
      BY <1>5
    <2> QED
      BY <2>1
  <1>8. \A i \in 1..m + 1 : a[i] = b[i]
    <2> SUFFICES ASSUME NEW i \in 1..m + 1 PROVE a[i] = b[i]
      OBVIOUS
    <2>1. b[i] = IF i = m + 1 THEN c ELSE PieceOf(objects, i)
      OBVIOUS
    <2>2. i = m + 1 \/ (i # m + 1 /\ i \in 1..m)
      OBVIOUS
    <2> HIDE DEF a, b
    <2> QED
      BY <1>3, <1>6, <2>1, <2>2
  <1> HIDE DEF a, b
  <1>9. a = b
    BY <1>6, <1>7, <1>8, SeqEqual
  <1> QED
    BY <1>4, <1>9 DEF a, p, c

(* What is written of an array that is not finished *)
LEMMA ArrayPrefix ==
  ASSUME NEW S, NEW objects \in Seq(S), NEW done, NEW w \in Nat, NEW more, NEW o,
         Shape(o, done, w, more), w <= Len(objects), more => w < Len(objects),
         \A i \in 1..w : objects[i] = done[i]
  PROVE  /\ IsPrefix(o, Array(objects)) /\ o # Array(objects)
         /\ \A i \in DOMAIN o : o[i].whole
  <1> DEFINE n == Len(objects)
             k == IF n = 0 THEN 1 ELSE 2 * n
             arr == Array(objects)
  <1>0. n \in Nat /\ k \in Nat
    OBVIOUS
  <1>1. Shape(o, objects, w, more)
    BY ShapeKept
  <1>2. PICK m \in Nat : /\ o = Part(objects, m)
                         /\ w = 0 => m = 1
                         /\ w > 0 => m = 2 * w \/ (more /\ m = 2 * w + 1)
    BY <1>1 DEF Shape
  <1> HIDE DEF n
  <1>3. m <= k
    <2>1. w <= n /\ (more => w < n)
      BY DEF n
    <2> QED
      BY <1>0, <1>2, <2>1
  <1>4. arr = Append(Part(objects, k), Piece("]", <<>>))
    BY <1>0, ArrayIs DEF n
  <1> HIDE DEF k, arr
  <1> DEFINE P == Part(objects, k)
             T == {PieceOf(objects, i) : i \in Nat} \cup {Piece("]", <<>>)}
  <1>5. /\ P \in Seq({PieceOf(objects, i) : i \in Nat}) /\ Len(P) = k
        /\ \A i \in 1..k : P[i] = PieceOf(objects, i)
    <2> DEFINE Q == {PieceOf(objects, i) : i \in Nat}
    <2>1. \A i \in Nat : PieceOf(objects, i) \in Q
      OBVIOUS
    <2> HIDE DEF Q
    <2>2. P \in Seq(Q) /\ Len(P) = k /\ \A i \in 1..k : P[i] = PieceOf(objects, i)
      BY <1>0, <2>1 DEF Part
    <2> QED
      BY <2>2 DEF Q
  <1>6. /\ o \in Seq({PieceOf(objects, i) : i \in Nat}) /\ Len(o) = m
        /\ \A i \in 1..m : o[i] = PieceOf(objects, i) /\ o[i].whole = TRUE
    <2>1. /\ Part(objects, m) \in Seq({PieceOf(objects, i) : i \in Nat}) /\ Len(Part(objects, m)) = m
          /\ \A i \in 1..m : /\ Part(objects, m)[i] = PieceOf(objects, i)
                             /\ Part(objects, m)[i].whole = TRUE
      BY PartFacts
    <2> QED
      BY <1>2, <2>1
  <1>7. P \in Seq(T) /\ o \in Seq(T) /\ Piece("]", <<>>) \in T
    <2> DEFINE Q == {PieceOf(objects, i) : i \in Nat}
    <2>1. Q \subseteq T
      OBVIOUS
    <2> HIDE DEF T, Q, P
    <2>2. P \in Seq(T) /\ o \in Seq(T)
      BY <1>5, <1>6, <2>1, SeqMonotonic DEF Q
    <2> QED
      BY <2>2 DEF T
  <1> HIDE DEF T, P
  <1>8. arr \in Seq(T) /\ Len(arr) = k + 1 /\ \A i \in 1..k : arr[i] = P[i]
    BY <1>0, <1>4, <1>5, <1>7 DEF P
  <1>9. ASSUME NEW i \in 1..m PROVE arr[i] = o[i]
    <2>1. i \in 1..k
      BY <1>0, <1>3
    <2>2. arr[i] = P[i] /\ P[i] = PieceOf(objects, i)
      BY <1>5, <1>8, <2>1, Zenon
    <2>3. o[i] = PieceOf(objects, i)
      BY <1>6, Zenon
    <2> QED
      BY <2>2, <2>3, Zenon
  <1>10. SubSeq(o, 1, m) = o
    BY <1>6, <1>7, SubSeqFull
  <1>11. SubSeq(arr, 1, m) = o
    <2>1. \A i \in 1..m : arr[i] \in T
      BY <1>0, <1>3, <1>8
    <2>2. /\ SubSeq(arr, 1, m) \in Seq(T) /\ Len(SubSeq(arr, 1, m)) = IF 1 <= m THEN m - 1 + 1 ELSE 0
          /\ \A i \in 1..m - 1 + 1 : SubSeq(arr, 1, m)[i] = arr[1 + i - 1]
      BY <2>1, SubSeqProperties
    <2>3. Len(SubSeq(arr, 1, m)) = m /\ \A i \in 1..m : SubSeq(arr, 1, m)[i] = arr[i]
      <3>1. m - 1 + 1 = m /\ \A i \in 1..m : 1 + i - 1 = i
        OBVIOUS
      <3> QED
        BY <2>2, <3>1
    <2> QED
      BY <1>6, <1>7, <1>9, <2>2, <2>3, SeqEqual
  <1>12. IsPrefix(o, arr)
    BY <1>0, <1>3, <1>6, <1>8, <1>10, <1>11 DEF IsPrefix
  <1>13. o # arr
    BY <1>0, <1>3, <1>6, <1>8
  <1>14. DOMAIN o = 1..m
    BY <1>6
  <1> QED
    BY <1>6, <1>12, <1>13, <1>14 DEF arr

-----------------------------------------------------------------------------
(* How far StreamFromDir is *)

LEMMA SeqIs ==
  ASSUME NEW S, NEW s \in Seq(S)
  PROVE  IsSequence(s)
  <1>1. Len(s) \in Nat /\ s = [i \in 1..Len(s) |-> s[i]]
    OBVIOUS
  <1> QED
    BY <1>1 DEF IsSequence

(* The head and the tail of a sequence. *)
LEMMA TailOf ==
  ASSUME NEW s, IsSequence(s), s # <<>>
  PROVE  /\ Len(s) \in Nat /\ Len(s) >= 1
         /\ IsSequence(Tail(s)) /\ Len(Tail(s)) = Len(s) - 1
         /\ Head(s) = s[1] /\ \A i \in 1..Len(s) - 1 : Tail(s)[i] = s[i + 1]
  <1> DEFINE S == {s[i] : i \in 1..Len(s)}
  <1>1. s \in Seq(S) /\ Len(s) \in Nat
    BY IsSeq
  <1> HIDE DEF S
  <1>2. Len(s) >= 1 /\ Head(s) = s[1]
    BY <1>1
  <1>3. Tail(s) \in Seq(S) /\ Len(Tail(s)) = Len(s) - 1 /\ \A i \in 1..Len(Tail(s)) : Tail(s)[i] = s[i + 1]
    BY <1>1, HeadTailProperties
  <1> QED
    BY <1>1, <1>2, <1>3, SeqIs

(* d files are behind the call, and w objects of theirs are written: files *)
(* has the others, recs the objects that are left.                         *)
At(in, gone, fs, rs, some, d, w) ==
  /\ d \in 0..Len(NamesOf(in)) /\ w \in Nat
  /\ IsSequence(fs) /\ Len(fs) = Len(NamesOf(in)) - d
  /\ \A j \in 1..Len(fs) : fs[j] = NamesOf(in)[d + j]
  /\ gone \subseteq {NamesOf(in)[k] : k \in 1..d}
  /\ IsSequence(rs) /\ Len(DoneOf(in, gone, d)) = w + Len(rs)
  /\ \A j \in 1..Len(rs) : rs[j] = DoneOf(in, gone, d)[w + j]
  /\ some = (w > 0)

(* Where the call is when the directory is read. *)
LEMMA AtStart ==
  ASSUME NEW in \in Inputs, in.op = "stream"
  PROVE  At(in, {}, NamesOf(in), <<>>, FALSE, 0, 0)
  <1>1. /\ IsSequence(NamesOf(in)) /\ Len(NamesOf(in)) \in Nat
    BY NamesFacts
  <1>2. DoneOf(in, {}, 0) = <<>>
    BY DoneFacts
  <1>3. IsSequence(<<>>) /\ Len(<<>>) = 0
    BY DEF IsSequence
  <1> QED
    BY <1>1, <1>2, <1>3 DEF At

(* The next file *)
LEMMA AtFile ==
  ASSUME NEW in \in Inputs, in.op = "stream", NEW gone, NEW fs, NEW some, NEW d, NEW w,
         At(in, gone, fs, <<>>, some, d, w), fs # <<>>
  PROVE  /\ d \in 0..Len(NamesOf(in)) - 1 /\ d \in Nat /\ Len(NamesOf(in)) \in Nat
         /\ Head(fs) = NamesOf(in)[d + 1] /\ Head(fs) \in DOMAIN in.dir /\ Head(fs) \notin gone
         /\ IsSequence(Tail(fs)) /\ Len(Tail(fs)) = Len(NamesOf(in)) - (d + 1)
         /\ \A j \in 1..Len(Tail(fs)) : Tail(fs)[j] = NamesOf(in)[d + 1 + j]
         /\ Len(DoneOf(in, gone, d)) = w
  <1> DEFINE names == NamesOf(in)
             N == Len(names)
  <1>1. N \in Nat /\ d \in 0..N /\ d \in Nat /\ IsSequence(fs) /\ Len(fs) = N - d
    BY NamesFacts DEF At
  <1>2. /\ Len(fs) \in Nat /\ Len(fs) >= 1
        /\ IsSequence(Tail(fs)) /\ Len(Tail(fs)) = Len(fs) - 1
        /\ Head(fs) = fs[1] /\ \A i \in 1..Len(fs) - 1 : Tail(fs)[i] = fs[i + 1]
    BY <1>1, TailOf
  <1>3. \A j \in 1..Len(fs) : fs[j] = names[d + j]
    BY DEF At
  <1>4. gone \subseteq {names[k] : k \in 1..d}
    BY DEF At
  <1>5. \A i, j \in 1..N : names[i] = names[j] => i = j
    BY NamesFacts
  <1>6. \A k \in 1..N : names[k] \in DOMAIN in.dir
    BY NamesFacts
  <1>7. Len(DoneOf(in, gone, d)) = w
    <2>1. Len(DoneOf(in, gone, d)) = w + Len(<<>>) /\ w \in Nat
      BY DEF At
    <2>2. Len(<<>>) = 0
      OBVIOUS
    <2> QED
      BY <2>1, <2>2
  <1> HIDE DEF names, N
  <1>8. d \in 0..N - 1 /\ d + 1 \in 1..N
    BY <1>1, <1>2
  <1>9. Head(fs) = names[d + 1]
    BY <1>1, <1>2, <1>3
  <1>10. Head(fs) \notin gone
    <2> SUFFICES ASSUME Head(fs) \in gone PROVE FALSE
      OBVIOUS
    <2>1. PICK k \in 1..d : names[k] = names[d + 1]
      BY <1>4, <1>9
    <2>2. k \in 1..N /\ k # d + 1
      BY <1>1
    <2> QED
      BY <1>5, <1>8, <2>1, <2>2
  <1>11. Head(fs) \in DOMAIN in.dir
    BY <1>6, <1>8, <1>9
  <1>12. Len(Tail(fs)) = N - (d + 1)
    BY <1>1, <1>2
  <1>13. ASSUME NEW j \in 1..Len(Tail(fs)) PROVE Tail(fs)[j] = names[d + 1 + j]
    <2>1. j \in 1..Len(fs) - 1 /\ j + 1 \in 1..Len(fs) /\ d + (j + 1) = d + 1 + j
      BY <1>1, <1>2
    <2>2. Tail(fs)[j] = fs[j + 1] /\ fs[j + 1] = names[d + (j + 1)]
      BY <1>2, <1>3, <2>1
    <2> QED
      BY <2>1, <2>2
  <1> QED
    BY <1>1, <1>2, <1>7, <1>8, <1>9, <1>10, <1>11, <1>12, <1>13 DEF N, names

(* What a file owes comes after what the files before it owe. *)
Follows(was, owed, done) ==
  /\ Len(was) \in Nat /\ Len(owed) \in Nat /\ Len(done) = Len(was) + Len(owed)
  /\ IsSequence(owed)
  /\ \A j \in 1..Len(was) : done[j] = was[j]
  /\ \A j \in 1..Len(owed) : done[Len(was) + j] = owed[j]
  /\ owed = <<>> => done = was

(* What the next file owes follows what is owed before. *)
LEMMA DoneNext ==
  ASSUME NEW in \in Inputs, in.op = "stream", NEW gone, NEW d \in 0..Len(NamesOf(in)) - 1
  PROVE  Follows(DoneOf(in, gone, d), OwedOf(in, gone, NamesOf(in)[d + 1]), DoneOf(in, gone, d + 1))
  <1> DEFINE was  == DoneOf(in, gone, d)
             owed == OwedOf(in, gone, NamesOf(in)[d + 1])
             done == DoneOf(in, gone, d + 1)
  <1>1. Len(NamesOf(in)) \in Nat
    BY NamesFacts
  <1>2. PICK S : /\ \A e \in 0..Len(NamesOf(in)) : DoneOf(in, gone, e) \in Seq(S)
                 /\ \A e \in 0..Len(NamesOf(in)) - 1 :
                      /\ OwedOf(in, gone, NamesOf(in)[e + 1]) \in Seq(S)
                      /\ DoneOf(in, gone, e + 1) =
                           DoneOf(in, gone, e) \o OwedOf(in, gone, NamesOf(in)[e + 1])
    BY DoneFacts, Zenon
  <1>3. was \in Seq(S) /\ owed \in Seq(S) /\ done = was \o owed
    <2>1. d \in 0..Len(NamesOf(in))
      BY <1>1
    <2> QED
      BY <1>2, <2>1
  <1>4. IsSequence(owed)
    BY <1>3, SeqIs
  <1> HIDE DEF was, owed, done
  <1>5. /\ Len(was) \in Nat /\ Len(owed) \in Nat /\ Len(done) = Len(was) + Len(owed)
        /\ \A j \in 1..Len(was) : done[j] = was[j]
        /\ \A j \in 1..Len(owed) : done[Len(was) + j] = owed[j]
        /\ owed = <<>> => done = was
    <2>1. Len(was) \in Nat /\ Len(owed) \in Nat /\ Len(done) = Len(was) + Len(owed)
      BY <1>3
    <2>2. \A j \in 1..Len(was) : done[j] = was[j]
      BY <1>3
    <2>3. \A j \in 1..Len(owed) : done[Len(was) + j] = owed[j]
      BY <1>3
    <2>4. owed = <<>> => done = was
      BY <1>3
    <2> QED
      BY <2>1, <2>2, <2>3, <2>4
  <1> QED
    BY <1>4, <1>5 DEF Follows, was, owed, done

(* ReadFile *)
LEMMA AtRead ==
  ASSUME NEW in \in Inputs, in.op = "stream", NEW gone, NEW fs, NEW some, NEW d, NEW w,
         At(in, gone, fs, <<>>, some, d, w), fs # <<>>
  PROVE  /\ At(in, gone, Tail(fs), OwedOf(in, gone, Head(fs)), some, d + 1, w)
         /\ \A j \in 1..w : DoneOf(in, gone, d + 1)[j] = DoneOf(in, gone, d)[j]
  <1> DEFINE names == NamesOf(in)
             was  == DoneOf(in, gone, d)
             owed == OwedOf(in, gone, Head(fs))
             done == DoneOf(in, gone, d + 1)
  <1>1. /\ d \in 0..Len(names) - 1 /\ d \in Nat /\ Len(names) \in Nat
        /\ Head(fs) = names[d + 1] /\ Head(fs) \in DOMAIN in.dir /\ Head(fs) \notin gone
        /\ IsSequence(Tail(fs)) /\ Len(Tail(fs)) = Len(names) - (d + 1)
        /\ \A j \in 1..Len(Tail(fs)) : Tail(fs)[j] = names[d + 1 + j]
        /\ Len(was) = w
    BY AtFile
  <1>2. w \in Nat /\ gone \subseteq {names[k] : k \in 1..d} /\ some = (w > 0)
    BY DEF At
  <1>3. /\ Len(was) \in Nat /\ Len(owed) \in Nat /\ Len(done) = Len(was) + Len(owed)
        /\ IsSequence(owed)
        /\ \A j \in 1..Len(was) : done[j] = was[j]
        /\ \A j \in 1..Len(owed) : done[Len(was) + j] = owed[j]
    <2>1. Follows(was, owed, done)
      BY <1>1, DoneNext
    <2> QED
      BY <2>1 DEF Follows
  <1> HIDE DEF names, was, owed, done
  <1>4. gone \subseteq {names[k] : k \in 1..d + 1}
    BY <1>1, <1>2
  <1>5. d + 1 \in 0..Len(names)
    BY <1>1
  <1>6. At(in, gone, Tail(fs), owed, some, d + 1, w)
    BY <1>1, <1>2, <1>3, <1>4, <1>5 DEF At, names, done
  <1>7. \A j \in 1..w : done[j] = was[j]
    BY <1>1, <1>3
  <1> QED
    BY <1>6, <1>7 DEF names, was, owed, done

(* A file that cannot be read leaves what is owed as it was. *)
LEMMA DoneSkip ==
  ASSUME NEW in \in Inputs, in.op = "stream", NEW gone, NEW fs, NEW some, NEW d, NEW w,
         At(in, gone, fs, <<>>, some, d, w), fs # <<>>,
         NEW more, more = gone \cup {Head(fs)}
  PROVE  DoneOf(in, more, d + 1) = DoneOf(in, gone, d)
  <1>1. /\ d \in 0..Len(NamesOf(in)) - 1
        /\ Head(fs) = NamesOf(in)[d + 1] /\ Head(fs) \in DOMAIN in.dir
    BY AtFile
  <1>2. DoneOf(in, more, d) = DoneOf(in, gone, d)
    BY <1>1, DoneGone
  <1>3. OwedOf(in, more, NamesOf(in)[d + 1]) = <<>>
    BY <1>1, OwedSequence
  <1>4. Follows(DoneOf(in, more, d), OwedOf(in, more, NamesOf(in)[d + 1]), DoneOf(in, more, d + 1))
    BY <1>1, DoneNext
  <1> QED
    BY <1>2, <1>3, <1>4 DEF Follows

(* SkipFile *)
LEMMA AtSkip ==
  ASSUME NEW in \in Inputs, in.op = "stream", NEW gone, NEW fs, NEW some, NEW d, NEW w,
         At(in, gone, fs, <<>>, some, d, w), fs # <<>>,
         NEW more, more = gone \cup {Head(fs)}
  PROVE  At(in, more, Tail(fs), <<>>, some, d + 1, w)
  <1>1. /\ d \in 0..Len(NamesOf(in)) - 1 /\ d \in Nat /\ Len(NamesOf(in)) \in Nat
        /\ Head(fs) = NamesOf(in)[d + 1]
        /\ IsSequence(Tail(fs)) /\ Len(Tail(fs)) = Len(NamesOf(in)) - (d + 1)
        /\ \A j \in 1..Len(Tail(fs)) : Tail(fs)[j] = NamesOf(in)[d + 1 + j]
        /\ Len(DoneOf(in, gone, d)) = w
    BY AtFile
  <1>2. w \in Nat /\ gone \subseteq {NamesOf(in)[k] : k \in 1..d} /\ some = (w > 0)
    BY DEF At
  <1>3. DoneOf(in, more, d + 1) = DoneOf(in, gone, d)
    BY DoneSkip
  <1> DEFINE names == NamesOf(in)
             done == DoneOf(in, more, d + 1)
  <1>4. Head(fs) \in {names[k] : k \in 1..d + 1} /\ \A k \in 1..d : k \in 1..d + 1
    BY <1>1
  <1>5. gone \subseteq {names[k] : k \in 1..d + 1}
    BY <1>2, <1>4
  <1>6. more \subseteq {names[k] : k \in 1..d + 1}
    BY <1>4, <1>5
  <1>7. d + 1 \in 0..Len(names) /\ Len(done) = w
    BY <1>1, <1>3
  <1> HIDE DEF names, done
  <1>8. IsSequence(<<>>) /\ Len(<<>>) = 0 /\ Len(done) = w + Len(<<>>)
    BY <1>2, <1>7 DEF IsSequence
  <1>9. \A j \in 1..Len(<<>>) : <<>>[j] = done[w + j]
    BY <1>8
  <1> QED
    BY <1>1, <1>2, <1>6, <1>7, <1>8, <1>9 DEF At, names, done

(* Encode *)
LEMMA AtEncode ==
  ASSUME NEW in, NEW gone, NEW fs, NEW rs, NEW some, NEW d, NEW w,
         At(in, gone, fs, rs, some, d, w), rs # <<>>
  PROVE  At(in, gone, fs, Tail(rs), TRUE, d, w + 1)
  <1> DEFINE done == DoneOf(in, gone, d)
  <1>1. IsSequence(rs) /\ Len(done) = w + Len(rs) /\ (\A j \in 1..Len(rs) : rs[j] = done[w + j]) /\ w \in Nat
    BY DEF At
  <1>2. /\ Len(rs) \in Nat /\ Len(rs) >= 1
        /\ IsSequence(Tail(rs)) /\ Len(Tail(rs)) = Len(rs) - 1
        /\ Head(rs) = rs[1] /\ \A i \in 1..Len(rs) - 1 : Tail(rs)[i] = rs[i + 1]
    BY <1>1, TailOf
  <1> HIDE DEF done
  <1>4. ASSUME NEW j \in 1..Len(Tail(rs)) PROVE Tail(rs)[j] = done[w + 1 + j]
    <2>1. j \in 1..Len(rs) - 1 /\ j + 1 \in 1..Len(rs) /\ w + (j + 1) = w + 1 + j
      BY <1>1, <1>2
    <2>2. Tail(rs)[j] = rs[j + 1] /\ rs[j + 1] = done[w + (j + 1)]
      BY <1>1, <1>2, <2>1
    <2> QED
      BY <2>1, <2>2
  <1>5. w + 1 \in Nat /\ TRUE = (w + 1 > 0) /\ Len(done) = (w + 1) + Len(Tail(rs))
    BY <1>1, <1>2
  <1> QED
    BY <1>2, <1>4, <1>5 DEF At, done

(* The next object to write is the next one owed. *)
LEMMA AtHead ==
  ASSUME NEW in, NEW gone, NEW fs, NEW rs, NEW some, NEW d, NEW w,
         At(in, gone, fs, rs, some, d, w), rs # <<>>
  PROVE  Head(rs) = DoneOf(in, gone, d)[w + 1]
  <1>1. IsSequence(rs) /\ w \in Nat /\ (\A j \in 1..Len(rs) : rs[j] = DoneOf(in, gone, d)[w + j])
    BY DEF At
  <1>2. Len(rs) \in Nat /\ Len(rs) >= 1 /\ Head(rs) = rs[1]
    BY <1>1, TailOf
  <1> QED
    BY <1>1, <1>2

-----------------------------------------------------------------------------
(* What a write makes of the output *)

LEMMA ShapeIntact ==
  ASSUME NEW o, NEW objects, NEW w \in Nat, NEW more, Shape(o, objects, w, more)
  PROVE  IntactOf(o) = o /\ \A c : c.whole = FALSE => IntactOf(Append(o, c)) = o
  <1>1. PICK m \in Nat : o = Part(objects, m)
    BY DEF Shape
  <1>2. /\ IntactOf(Part(objects, m)) = Part(objects, m)
        /\ \A c : c.whole = FALSE => IntactOf(Append(Part(objects, m), c)) = Part(objects, m)
    BY IntactIs
  <1> QED
    BY <1>1, <1>2

(* The bracket comes first. *)
LEMMA ShapeOpen ==
  ASSUME NEW objects, NEW more
  PROVE  Shape(Append(<<>>, Piece("[", <<>>)), objects, 0, more)
  <1>1. Part(objects, 0) = <<>>
    BY DEF Part
  <1>2. Append(Part(objects, 0), PieceOf(objects, 0 + 1)) = Part(objects, 0 + 1)
    BY PartFacts
  <1>3. PieceOf(objects, 1) = Piece("[", <<>>)
    BY DEF PieceOf
  <1>4. Append(<<>>, Piece("[", <<>>)) = Part(objects, 1)
    <2>1. 0 + 1 = 1
      OBVIOUS
    <2> QED
      BY <1>1, <1>2, <1>3, <2>1, Zenon
  <1> QED
    BY <1>4 DEF Shape

CommaLast(o) == o[Len(o)].text = ","

(* The comma comes after an object. *)
LEMMA ShapeComma ==
  ASSUME NEW o, NEW objects, NEW w \in Nat, w > 0, Shape(o, objects, w, TRUE), ~CommaLast(o)
  PROVE  Shape(Append(o, Piece(",", <<>>)), objects, w, TRUE)
  <1>1. PICK m \in Nat : o = Part(objects, m) /\ (m = 2 * w \/ m = 2 * w + 1)
    BY DEF Shape
  <1>2. /\ Len(Part(objects, m)) = m
        /\ \A i \in 1..m : Part(objects, m)[i] = PieceOf(objects, i)
        /\ Append(Part(objects, m), PieceOf(objects, m + 1)) = Part(objects, m + 1)
    BY PartFacts
  <1>3. (2 * w + 1) % 2 = 1 /\ 2 * w + 1 # 1
    BY Halves
  <1>4. PieceOf(objects, 2 * w + 1) = Piece(",", <<>>)
    <2>1. ~((2 * w + 1) % 2 = 0) /\ ~(2 * w + 1 = 1)
      BY <1>3
    <2> QED
      BY <2>1, Zenon DEF PieceOf
  <1>5. m = 2 * w
    <2> SUFFICES ASSUME m = 2 * w + 1 PROVE FALSE
      BY <1>1
    <2>1. m \in 1..m
      OBVIOUS
    <2>2. o[Len(o)] = Piece(",", <<>>)
      BY <1>1, <1>2, <1>4, <2>1
    <2>3. Piece(",", <<>>).text = ","
      BY DEF Piece
    <2> QED
      BY <2>2, <2>3 DEF CommaLast
  <1>6. Append(o, Piece(",", <<>>)) = Part(objects, 2 * w + 1)
    BY <1>1, <1>2, <1>4, <1>5
  <1>7. 2 * w + 1 \in Nat /\ w # 0
    OBVIOUS
  <1> QED
    BY <1>6, <1>7 DEF Shape

(* An object comes after the comma, or first. *)
LEMMA ShapeObject ==
  ASSUME NEW o, NEW objects, NEW w \in Nat, NEW more, NEW more2, Shape(o, objects, w, more),
         w = 0 \/ CommaLast(o)
  PROVE  Shape(Append(o, Piece("object", objects[w + 1])), objects, w + 1, more2)
  <1>1. PICK m \in Nat : /\ o = Part(objects, m)
                         /\ w = 0 => m = 1
                         /\ w > 0 => m = 2 * w \/ m = 2 * w + 1
    BY DEF Shape
  <1>2. /\ Len(Part(objects, m)) = m
        /\ \A i \in 1..m : Part(objects, m)[i] = PieceOf(objects, i)
        /\ Append(Part(objects, m), PieceOf(objects, m + 1)) = Part(objects, m + 1)
    BY PartFacts
  <1>3. m = 2 * w + 1
    <2> SUFFICES ASSUME w > 0, m = 2 * w PROVE FALSE
      BY <1>1
    <2>1. (2 * w) % 2 = 0 /\ 2 * w # 1 /\ m \in 1..m
      BY Halves
    <2>2. o[Len(o)] = Piece("object", objects[m \div 2])
      BY <1>1, <1>2, <2>1 DEF PieceOf
    <2>3. Piece("object", objects[m \div 2]).text = "object"
      BY DEF Piece
    <2> QED
      <3> DEFINE c == Piece("object", objects[m \div 2])
      <3>1. c.text = "object" /\ o[Len(o)] = c
        BY <2>2, <2>3
      <3> HIDE DEF c
      <3>2. CommaLast(o)
        OBVIOUS
      <3>3. o[Len(o)].text = "object"
        BY <3>1
      <3>4. o[Len(o)].text = ","
        BY <3>2 DEF CommaLast
      <3>5. "," # "object"
        OBVIOUS
      <3> QED
        BY <3>3, <3>4, <3>5, Zenon
  <1>4. m + 1 = 2 * (w + 1) /\ m + 1 # 1 /\ w + 1 \in Nat
    BY <1>3
  <1>5. (m + 1) % 2 = 0 /\ (m + 1) \div 2 = w + 1
    BY <1>4, Halves
  <1>6. PieceOf(objects, m + 1) = Piece("object", objects[w + 1])
    BY <1>4, <1>5 DEF PieceOf
  <1>7. Append(o, Piece("object", objects[w + 1])) = Part(objects, m + 1)
    BY <1>1, <1>2, <1>6
  <1>8. ~(w + 1 = 0) /\ m + 1 \in Nat
    OBVIOUS
  <1> QED
    BY <1>4, <1>7, <1>8 DEF Shape

(* What is written when files, recs and comma are so *)
Wrote(in, gone, fs, rs, some, o, res) ==
  \E d, w :
    /\ At(in, gone, fs, rs, some, d, w)
    /\ res # "ok" => Shape(IntactOf(o), DoneOf(in, gone, d), w, rs # <<>>)
    /\ res = "ok" => /\ fs = <<>> /\ rs = <<>>
                     /\ \E p : /\ Shape(p, DoneOf(in, gone, d), w, FALSE)
                               /\ o = Append(p, Piece("]", <<>>))

(* Nothing is cut at the end of the output. *)
Uncut(o) == o = IntactOf(o)

(* Open *)
LEMMA WroteOpen ==
  ASSUME NEW in \in Inputs, in.op = "stream", NEW o, o = Append(<<>>, Piece("[", <<>>))
  PROVE  Wrote(in, {}, NamesOf(in), <<>>, FALSE, o, "none") /\ IntactOf(o) = o
  <1>1. At(in, {}, NamesOf(in), <<>>, FALSE, 0, 0)
    BY AtStart
  <1>2. \A more : Shape(o, DoneOf(in, {}, 0), 0, more)
    BY ShapeOpen
  <1>3. IntactOf(o) = o
    <2>1. 0 \in Nat
      OBVIOUS
    <2> QED
      BY <1>2, <2>1, ShapeIntact
  <1>4. Shape(IntactOf(o), DoneOf(in, {}, 0), 0, <<>> # <<>>)
    BY <1>2, <1>3
  <1> QED
    BY <1>1, <1>3, <1>4 DEF Wrote

(* Reading a file changes nothing that is written. *)
LEMMA WroteRead ==
  ASSUME NEW in \in Inputs, in.op = "stream", NEW gone, NEW fs, NEW some, NEW o, fs # <<>>,
         Wrote(in, gone, fs, <<>>, some, o, "none"),
         NEW rs, rs = OwedOf(in, gone, Head(fs))
  PROVE  Wrote(in, gone, Tail(fs), rs, some, o, "none")
  <1>1. PICK d, w : /\ At(in, gone, fs, <<>>, some, d, w)
                    /\ Shape(IntactOf(o), DoneOf(in, gone, d), w, <<>> # <<>>)
    BY DEF Wrote
  <1>2. /\ At(in, gone, Tail(fs), rs, some, d + 1, w)
        /\ \A j \in 1..w : DoneOf(in, gone, d + 1)[j] = DoneOf(in, gone, d)[j]
    BY <1>1, AtRead
  <1>3. w \in Nat
    BY <1>1 DEF At
  <1>4. Shape(IntactOf(o), DoneOf(in, gone, d + 1), w, rs # <<>>)
    <2>1. (<<>> # <<>>) => (rs # <<>>)
      OBVIOUS
    <2> QED
      BY <1>1, <1>2, <1>3, <2>1, ShapeKept
  <1> QED
    BY <1>2, <1>4 DEF Wrote

(* Skipping one does not either. *)
LEMMA WroteSkip ==
  ASSUME NEW in \in Inputs, in.op = "stream", NEW gone, NEW fs, NEW some, NEW o, fs # <<>>,
         Wrote(in, gone, fs, <<>>, some, o, "none"),
         NEW more, more = gone \cup {Head(fs)}
  PROVE  Wrote(in, more, Tail(fs), <<>>, some, o, "none")
  <1>1. PICK d, w : /\ At(in, gone, fs, <<>>, some, d, w)
                    /\ Shape(IntactOf(o), DoneOf(in, gone, d), w, <<>> # <<>>)
    BY DEF Wrote
  <1>2. At(in, more, Tail(fs), <<>>, some, d + 1, w)
    BY <1>1, AtSkip
  <1>3. DoneOf(in, more, d + 1) = DoneOf(in, gone, d)
    BY <1>1, DoneSkip
  <1>4. Shape(IntactOf(o), DoneOf(in, more, d + 1), w, <<>> # <<>>)
    BY <1>1, <1>3
  <1> QED
    BY <1>2, <1>4 DEF Wrote

(* A comma between two objects. *)
LEMMA WroteComma ==
  ASSUME NEW in, NEW gone, NEW fs, NEW rs, NEW some, NEW o, NEW a,
         Wrote(in, gone, fs, rs, some, o, "none"), o = IntactOf(o),
         rs # <<>>, some, ~CommaLast(o), a = Append(o, Piece(",", <<>>))
  PROVE  Wrote(in, gone, fs, rs, some, a, "none") /\ Uncut(a)
  <1>1. PICK d, w : /\ At(in, gone, fs, rs, some, d, w)
                    /\ Shape(o, DoneOf(in, gone, d), w, rs # <<>>)
    BY DEF Wrote
  <1>2. w \in Nat /\ w > 0
    BY <1>1 DEF At
  <1>3. Shape(o, DoneOf(in, gone, d), w, TRUE)
    <2>1. (rs # <<>>) = TRUE
      OBVIOUS
    <2> QED
      BY <1>1, <2>1
  <1>4. Shape(a, DoneOf(in, gone, d), w, TRUE)
    BY <1>2, <1>3, ShapeComma
  <1>5. a = IntactOf(a)
    BY <1>2, <1>4, ShapeIntact
  <1>6. Shape(IntactOf(a), DoneOf(in, gone, d), w, rs # <<>>)
    <2>1. (rs # <<>>) = TRUE
      OBVIOUS
    <2> QED
      BY <1>4, <1>5, <2>1
  <1> QED
    BY <1>1, <1>5, <1>6 DEF Wrote, Uncut

(* The next object. *)
LEMMA WroteObject ==
  ASSUME NEW in, NEW gone, NEW fs, NEW rs, NEW some, NEW o, NEW a,
         Wrote(in, gone, fs, rs, some, o, "none"), o = IntactOf(o),
         rs # <<>>, ~some \/ CommaLast(o), a = Append(o, Piece("object", Head(rs)))
  PROVE  Wrote(in, gone, fs, Tail(rs), TRUE, a, "none") /\ Uncut(a)
  <1>1. PICK d, w : /\ At(in, gone, fs, rs, some, d, w)
                    /\ Shape(o, DoneOf(in, gone, d), w, rs # <<>>)
    BY DEF Wrote
  <1>2. w \in Nat /\ (w = 0 \/ CommaLast(o))
    <2>1. w \in Nat /\ some = (w > 0)
      BY <1>1 DEF At
    <2>2. w = 0 \/ w > 0
      BY <2>1
    <2> QED
      BY <2>1, <2>2, Zenon
  <1>3. At(in, gone, fs, Tail(rs), TRUE, d, w + 1) /\ Head(rs) = DoneOf(in, gone, d)[w + 1]
    <2>1. At(in, gone, fs, rs, some, d, w) /\ rs # <<>>
      BY <1>1
    <2>2. At(in, gone, fs, Tail(rs), TRUE, d, w + 1)
      BY <2>1, AtEncode
    <2>3. Head(rs) = DoneOf(in, gone, d)[w + 1]
      BY <2>1, AtHead
    <2> QED
      BY <2>2, <2>3
  <1>4. \A more : Shape(a, DoneOf(in, gone, d), w + 1, more)
    BY <1>1, <1>2, <1>3, ShapeObject
  <1>5. a = IntactOf(a)
    <2>1. w + 1 \in Nat
      BY <1>2
    <2> QED
      BY <1>4, <2>1, ShapeIntact
  <1>6. Shape(IntactOf(a), DoneOf(in, gone, d), w + 1, Tail(rs) # <<>>)
    BY <1>4, <1>5
  <1> QED
    BY <1>3, <1>5, <1>6 DEF Wrote, Uncut

(* The last bracket. *)
LEMMA WroteClose ==
  ASSUME NEW in, NEW gone, NEW some, NEW o, NEW a,
         Wrote(in, gone, <<>>, <<>>, some, o, "none"), o = IntactOf(o),
         a = Append(o, Piece("]", <<>>))
  PROVE  Wrote(in, gone, <<>>, <<>>, some, a, "ok")
  <1>1. PICK d, w : /\ At(in, gone, <<>>, <<>>, some, d, w)
                    /\ Shape(o, DoneOf(in, gone, d), w, <<>> # <<>>)
    BY DEF Wrote
  <1>2. Shape(o, DoneOf(in, gone, d), w, FALSE)
    <2>1. (<<>> # <<>>) = FALSE
      OBVIOUS
    <2> QED
      BY <1>1, <2>1
  <1> QED
    BY <1>1, <1>2 DEF Wrote

(* A write that fails *)
LEMMA WroteCut ==
  ASSUME NEW in, NEW gone, NEW fs, NEW rs, NEW some, NEW o, NEW c, c.whole = FALSE,
         Wrote(in, gone, fs, rs, some, o, "none"), o = IntactOf(o),
         NEW a \in {o, Append(o, c)}
  PROVE  Wrote(in, gone, fs, rs, some, a, "error")
  <1>1. PICK d, w : /\ At(in, gone, fs, rs, some, d, w)
                    /\ Shape(o, DoneOf(in, gone, d), w, rs # <<>>)
    BY DEF Wrote
  <1>2. w \in Nat
    BY <1>1 DEF At
  <1>3. IntactOf(Append(o, c)) = o
    BY <1>1, <1>2, ShapeIntact
  <1>4. IntactOf(a) = o
    BY <1>3
  <1> QED
    BY <1>1, <1>4 DEF Wrote

(* The text of a piece; cutting it makes it not whole. *)
LEMMA PieceText ==
  /\ \A t, x : Piece(t, x).text = t
  /\ \A t, x : [Piece(t, x) EXCEPT !.whole = FALSE].whole = FALSE
  BY DEF Piece

(* A piece is written only when it is due. *)
LEMMA WriteText ==
  ASSUME input.op = "stream", page = 0, started \in BOOLEAN, ~started => recs = <<>>,
         NEW text, Write(text)
  PROVE  /\ text = "[" => ~started /\ out' = Append(out, Piece("[", <<>>))
         /\ text = "," => /\ started /\ recs # <<>> /\ comma /\ ~CommaLast(out)
                          /\ out' = Append(out, Piece(",", <<>>))
         /\ text = "object" => /\ started /\ recs # <<>> /\ (~comma \/ CommaLast(out))
                               /\ out' = Append(out, Piece("object", Head(recs)))
         /\ text = "]" => /\ started /\ recs = <<>> /\ files = <<>>
                          /\ out' = Append(out, Piece("]", <<>>))
         /\ text # "line"
  <1>1. Due = IF ~started THEN {Piece("[", <<>>)}
              ELSE IF recs # <<>> THEN {Emitted}
              ELSE IF files = <<>> THEN {Piece("]", <<>>)} ELSE {}
    BY DueStream
  <1>2. PICK piece \in Due : piece.text = text /\ out' = Append(out, piece)
    BY DEF Write
  <1>3. CASE ~started
    <2>1. piece = Piece("[", <<>>)
      BY <1>1, <1>2, <1>3
    <2>2. text = "["
      BY <1>2, <2>1, PieceText
    <2> QED
      BY <1>2, <1>3, <2>1, <2>2
  <1>4. CASE started /\ recs # <<>>
    <2>1. piece = Emitted
      BY <1>1, <1>2, <1>4
    <2>2. CASE comma /\ ~CommaLast(out)
      <3>1. piece = Piece(",", <<>>)
        BY <2>1, <2>2 DEF Emitted, CommaWritten, CommaLast
      <3>2. text = ","
        BY <1>2, <3>1, PieceText
      <3> QED
        BY <1>2, <1>4, <2>2, <3>1, <3>2
    <2>3. CASE ~(comma /\ ~CommaLast(out))
      <3>1. piece = Piece("object", Head(recs))
        BY <2>1, <2>3 DEF Emitted, CommaWritten, CommaLast
      <3>2. text = "object"
        BY <1>2, <3>1, PieceText
      <3> QED
        BY <1>2, <1>4, <2>3, <3>1, <3>2
    <2> QED
      BY <2>2, <2>3
  <1>5. CASE started /\ recs = <<>>
    <2>1. files = <<>> /\ piece = Piece("]", <<>>)
      BY <1>1, <1>2, <1>5
    <2>2. text = "]"
      BY <1>2, <2>1, PieceText
    <2> QED
      BY <1>2, <1>5, <2>1, <2>2
  <1> QED
    BY <1>3, <1>4, <1>5

(* The state of a call of StreamFromDir *)
Streaming ==
  /\ page = 0 /\ started \in BOOLEAN /\ result \in {"none", "ok", "error"}
  /\ result = "none" => out = IntactOf(out)
  /\ ~started => /\ recs = <<>> /\ comma = FALSE /\ skipped = {} /\ result # "ok"
                 /\ IntactOf(out) = <<>>
  /\ started => Wrote(input, skipped, files, recs, comma, out, result)

StreamInv == input.op = "stream" => Streaming

(* Open keeps the invariant. *)
LEMMA OpenStep ==
  ASSUME Streaming, input \in Inputs, input.op = "stream", Open
  PROVE  Streaming'
  <1>1. ~started /\ out' = Append(out, Piece("[", <<>>))
    <2>1. Write("[")
      BY DEF Open
    <2> QED
      BY <2>1, WriteText DEF Streaming
  <1>2. result = "none" /\ started' = TRUE /\ files' = NamesOf(input)
        /\ UNCHANGED <<input, recs, comma, page, result, skipped>>
    BY DEF Open, Running, NamesOf
  <1>3. out' = Append(<<>>, Piece("[", <<>>))
    BY <1>1, <1>2 DEF Streaming
  <1>4. Wrote(input, {}, NamesOf(input), <<>>, FALSE, out', "none") /\ IntactOf(out') = out'
    BY <1>3, WroteOpen
  <1>5. recs' = <<>> /\ comma' = FALSE /\ skipped' = {} /\ page' = 0 /\ result' = "none" /\ input' = input
    BY <1>1, <1>2 DEF Streaming
  <1>6. Wrote(input', skipped', files', recs', comma', out', result')
    BY <1>2, <1>4, <1>5
  <1> QED
    BY <1>2, <1>4, <1>5, <1>6 DEF Streaming

(* ReadFile keeps it: the objects of the file are those it owes. *)
LEMMA ReadStep ==
  ASSUME Streaming, input \in Inputs, input.op = "stream", ReadFile
  PROVE  Streaming'
  <1>1. started /\ result = "none" /\ recs = <<>> /\ files # <<>> /\ files' = Tail(files)
        /\ comma' = comma /\ UNCHANGED <<input, started, page, out, result, skipped>>
    BY DEF ReadFile, NextFile, Running, SomeWritten
  <1>2. Wrote(input, skipped, files, <<>>, comma, out, "none")
    BY <1>1 DEF Streaming
  <1>3. Head(files) \in DOMAIN input.dir /\ Head(files) \notin skipped
    <2>1. PICK d, w : At(input, skipped, files, <<>>, comma, d, w)
      BY <1>2 DEF Wrote
    <2> QED
      BY <1>1, <2>1, AtFile
  <1>4. recs' = OwedOf(input, skipped, Head(files))
    <2>1. recs' = LET entry == input.dir[Head(files)]
                      objs  == IF entry.isDir THEN <<>> ELSE Objects(entry.doc, input.mf)
                  IN [i \in DOMAIN objs |-> WithSource(objs[i], Head(files))]
      BY DEF ReadFile
    <2>2. recs' = OwedFor(Head(files))
      BY <1>3, <2>1, FileObjects
    <2> QED
      BY <2>2 DEF OwedFor, OwedOf
  <1>5. Wrote(input, skipped, Tail(files), recs', comma, out, "none")
    BY <1>1, <1>2, <1>4, WroteRead
  <1> QED
    BY <1>1, <1>5 DEF Streaming

(* SkipFile keeps it: the file owes nothing any more. *)
LEMMA SkipStep ==
  ASSUME Streaming, input \in Inputs, input.op = "stream", SkipFile
  PROVE  Streaming'
  <1>1. started /\ result = "none" /\ recs = <<>> /\ files # <<>> /\ files' = Tail(files)
        /\ skipped' = skipped \cup {Head(files)}
        /\ UNCHANGED <<input, started, recs, comma, page, out, result>>
    BY DEF SkipFile, NextFile, Running
  <1>2. Wrote(input, skipped, files, <<>>, comma, out, "none")
    BY <1>1 DEF Streaming
  <1>3. Wrote(input, skipped', Tail(files), <<>>, comma, out, "none")
    BY <1>1, <1>2, WroteSkip
  <1> QED
    BY <1>1, <1>3 DEF Streaming

(* EmitComma keeps it. *)
LEMMA CommaStep ==
  ASSUME Streaming, input.op = "stream", EmitComma
  PROVE  Streaming'
  <1>1. started /\ recs # <<>> /\ comma /\ ~CommaLast(out) /\ out' = Append(out, Piece(",", <<>>))
    <2>1. Write(",")
      BY DEF EmitComma
    <2> QED
      BY <2>1, WriteText DEF Streaming
  <1>2. result = "none" /\ UNCHANGED <<input, started, files, recs, comma, page, result, skipped>>
    BY DEF EmitComma, Running
  <1>3. Wrote(input, skipped, files, recs, comma, out, "none") /\ out = IntactOf(out)
    BY <1>1, <1>2 DEF Streaming
  <1>4. Wrote(input, skipped, files, recs, comma, out', "none") /\ out' = IntactOf(out')
    <2>1. Wrote(input, skipped, files, recs, comma, out', "none")
      BY <1>1, <1>3, WroteComma
    <2>2. Uncut(out')
      BY <1>1, <1>3, WroteComma
    <2> QED
      BY <2>1, <2>2 DEF Uncut
  <1> QED
    BY <1>1, <1>2, <1>4 DEF Streaming

(* Encode keeps it. *)
LEMMA EncodeStep ==
  ASSUME Streaming, input.op = "stream", Encode
  PROVE  Streaming'
  <1>1. started /\ recs # <<>> /\ (~comma \/ CommaLast(out)) /\ out' = Append(out, Piece("object", Head(recs)))
    <2>1. Write("object")
      BY DEF Encode
    <2> QED
      BY <2>1, WriteText DEF Streaming
  <1>2. /\ result = "none" /\ comma' = TRUE /\ recs' = Tail(recs)
        /\ UNCHANGED <<input, started, files, page, result, skipped>>
    BY DEF Encode, Running
  <1>3. Wrote(input, skipped, files, recs, comma, out, "none") /\ out = IntactOf(out)
    BY <1>1, <1>2 DEF Streaming
  <1>4. Wrote(input, skipped, files, Tail(recs), TRUE, out', "none") /\ out' = IntactOf(out')
    <2>1. Wrote(input, skipped, files, Tail(recs), TRUE, out', "none")
      BY <1>1, <1>3, WroteObject
    <2>2. Uncut(out')
      BY <1>1, <1>3, WroteObject
    <2> QED
      BY <2>1, <2>2 DEF Uncut
  <1> QED
    BY <1>1, <1>2, <1>4 DEF Streaming

(* Close keeps it. *)
LEMMA CloseStep ==
  ASSUME Streaming, input.op = "stream", Close
  PROVE  Streaming'
  <1>1. started /\ recs = <<>> /\ files = <<>> /\ out' = Append(out, Piece("]", <<>>))
    <2>1. Write("]")
      BY DEF Close
    <2> QED
      BY <2>1, WriteText DEF Streaming
  <1>2. /\ result = "none" /\ result' = "ok"
        /\ UNCHANGED <<input, started, files, recs, comma, page, skipped>>
    BY DEF Close, Running
  <1>3. Wrote(input, skipped, <<>>, <<>>, comma, out, "none") /\ out = IntactOf(out)
    BY <1>1, <1>2 DEF Streaming
  <1>4. Wrote(input, skipped, <<>>, <<>>, comma, out', "ok")
    BY <1>1, <1>3, WroteClose
  <1> QED
    BY <1>1, <1>2, <1>4 DEF Streaming

(* A write that fails keeps it, whatever part was written. *)
LEMMA FailStep ==
  ASSUME Streaming, input.op = "stream", WriteFails
  PROVE  Streaming'
  <1>1. /\ result = "none" /\ result' = "error"
        /\ UNCHANGED <<input, started, files, recs, comma, page, skipped>>
    BY DEF WriteFails
  <1>2. PICK piece \in Due : out' \in {out, Append(out, [piece EXCEPT !.whole = FALSE])}
    BY DEF WriteFails
  <1>3. \E t, x : piece = Piece(t, x)
    <2>1. Due = IF ~started THEN {Piece("[", <<>>)}
                ELSE IF recs # <<>> THEN {Emitted}
                ELSE IF files = <<>> THEN {Piece("]", <<>>)} ELSE {}
      BY DueStream DEF Streaming
    <2>2. piece \in {Piece("[", <<>>), Emitted, Piece("]", <<>>)}
      BY <1>2, <2>1
    <2>3. Emitted \in {Piece(",", <<>>), Piece("object", Head(recs))}
      BY DEF Emitted
    <2> QED
      BY <2>2, <2>3, Zenon
  <1> DEFINE c == [piece EXCEPT !.whole = FALSE]
  <1>4. c.whole = FALSE
    BY <1>3, PieceText
  <1>5. out' \in {out, Append(out, c)}
    BY <1>2
  <1> HIDE DEF c
  <1>6. out = IntactOf(out)
    BY <1>1 DEF Streaming
  <1>7. CASE started
    <2>1. Wrote(input, skipped, files, recs, comma, out, "none")
      BY <1>1, <1>7 DEF Streaming
    <2>2. Wrote(input, skipped, files, recs, comma, out', "error")
      BY <1>4, <1>5, <1>6, <2>1, WroteCut
    <2> QED
      BY <1>1, <1>7, <2>2 DEF Streaming
  <1>8. CASE ~started
    <2>1. out = <<>>
      BY <1>6, <1>8 DEF Streaming
    <2>2. Part(0, 0) = <<>>
      BY DEF Part
    <2>3. IntactOf(Part(0, 0)) = Part(0, 0) /\ IntactOf(Append(Part(0, 0), c)) = Part(0, 0)
      BY <1>4, IntactIs
    <2>4. IntactOf(out') = <<>>
      BY <1>5, <2>1, <2>2, <2>3
    <2> QED
      BY <1>1, <1>8, <2>4 DEF Streaming
  <1> QED
    BY <1>7, <1>8 DEF Streaming

(* Every step keeps it. *)
LEMMA StreamStep ==
  ASSUME StreamInv, input \in Inputs, [Next]_vars
  PROVE  StreamInv'
  <1> SUFFICES ASSUME input'.op = "stream" PROVE Streaming'
    BY DEF StreamInv
  <1>1. input' = input
    BY DEF Next, vars, StreamFromDir, ReadDirFails, Open, ReadFile, SkipFile, NextFile, EmitComma,
           Encode, Close, PrintPagingURLs, StartPaging, TakeRecord, PassRecord, PrintPage, PagingDone,
           Decode, WriteFails, Returned
  <1>2. input.op = "stream" /\ Streaming
    BY <1>1 DEF StreamInv
  <1>3. CASE StreamFromDir
    <2>1. CASE ReadDirFails
      <3>1. /\ ~started /\ result' = "error" /\ result = "none"
            /\ UNCHANGED <<input, started, files, recs, comma, page, out, skipped>>
        BY <2>1 DEF ReadDirFails, Running
      <3> QED
        BY <1>2, <3>1 DEF Streaming
    <2> QED
      BY <1>2, <1>3, <2>1, OpenStep, ReadStep, SkipStep, CommaStep, EncodeStep, CloseStep DEF StreamFromDir
  <1>4. CASE PrintPagingURLs
    BY <1>2, <1>4 DEF PrintPagingURLs, StartPaging, TakeRecord, PassRecord, PrintPage, PagingDone, Paging, Running
  <1>5. CASE Decode
    BY <1>2, <1>5 DEF Decode, Running
  <1>6. CASE WriteFails
    BY <1>2, <1>6, FailStep
  <1>7. CASE Returned \/ UNCHANGED vars
    BY <1>2, <1>7 DEF Returned, vars, Streaming
  <1> QED
    BY <1>3, <1>4, <1>5, <1>6, <1>7 DEF Next

(* It holds when the call starts. *)
LEMMA StreamStart == Init => StreamInv
  <1> SUFFICES ASSUME Init PROVE Streaming
    BY DEF StreamInv
  <1>1. IntactOf(<<>>) = <<>>
    BY DEF IntactOf
  <1> QED
    BY <1>1 DEF Init, Streaming

(* A finished array has no cut piece, and is its own beginning. *)
LEMMA ArrayWhole ==
  ASSUME NEW S, NEW objects \in Seq(S), NEW arr, arr = Array(objects)
  PROVE  /\ Len(arr) \in Nat /\ arr # <<>> /\ IntactOf(arr) = arr
         /\ \A i \in DOMAIN arr : arr[i].whole = TRUE
         /\ IsPrefix(arr, arr) /\ IsPrefix(<<>>, arr)
  <1> DEFINE last == IF objects = <<>> THEN 2 ELSE 2 * Len(objects) + 1
             f == [i \in 1..last |->
                     IF i = 1 THEN Piece("[", <<>>)
                     ELSE IF i = last THEN Piece("]", <<>>)
                     ELSE IF i % 2 = 0 THEN Piece("object", objects[i \div 2])
                     ELSE Piece(",", <<>>)]
             T == {f[i] : i \in 1..last}
  <1>1. last \in Nat /\ last >= 2
    <2>1. Len(objects) \in Nat /\ (objects # <<>> => Len(objects) > 0)
      OBVIOUS
    <2> QED
      BY <2>1
  <1> HIDE DEF last
  <1>2. arr = f
    BY DEF Array, last
  <1>3. \A i \in 1..last : f[i].whole = TRUE
    BY DEF Piece
  <1>4. f = [i \in 1..last |-> f[i]]
    OBVIOUS
  <1> HIDE DEF f
  <1>5. \A i \in 1..last : f[i] \in T
    OBVIOUS
  <1> HIDE DEF T
  <1>6. f \in Seq(T) /\ Len(f) = last /\ DOMAIN f = 1..last
    <2>1. [i \in 1..last |-> f[i]] \in Seq(T)
      BY <1>1, <1>5
    <2>2. f \in Seq(T)
      BY <1>4, <2>1, Zenon
    <2>3. DOMAIN f = 1..last
      BY <1>4
    <2> QED
      BY <1>1, <2>2, <2>3
  <1>7. f # <<>> /\ last \in 1..last
    BY <1>1, <1>6
  <1>8. IntactOf(f) = f
    BY <1>3, <1>6, <1>7 DEF IntactOf
  <1>9. IsPrefix(f, f)
    BY <1>6 DEF IsPrefix
  <1>10. IsPrefix(<<>>, f)
    <2>1. SubSeq(f, 1, 0) = <<>> /\ SubSeq(<<>>, 1, 0) = <<>> /\ Len(<<>>) = 0
      BY <1>6
    <2> QED
      BY <1>1, <1>6, <2>1 DEF IsPrefix
  <1> QED
    BY <1>1, <1>2, <1>3, <1>6, <1>7, <1>8, <1>9, <1>10

(* What the first files owe is a beginning of what all of them owe. *)
LEMMA DoneFirst ==
  ASSUME NEW in \in Inputs, in.op = "stream", NEW gone, NEW d \in 0..Len(NamesOf(in)),
         NEW was, was = DoneOf(in, gone, d), NEW all, all = DoneOf(in, gone, Len(NamesOf(in)))
  PROVE  \E S : /\ was \in Seq(S) /\ all \in Seq(S)
                /\ Len(was) <= Len(all) /\ \A j \in 1..Len(was) : all[j] = was[j]
  <1> DEFINE N == Len(NamesOf(in))
             x == [k \in 1..N |-> OwedOf(in, gone, NamesOf(in)[k])]
  <1>1. N \in Nat
    BY NamesFacts
  <1>2. PICK S : /\ \A e \in 0..Len(NamesOf(in)) : DoneOf(in, gone, e) \in Seq(S)
                 /\ \A e \in 0..Len(NamesOf(in)) - 1 :
                      /\ OwedOf(in, gone, NamesOf(in)[e + 1]) \in Seq(S)
                      /\ DoneOf(in, gone, e + 1) =
                           DoneOf(in, gone, e) \o OwedOf(in, gone, NamesOf(in)[e + 1])
    BY DoneFacts, Zenon
  <1>3. \A k \in 1..N : x[k] \in Seq(S)
    <2> SUFFICES ASSUME NEW k \in 1..N PROVE x[k] \in Seq(S)
      OBVIOUS
    <2>1. k - 1 \in 0..N - 1 /\ k - 1 + 1 = k
      BY <1>1
    <2>2. OwedOf(in, gone, NamesOf(in)[k - 1 + 1]) \in Seq(S)
      BY <1>2, <2>1
    <2>3. x[k] = OwedOf(in, gone, NamesOf(in)[k])
      OBVIOUS
    <2> QED
      BY <2>1, <2>2, <2>3
  <1>4. \A e \in 0..N : DoneOf(in, gone, e) = FlattenSeq([k \in 1..e |-> x[k]])
    <2> SUFFICES ASSUME NEW e \in 0..N PROVE DoneOf(in, gone, e) = FlattenSeq([k \in 1..e |-> x[k]])
      OBVIOUS
    <2>1. \A k \in 1..e : x[k] = OwedOf(in, gone, NamesOf(in)[k])
      BY <1>1
    <2> HIDE DEF x
    <2>2. [k \in 1..e |-> x[k]] = [k \in 1..e |-> OwedOf(in, gone, NamesOf(in)[k])]
      BY <2>1
    <2> QED
      BY <2>2 DEF DoneOf
  <1> HIDE DEF x
  <1>5. was = FlattenSeq([k \in 1..d |-> x[k]]) /\ all = FlattenSeq([k \in 1..N |-> x[k]])
    <2>1. N \in 0..N /\ d \in 0..N
      BY <1>1
    <2> QED
      BY <1>4, <2>1
  <1>6. Len(was) <= Len(all) /\ \A j \in 1..Len(was) : all[j] = was[j]
    <2>0. d \in 0..N /\ N \in Nat
      BY <1>1
    <2> HIDE DEF N
    <2>1. Begins(FlattenSeq([k \in 1..d |-> x[k]]), FlattenSeq([k \in 1..N |-> x[k]]))
      BY <1>3, <2>0, FlattenPrefix
    <2> QED
      BY <1>5, <2>1 DEF Begins
  <1>7. was \in Seq(S) /\ all \in Seq(S)
    <2>1. Len(NamesOf(in)) \in 0..Len(NamesOf(in))
      BY <1>1
    <2> QED
      BY <1>2, <2>1
  <1> QED
    BY <1>6, <1>7

(* What is owed is what the first files owe, of all of them. *)
LEMMA OwedIs ==
  ASSUME input \in Inputs, input.op = "stream"
  PROVE  OwedObjects = DoneOf(input, skipped, Len(NamesOf(input)))
  <1> DEFINE names == NamesOf(input)
  <1>1. DOMAIN names = 1..Len(names)
    BY NamesFacts
  <1>2. \A name : OwedFor(name) = OwedOf(input, skipped, name)
    BY DEF OwedFor, OwedOf
  <1>3. OwedObjects = FlattenSeq([n \in DOMAIN names |-> OwedFor(names[n])])
    BY DEF OwedObjects, NamesOf
  <1>4. [n \in DOMAIN names |-> OwedFor(names[n])] = [n \in 1..Len(names) |-> OwedOf(input, skipped, names[n])]
    BY <1>1, <1>2
  <1> QED
    BY <1>3, <1>4 DEF DoneOf

(* What is left when the call ends, and what is written until then *)
LEMMA StreamEnds ==
  ASSUME Streaming, input \in Inputs, input.op = "stream", result = "ok"
  PROVE  out = WholeArray
  <1> DEFINE N == Len(NamesOf(input))
             all == DoneOf(input, skipped, N)
  <1>1. Wrote(input, skipped, files, recs, comma, out, "ok")
    <2>1. started
      BY DEF Streaming
    <2> QED
      BY <2>1 DEF Streaming
  <1>2. PICK d, w : /\ At(input, skipped, files, recs, comma, d, w)
                    /\ files = <<>> /\ recs = <<>>
                    /\ \E p : /\ Shape(p, DoneOf(input, skipped, d), w, FALSE)
                              /\ out = Append(p, Piece("]", <<>>))
    BY <1>1 DEF Wrote
  <1>3. PICK p : /\ Shape(p, DoneOf(input, skipped, d), w, FALSE)
                 /\ out = Append(p, Piece("]", <<>>))
    BY <1>2
  <1>4. N \in Nat
    BY NamesFacts
  <1>5. d = N /\ w = Len(all) /\ w \in Nat
    <2>1. d \in 0..N /\ Len(files) = N - d /\ w \in Nat /\ Len(DoneOf(input, skipped, d)) = w + Len(recs)
      BY <1>2 DEF At
    <2>2. Len(files) = 0 /\ Len(recs) = 0
      BY <1>2
    <2>3. d = N
      BY <1>4, <2>1, <2>2
    <2> QED
      BY <2>1, <2>2, <2>3
  <1>6. PICK m \in Nat : p = Part(all, m) /\ (w = 0 => m = 1) /\ (w > 0 => m = 2 * w)
    BY <1>3, <1>5 DEF Shape
  <1>7. PICK S : all \in Seq(S)
    <2>1. N \in 0..N
      BY <1>4
    <2> QED
      BY <2>1, DoneFirst
  <1> HIDE DEF all
  <1>8. Array(all) = Append(Part(all, m), Piece("]", <<>>))
    BY <1>5, <1>6, <1>7, ArrayIs
  <1>9. WholeArray = Array(all)
    BY OwedIs DEF WholeArray, all
  <1> QED
    BY <1>3, <1>6, <1>8, <1>9

(* What is written is a beginning of the array. *)
LEMMA StreamGrows ==
  ASSUME Streaming, input \in Inputs, input.op = "stream"
  PROVE  /\ \A i \in DOMAIN IntactOf(out) : IntactOf(out)[i].whole
         /\ IsPrefix(IntactOf(out), WholeArray)
         /\ result = "error" => IntactOf(out) # WholeArray
  <1> DEFINE N == Len(NamesOf(input))
             all == DoneOf(input, skipped, N)
             o == IntactOf(out)
             arr == WholeArray
  <1>1. N \in Nat
    BY NamesFacts
  <1>2. PICK S : all \in Seq(S)
    <2>1. N \in 0..N
      BY <1>1
    <2> QED
      BY <2>1, DoneFirst
  <1>3. arr = Array(all)
    BY OwedIs DEF WholeArray
  <1> HIDE DEF all, arr
  <1>4. /\ Len(arr) \in Nat /\ arr # <<>> /\ IntactOf(arr) = arr
        /\ \A i \in DOMAIN arr : arr[i].whole = TRUE
        /\ IsPrefix(arr, arr) /\ IsPrefix(<<>>, arr)
    BY <1>2, <1>3, ArrayWhole
  <1>5. CASE ~started
    <2>1. o = <<>>
      BY <1>5 DEF Streaming
    <2> HIDE DEF o
    <2>2. DOMAIN o = {}
      BY <2>1
    <2> QED
      BY <1>4, <2>1, <2>2 DEF o, arr
  <1>6. CASE result = "ok"
    <2>1. out = arr
      BY <1>6, StreamEnds DEF arr
    <2>2. o = arr
      BY <1>4, <2>1
    <2> HIDE DEF o
    <2> QED
      BY <1>4, <1>6, <2>2 DEF o, arr
  <1>7. CASE started /\ result # "ok"
    <2>1. Wrote(input, skipped, files, recs, comma, out, result)
      BY <1>7 DEF Streaming
    <2>2. PICK d, w : /\ At(input, skipped, files, recs, comma, d, w)
                      /\ Shape(o, DoneOf(input, skipped, d), w, recs # <<>>)
      BY <1>7, <2>1 DEF Wrote
    <2> DEFINE was == DoneOf(input, skipped, d)
    <2>3. d \in 0..N /\ w \in Nat /\ IsSequence(recs) /\ Len(was) = w + Len(recs)
      BY <2>2 DEF At
    <2>4. PICK Q : /\ was \in Seq(Q) /\ all \in Seq(Q)
                   /\ Len(was) <= Len(all) /\ \A j \in 1..Len(was) : all[j] = was[j]
      BY <2>3, DoneFirst DEF all
    <2>5. Len(recs) \in Nat /\ (recs # <<>> => Len(recs) > 0)
      <3>1. recs \in Seq({recs[i] : i \in 1..Len(recs)})
        BY <2>3, IsSeq
      <3> DEFINE R == {recs[i] : i \in 1..Len(recs)}
      <3> HIDE DEF R
      <3>2. recs \in Seq(R)
        BY <3>1 DEF R
      <3> QED
        BY <3>2
    <2> HIDE DEF was, o
    <2>6. w <= Len(all) /\ (recs # <<>> => w < Len(all)) /\ \A i \in 1..w : all[i] = was[i]
      <3>1. Len(all) \in Nat
        BY <2>4
      <3> QED
        BY <2>3, <2>4, <2>5, <3>1
    <2>7. Shape(o, was, w, recs # <<>>)
      BY <2>2 DEF was
    <2>8. /\ IsPrefix(o, arr) /\ o # arr
          /\ \A i \in DOMAIN o : o[i].whole
      <3> DEFINE more == (recs # <<>>)
      <3>1. Shape(o, was, w, more) /\ (more => w < Len(all))
        BY <2>6, <2>7
      <3> HIDE DEF more
      <3>2. IsPrefix(o, Array(all)) /\ o # Array(all) /\ \A i \in DOMAIN o : o[i].whole
        BY <2>3, <2>4, <2>6, <3>1, ArrayPrefix
      <3> QED
        BY <1>3, <3>2
    <2> QED
      BY <2>8 DEF o, arr
  <1> QED
    BY <1>5, <1>6, <1>7

(* When StreamFromDir returns no error, its output is the whole array, of *)
(* every directory and every list of mappings.                            *)
THEOREM StreamIsComplete == Spec => []StreamComplete
  <1>1. StreamInv /\ input \in Inputs /\ [Next]_vars => StreamInv'
    BY StreamStep
  <1>2. StreamInv /\ input \in Inputs => StreamComplete
    BY StreamEnds DEF StreamInv, StreamComplete
  <1> QED
    BY <1>1, <1>2, StreamStart, InputKept, PTL DEF Spec

(* At every moment, also after an error, the output is a beginning of that *)
(* array, and after an error it is not all of it.                          *)
THEOREM OutputIsAlwaysPrefix == Spec => []OutputIsPrefix
  <1>1. StreamInv /\ input \in Inputs /\ [Next]_vars => StreamInv'
    BY StreamStep
  <1>2. StreamInv /\ input \in Inputs => OutputIsPrefix
    <2> SUFFICES ASSUME StreamInv, input \in Inputs, input.op = "stream"
                 PROVE  LET intact == IntactOf(out)
                        IN /\ \A i \in DOMAIN intact : intact[i].whole
                           /\ IsPrefix(intact, WholeArray)
                           /\ result = "error" => intact # WholeArray
      BY DEF OutputIsPrefix, IntactOf
    <2> QED
      BY StreamGrows DEF StreamInv
  <1> QED
    BY <1>1, <1>2, StreamStart, InputKept, PTL DEF Spec
=============================================================================
