--------------------------- MODULE PipelineProofs ---------------------------
(***************************************************************************)
(* Proofs about Pipeline, for any set of pipelines an author may begin     *)
(* with, of any number of transforms and any options.                      *)
(***************************************************************************)
EXTENDS Pipeline, SequenceTheorems, WellFoundedInduction, TLAPS

-----------------------------------------------------------------------------
(* Numbers and folds *)

(* A set of numbers that is not empty has a least one.                     *)
LEMMA NatMin ==
  ASSUME NEW T, T \subseteq Nat, T # {}
  PROVE  \E x \in T : \A y \in T : x <= y
  <1> DEFINE R == OpToRel(<, Nat)
  <1>1. PICK x \in T : \A y \in T : ~ (<<y, x>> \in R)
    BY NatLessThanWellFounded, WFMin, Zenon
  <1>2. \A a \in Nat, b \in Nat : b < a => <<b, a>> \in R
    BY DEF OpToRel
  <1> HIDE DEF R
  <1>3. ASSUME NEW y \in T PROVE ~ (y < x)
    BY <1>1, <1>2, Zenon
  <1>4. \A y \in T : x <= y
    BY <1>3
  <1> QED
    BY <1>4

(* A set of numbers up to n has a greatest one: the one at the least      *)
(* distance from n.                                                        *)
LEMMA MaxOf ==
  ASSUME NEW n \in Nat, NEW s \in SUBSET (1..n), s # {}
  PROVE  Max(s) \in s /\ \A y \in s : Max(s) >= y
  <1> DEFINE T == {n - x : x \in s}
  <1>1. T \subseteq Nat /\ T # {}
    <2>1. \A x \in s : x \in Nat /\ n - x \in Nat
      OBVIOUS
    <2> QED
      BY <2>1
  <1>2. PICK t \in T : \A y \in T : t <= y
    BY <1>1, NatMin
  <1>3. PICK x \in s : t = n - x
    BY <1>2
  <1>4. \A y \in s : x >= y
    <2> SUFFICES ASSUME NEW y \in s PROVE x >= y
      OBVIOUS
    <2>1. n - y \in T
      OBVIOUS
    <2>2. n - x <= n - y
      BY <2>1, <1>2, <1>3
    <2>3. x \in Int /\ y \in Int
      OBVIOUS
    <2> QED
      BY <2>2, <2>3
  <1> QED
    BY <1>4 DEF Max

(* The fold of StringSlice, one member of the array at a time.  FoldLeft   *)
(* is a recursive function on the subsets of 1..Len(seq); that one exists  *)
(* is shown for the least length at which there would be none.             *)
LEMMA FoldTexts ==
  ASSUME NEW S, NEW base, NEW seq \in Seq(S)
  PROVE  \E f : /\ f[0] = base
                /\ \A k \in 1..Len(seq) : f[k] = WithText(f[k - 1], seq[k])
                /\ f[Len(seq)] = FoldLeft(WithText, base, seq)
  <1> DEFINE n == Len(seq)
             Add(g, s) == WithText(g[s \ {Max(s)}], seq[Max(s)])
             Eqn(g, m) == g = [s \in SUBSET (1..m) |-> IF s = {} THEN base ELSE Add(g, s)]
             iter == CHOOSE g : Eqn(g, n)
  <1>1. n \in Nat /\ DOMAIN seq = 1..n
    OBVIOUS
  <1>2. FoldLeft(WithText, base, seq) = iter[1..n]
    BY <1>1 DEF FoldLeft, MapThenFoldSet
  <1> HIDE DEF n, Add
  <1>3. ASSUME NEW m \in Nat, m > 0, NEW g, NEW h, NEW s \in SUBSET (1..m), s # {},
               \A t \in SUBSET (1..(m - 1)) : g[t] = h[t]
        PROVE  Add(g, s) = Add(h, s)
    <2>1. Max(s) \in 1..m /\ \A y \in s : Max(s) >= y
      BY <1>3, MaxOf
    <2>2. s \ {Max(s)} \in SUBSET (1..(m - 1))
      <3> DEFINE x == Max(s)
      <3> HIDE DEF x
      <3>1. x \in 1..m /\ \A y \in s : x >= y
        BY <2>1 DEF x
      <3>2. ASSUME NEW y \in s, y # x PROVE y \in 1..(m - 1)
        <4>1. y \in 1..m /\ x >= y
          BY <3>1
        <4> QED
          BY <4>1, <3>1, <3>2, <1>3
      <3> QED
        BY <3>2 DEF x
    <2> QED
      BY <2>2, <1>3 DEF Add
  <1>4. \A m \in Nat : \E g : Eqn(g, m)
    <2> DEFINE Bad == {m \in Nat : ~ \E g : Eqn(g, m)}
    <2>1. SUFFICES ASSUME Bad # {} PROVE FALSE
      OBVIOUS
    <2>2. PICK m \in Bad : \A k \in Bad : m <= k
      <3>1. Bad \subseteq Nat
        OBVIOUS
      <3> HIDE DEF Bad
      <3> QED
        BY <2>1, <3>1, NatMin
    <2>3. m # 0
      <3>1. SUBSET (1..0) = {{}}
        OBVIOUS
      <3>2. Eqn([s \in SUBSET (1..0) |-> base], 0)
        BY <3>1
      <3> QED
        BY <3>2
    <2>4. m - 1 \in Nat /\ m - 1 \notin Bad
      <3> HIDE DEF Bad
      <3>1. m \in Nat
        BY DEF Bad
      <3> QED
        BY <2>2, <2>3, <3>1
    <2>5. PICK g : Eqn(g, m - 1)
      BY <2>4
    <2> DEFINE h == [s \in SUBSET (1..m) |-> IF s = {} THEN base ELSE Add(g, s)]
    <2>6. \A t \in SUBSET (1..(m - 1)) : g[t] = h[t]
      <3> SUFFICES ASSUME NEW t \in SUBSET (1..(m - 1)) PROVE g[t] = h[t]
        OBVIOUS
      <3>1. t \in SUBSET (1..m)
        BY <2>4
      <3> QED
        BY <3>1, <2>5
    <2>7. Eqn(h, m)
      <3> HIDE DEF h, Bad
      <3>1. \A s \in SUBSET (1..m) : s # {} => Add(g, s) = Add(h, s)
        BY <2>6, <2>3, <2>2, <1>3 DEF Bad
      <3> QED
        BY <3>1 DEF h
    <2> QED
      BY <2>7, <2>2
  <1>5. Eqn(iter, n)
    BY <1>1, <1>4
  <1> HIDE DEF iter
  <1> DEFINE f == [k \in 0..n |-> iter[1..k]]
  <1>6. f[0] = base
    <2>1. 1..0 = {} /\ {} \in SUBSET (1..n) /\ 0 \in 0..n
      BY <1>1
    <2> QED
      BY <2>1, <1>5
  <1>7. ASSUME NEW k \in 1..n PROVE f[k] = WithText(f[k - 1], seq[k])
    <2>1. 1..k \in SUBSET (1..n) /\ 1..k # {} /\ k \in 0..n /\ k - 1 \in 0..n
      BY <1>1
    <2>2. Max(1..k) = k
      <3>1. Max(1..k) \in 1..k /\ \A y \in 1..k : Max(1..k) >= y
        BY <1>1, <2>1, MaxOf
      <3> QED
        BY <3>1, <1>1
    <2>3. (1..k) \ {k} = 1..(k - 1)
      BY <1>1
    <2>4. iter[1..k] = Add(iter, 1..k)
      BY <2>1, <1>5
    <2> QED
      BY <2>1, <2>2, <2>3, <2>4 DEF Add
  <1>8. f[n] = iter[1..n]
    BY <1>1
  <1> QED
    BY <1>2, <1>6, <1>7, <1>8 DEF n

(* The texts of a list of texts are that list.                             *)
LEMMA TextsOfTexts ==
  ASSUME NEW s \in Seq(Seq(STRING))
  PROVE  FoldLeft(WithText, <<>>, [i \in DOMAIN s |-> [str |-> s[i]]]) = s
  <1> DEFINE array == [i \in DOMAIN s |-> [str |-> s[i]]]
             n == Len(s)
  <1>1. n \in Nat /\ DOMAIN s = 1..n
    OBVIOUS
  <1>2. array \in Seq([str : Seq(STRING)]) /\ Len(array) = n
    <2>1. array \in [1..n -> [str : Seq(STRING)]]
      BY <1>1
    <2> HIDE DEF array, n
    <2>2. array \in UNION {[1..m -> [str : Seq(STRING)]] : m \in Nat}
      BY <1>1, <2>1
    <2>3. array \in Seq([str : Seq(STRING)])
      BY <2>2, SeqDef
    <2>4. DOMAIN array = 1..Len(array) /\ Len(array) \in Nat
      BY <2>3, LenProperties
    <2>5. 1..Len(array) = 1..n
      BY <2>1, <2>4
    <2>6. Len(array) = n
      <3>1. \A a, b \in Nat : 1..a = 1..b => ~(a < b)
        <4> SUFFICES ASSUME NEW a \in Nat, NEW b \in Nat, a < b PROVE 1..a # 1..b
          OBVIOUS
        <4>1. b \in 1..b /\ b \notin 1..a
          OBVIOUS
        <4> QED
          BY <4>1
      <3>2. n \in Nat
        BY <1>1
      <3>3. ~(Len(array) < n) /\ ~(n < Len(array))
        BY <2>4, <2>5, <3>1, <3>2, Zenon
      <3>4. \A a, b \in Nat : ~(a < b) /\ ~(b < a) => a = b
        OBVIOUS
      <3> QED
        BY <2>4, <3>2, <3>3, <3>4, Zenon
    <2> QED
      BY <2>3, <2>6
  <1>3. \A i \in 1..n : array[i] = [str |-> s[i]]
    BY <1>1
  <1> HIDE DEF array, n
  <1>4. PICK f : /\ f[0] = <<>>
                 /\ \A k \in 1..n : f[k] = WithText(f[k - 1], array[k])
                 /\ f[n] = FoldLeft(WithText, <<>>, array)
    BY <1>2, FoldTexts
  <1>5. ASSUME NEW k \in 1..n, f[k - 1] = SubSeq(s, 1, k - 1) PROVE f[k] = SubSeq(s, 1, k)
    <2>1. f[k] = Append(f[k - 1], s[k])
      <3>1. f[k] = WithText(f[k - 1], array[k]) /\ array[k] = [str |-> s[k]]
        BY <1>3, <1>4
      <3>2. \A x, v : WithText(x, [str |-> v]) = Append(x, v)
        BY DEF WithText
      <3> QED
        BY <3>1, <3>2, Zenon
    <2>2. SubSeq(s, 1, k) = Append(SubSeq(s, 1, k - 1), s[k])
      <3>1. 1 \in 1..Len(s) /\ k \in 1..Len(s)
        BY <1>1 DEF n
      <3>2. SubSeq(s, 1, k) = SubSeq(s, 1, k - 1) \o <<s[k]>>
        BY <3>1, SubSeqRecursiveSecond
      <3>3. SubSeq(s, 1, k - 1) \in Seq(Seq(STRING)) /\ s[k] \in Seq(STRING)
        BY <3>1
      <3> QED
        BY <3>2, <3>3, AppendIsConcat, Zenon
    <2> QED
      BY <1>5, <2>1, <2>2
  <1>6. \A k \in 0..n : f[k] = SubSeq(s, 1, k)
    <2> DEFINE Bad == {k \in 0..n : f[k] # SubSeq(s, 1, k)}
    <2>1. SUFFICES ASSUME Bad # {} PROVE FALSE
      OBVIOUS
    <2>2. PICK k \in Bad : \A j \in Bad : k <= j
      <3>1. Bad \subseteq Nat
        BY <1>1
      <3> HIDE DEF Bad
      <3> QED
        BY <2>1, <3>1, NatMin
    <2>3. k \in 0..n /\ f[k] # SubSeq(s, 1, k)
      OBVIOUS
    <2>4. k # 0
      <3>1. SubSeq(s, 1, 0) = <<>>
        OBVIOUS
      <3> QED
        BY <1>4, <2>3, <3>1
    <2>5. k \in 1..n /\ k - 1 \in 0..n /\ k - 1 \notin Bad
      <3>1. k \in 1..n /\ k - 1 \in 0..n /\ k - 1 < k
        BY <1>1, <2>3, <2>4
      <3> HIDE DEF Bad
      <3>2. ~ (k <= k - 1)
        BY <1>1, <3>1
      <3> QED
        BY <2>2, <3>1, <3>2
    <2>6. f[k - 1] = SubSeq(s, 1, k - 1)
      BY <2>5
    <2> QED
      BY <1>5, <2>3, <2>5, <2>6
  <1>7. f[n] = SubSeq(s, 1, n) /\ SubSeq(s, 1, n) = s
    BY <1>1, <1>6 DEF n
  <1> QED
    BY <1>4, <1>7 DEF array

-----------------------------------------------------------------------------
(* encoding/json *)

(* A float64 holds the integers up to MaxExact.                            *)
LEMMA ExactFloat == \A n \in -MaxExact..MaxExact : Float64(n) = n
  <1>1. ASSUME NEW m \in 0..MaxExact PROVE Nearest(m) = m
    <2> DEFINE U == {u \in {1, 2, 4, 8, 16, 32, 64, 128, 256, 512, 1024} : m <= MaxExact * u}
    <2>1. m \in Nat /\ m <= MaxExact * 1
      BY <1>1, ExactAssumption
    <2>2. 1 \in U /\ \A u \in U : u \in Nat /\ 1 <= u
      BY <2>1
    <2>3. Unit(m) = Min(U)
      BY DEF Unit
    <2> HIDE DEF U
    <2>4. Min(U) = 1
      BY <2>2 DEF Min
    <2>5. Unit(m) = 1
      BY <2>3, <2>4
    <2>6. m \div 1 = m /\ m % 1 = 0
      BY <2>1
    <2> QED
      BY <2>1, <2>5, <2>6 DEF Nearest
  <1> SUFFICES ASSUME NEW n \in -MaxExact..MaxExact PROVE Float64(n) = n
    OBVIOUS
  <1>2. n \in Int /\ MaxExact \in Nat
    BY ExactAssumption
  <1>3. CASE n >= 0
    <2>1. n \in 0..MaxExact
      BY <1>2, <1>3
    <2> QED
      BY <1>1, <1>3, <2>1 DEF Float64
  <1>4. CASE ~(n >= 0)
    <2>1. -n \in 0..MaxExact /\ -(-n) = n
      BY <1>2, <1>4
    <2> QED
      BY <1>1, <1>4, <2>1 DEF Float64
  <1> QED
    BY <1>3, <1>4

(* A value has one type, and holds others if it is an object or an array.  *)
LEMMA TypeOf ==
  ASSUME NEW v, NEW types, OneField(v, types)
  PROVE  \E type \in types : DOMAIN v = {type} /\ v = [t \in {type} |-> v[type]]
  BY DEF OneField

LEMMA InsideOf ==
  ASSUME NEW v, NEW type, DOMAIN v = {type}
  PROVE  /\ type = "object" => Inside(v) = {v.object[k] : k \in DOMAIN v.object}
         /\ type = "array" => Inside(v) = {v.array[i] : i \in DOMAIN v.array}
         /\ type \notin {"object", "array"} => Inside(v) = {}
  BY DEF Inside

(* What encoding/json makes of a value, by its type.                       *)
LEMMA JSONOf ==
  ASSUME NEW v, NEW type, DOMAIN v = {type}
  PROVE  /\ type = "int" => ThroughJSON(v) = [float |-> 2 * Float64(v.int)]
         /\ type = "object" =>
              ThroughJSON(v) = [object |-> [k \in DOMAIN v.object |-> Member(v.object[k])]]
         /\ type = "array" =>
              ThroughJSON(v) = [array |-> [i \in DOMAIN v.array |-> Member(v.array[i])]]
         /\ type = "other" => ThroughJSON(v) = v.other
         /\ type \notin {"int", "strings", "stringmap", "object", "array", "other"} => ThroughJSON(v) = v
  <1>1. CASE type = "int"
    BY <1>1 DEF ThroughJSON
  <1>2. CASE type = "object"
    BY <1>2 DEF ThroughJSON
  <1>3. CASE type = "array"
    BY <1>3 DEF ThroughJSON
  <1>4. CASE type = "other"
    BY <1>4 DEF ThroughJSON, Member
  <1>5. CASE type \notin {"int", "strings", "stringmap", "object", "array", "other"}
    BY <1>5 DEF ThroughJSON, Member
  <1> QED
    BY <1>1, <1>2, <1>3, <1>4, <1>5

LEMMA StringsOf ==
  ASSUME NEW v, DOMAIN v = {"strings"}, NEW f, f = [i \in DOMAIN v.strings |-> [str |-> v.strings[i]]]
  PROVE  ThroughJSON(v) = [array |-> f]
  BY DEF ThroughJSON

LEMMA StringMapOf ==
  ASSUME NEW v, DOMAIN v = {"stringmap"}, NEW f,
         f = [k \in DOMAIN v.stringmap |-> [str |-> v.stringmap[k]]]
  PROVE  ThroughJSON(v) = [object |-> f]
  BY DEF ThroughJSON

(* Storing a value json.Unmarshal made leaves it alone.                    *)
LEMMA JSONStays ==
  ASSUME NEW w, IsJSON(w)
  PROVE  ThroughJSON(w) = w /\ Marshals(w) /\ IsValue(w)
  <1>1. PICK type \in JSONTypes : DOMAIN w = {type} /\ w = [t \in {type} |-> w[type]]
    BY TypeOf DEF IsJSON
  <1>2. \A v \in Inside(w) : "other" \notin DOMAIN v /\ "chan" \notin DOMAIN v /\ Member(v) = v
    BY DEF IsJSON, Member
  <1>3. Marshals(w)
    BY <1>1, <1>2 DEF Marshals, JSONTypes
  <1>4. IsValue(w)
    BY <1>1, <1>2 DEF IsValue, IsJSON, OneField, GoTypes, JSONTypes
  <1>5. CASE type = "object"
    <2>1. \A k \in DOMAIN w.object : Member(w.object[k]) = w.object[k]
      BY <1>1, <1>2, <1>5, InsideOf
    <2>2. w.object = [k \in DOMAIN w.object |-> w.object[k]]
      BY <1>1, <1>5 DEF IsJSON, AreMaps
    <2>3. [k \in DOMAIN w.object |-> Member(w.object[k])] = w.object
      BY <2>1, <2>2
    <2>4. ThroughJSON(w) = [object |-> w.object]
      BY <1>1, <1>5, <2>3, JSONOf
    <2>5. w = [object |-> w.object]
      BY <1>1, <1>5
    <2> QED
      BY <1>3, <1>4, <2>4, <2>5
  <1>6. CASE type = "array"
    <2>1. \A i \in DOMAIN w.array : Member(w.array[i]) = w.array[i]
      BY <1>1, <1>2, <1>6, InsideOf
    <2>2. w.array = [i \in DOMAIN w.array |-> w.array[i]]
      BY <1>1, <1>6 DEF IsJSON, AreMaps
    <2>3. [i \in DOMAIN w.array |-> Member(w.array[i])] = w.array
      BY <2>1, <2>2
    <2>4. ThroughJSON(w) = [array |-> w.array]
      BY <1>1, <1>6, <2>3, JSONOf
    <2>5. w = [array |-> w.array]
      BY <1>1, <1>6
    <2> QED
      BY <1>3, <1>4, <2>4, <2>5
  <1>7. CASE type \notin {"object", "array"}
    BY <1>1, <1>3, <1>4, <1>7, JSONOf DEF JSONTypes
  <1> QED
    BY <1>5, <1>6, <1>7

(* An object, or an array, of JSON is JSON.                                *)
LEMMA ContainerJSON ==
  ASSUME NEW f, f = [k \in DOMAIN f |-> f[k]],
         \A k \in DOMAIN f : DOMAIN f[k] \cap {"other", "chan"} = {}
  PROVE  IsJSON([object |-> f]) /\ IsJSON([array |-> f])
  <1>3. ASSUME NEW w, w = [object |-> f] PROVE IsJSON(w)
    <2>1. DOMAIN w = {"object"} /\ w.object = f /\ w = [t \in {"object"} |-> w["object"]]
      BY <1>3
    <2>2. Inside(w) = {f[k] : k \in DOMAIN f}
      BY <2>1, InsideOf
    <2> QED
      BY <2>1, <2>2 DEF IsJSON, OneField, AreMaps, JSONTypes
  <1>4. ASSUME NEW w, w = [array |-> f] PROVE IsJSON(w)
    <2>1. DOMAIN w = {"array"} /\ w.array = f /\ w = [t \in {"array"} |-> w["array"]]
      BY <1>4
    <2>2. Inside(w) = {f[k] : k \in DOMAIN f}
      BY <2>1, InsideOf
    <2> QED
      BY <2>1, <2>2 DEF IsJSON, OneField, AreMaps, JSONTypes
  <1> QED
    BY <1>3, <1>4

(* What json.Marshal takes comes back as JSON.                             *)
LEMMA JSONMade ==
  ASSUME NEW v, IsValue(v), Marshals(v)
  PROVE  IsJSON(ThroughJSON(v))
  <1>1. PICK type \in GoTypes : DOMAIN v = {type} /\ v = [t \in {type} |-> v[type]]
    BY TypeOf DEF IsValue
  <1>2. \A m \in Inside(v) : DOMAIN Member(m) \cap {"other", "chan"} = {}
    <2> SUFFICES ASSUME NEW m \in Inside(v) PROVE DOMAIN Member(m) \cap {"other", "chan"} = {}
      OBVIOUS
    <2>1. CASE "other" \in DOMAIN m
      <3>1. IsJSON(m.other) /\ Member(m) = m.other
        BY <2>1 DEF IsValue, Member
      <3>2. PICK t \in JSONTypes : DOMAIN m.other = {t}
        BY <3>1, TypeOf DEF IsJSON
      <3> QED
        BY <3>1, <3>2 DEF JSONTypes
    <2>2. CASE "other" \notin DOMAIN m
      BY <2>2 DEF Member, Marshals
    <2> QED
      BY <2>1, <2>2
  <1>3. CASE type = "object"
    <2> PICK f : f = [k \in DOMAIN v.object |-> Member(v.object[k])]
      OBVIOUS
    <2>1. DOMAIN f = DOMAIN v.object /\ \A k \in DOMAIN f : f[k] = Member(v.object[k])
      OBVIOUS
    <2>2. \A k \in DOMAIN f : DOMAIN f[k] \cap {"other", "chan"} = {}
      BY <1>1, <1>2, <1>3, <2>1, InsideOf
    <2>3. f = [k \in DOMAIN f |-> f[k]]
      BY <2>1
    <2>4. ThroughJSON(v) = [object |-> f]
      BY <1>1, <1>3, JSONOf
    <2> QED
      BY <2>2, <2>3, <2>4, ContainerJSON
  <1>4. CASE type = "array"
    <2> PICK f : f = [k \in DOMAIN v.array |-> Member(v.array[k])]
      OBVIOUS
    <2>1. DOMAIN f = DOMAIN v.array /\ \A k \in DOMAIN f : f[k] = Member(v.array[k])
      OBVIOUS
    <2>2. \A k \in DOMAIN f : DOMAIN f[k] \cap {"other", "chan"} = {}
      BY <1>1, <1>2, <1>4, <2>1, InsideOf
    <2>3. f = [k \in DOMAIN f |-> f[k]]
      BY <2>1
    <2>4. ThroughJSON(v) = [array |-> f]
      BY <1>1, <1>4, JSONOf
    <2> QED
      BY <2>2, <2>3, <2>4, ContainerJSON
  <1>5. \A x : DOMAIN [str |-> x] \cap {"other", "chan"} = {}
    <2>1. \A x : DOMAIN [str |-> x] = {"str"}
      OBVIOUS
    <2> QED
      BY <2>1
  <1>6. CASE type = "strings"
    <2> PICK f : f = [k \in DOMAIN v.strings |-> [str |-> v.strings[k]]]
      OBVIOUS
    <2>1. DOMAIN f = DOMAIN v.strings /\ \A k \in DOMAIN f : f[k] = [str |-> v.strings[k]]
      OBVIOUS
    <2>2. \A k \in DOMAIN f : DOMAIN f[k] \cap {"other", "chan"} = {}
      BY <1>5, <2>1
    <2>3. f = [k \in DOMAIN f |-> f[k]]
      BY <2>1
    <2>4. ThroughJSON(v) = [array |-> f]
      BY <1>1, <1>6, StringsOf
    <2> QED
      BY <2>2, <2>3, <2>4, ContainerJSON
  <1>7. CASE type = "stringmap"
    <2> PICK f : f = [k \in DOMAIN v.stringmap |-> [str |-> v.stringmap[k]]]
      OBVIOUS
    <2>1. DOMAIN f = DOMAIN v.stringmap /\ \A k \in DOMAIN f : f[k] = [str |-> v.stringmap[k]]
      OBVIOUS
    <2>2. \A k \in DOMAIN f : DOMAIN f[k] \cap {"other", "chan"} = {}
      BY <1>5, <2>1
    <2>3. f = [k \in DOMAIN f |-> f[k]]
      BY <2>1
    <2>4. ThroughJSON(v) = [object |-> f]
      BY <1>1, <1>7, StringMapOf
    <2> QED
      BY <2>2, <2>3, <2>4, ContainerJSON
  <1>8. CASE type = "other"
    BY <1>1, <1>8, JSONOf DEF IsValue
  <1>9. ASSUME NEW w, NEW t \in JSONTypes \ {"object", "array"}, DOMAIN w = {t}, w = [u \in {t} |-> w[t]]
        PROVE  IsJSON(w)
    <2>1. Inside(w) = {}
      BY <1>9, InsideOf
    <2> QED
      BY <1>9, <2>1 DEF IsJSON, OneField, AreMaps
  <1>10. CASE type = "int"
    <2> PICK w : w = ThroughJSON(v)
      OBVIOUS
    <2>1. w = [float |-> 2 * Float64(v.int)]
      BY <1>1, <1>10, JSONOf
    <2>2. DOMAIN w = {"float"} /\ w = [u \in {"float"} |-> w["float"]]
      BY <2>1
    <2> QED
      BY <1>9, <2>2 DEF JSONTypes
  <1>11. CASE type \in JSONTypes \ {"object", "array"}
    <2>1. ThroughJSON(v) = v
      BY <1>1, <1>11, JSONOf DEF JSONTypes
    <2> QED
      BY <1>1, <1>9, <1>11, <2>1
  <1>12. type # "chan"
    BY <1>1 DEF Marshals
  <1> QED
    BY <1>3, <1>4, <1>6, <1>7, <1>8, <1>10, <1>11, <1>12 DEF GoTypes

(* int(n) of a float64 that holds an integer is that integer.              *)
LEMMA WholeKept == \A n \in Int : Truncated(2 * n) = n
  <1> SUFFICES ASSUME NEW n \in Int PROVE Truncated(2 * n) = n
    OBVIOUS
  <1>1. \A m \in Nat : (2 * m) \div 2 = m
    OBVIOUS
  <1>2. CASE n >= 0
    BY <1>1, <1>2 DEF Truncated
  <1>3. CASE n < 0
    <2>1. -n \in Nat /\ -(2 * n) = 2 * (-n) /\ ~(2 * n >= 0)
      BY <1>3
    <2>2. (-(2 * n)) \div 2 = -n
      BY <1>1, <2>1
    <2> QED
      BY <2>1, <2>2 DEF Truncated
  <1> QED
    BY <1>2, <1>3

-----------------------------------------------------------------------------
(* Options, before and after *)

(* Options that are loaded again have the same keys, with the value        *)
(* encoding/json makes of each.                                            *)
LEMMA Unmarshalled ==
  ASSUME NEW options, IsOptions(options), AllMarshal(options)
  PROVE  /\ DOMAIN UnmarshalJSON(options) = DOMAIN options
         /\ \A key \in DOMAIN options :
              /\ UnmarshalJSON(options)[key] = ThroughJSON(options[key])
              /\ IsValue(options[key]) /\ Marshals(options[key]) /\ IsJSON(ThroughJSON(options[key]))
         /\ IsOptions(UnmarshalJSON(options))
  <1> PICK after : after = UnmarshalJSON(options)
    OBVIOUS
  <1>1. after = [key \in DOMAIN options |-> ThroughJSON(options[key])]
    BY DEF UnmarshalJSON
  <1>2. DOMAIN after = DOMAIN options /\ \A key \in DOMAIN options : after[key] = ThroughJSON(options[key])
    BY <1>1
  <1>3. after = [key \in DOMAIN after |-> after[key]]
    BY <1>1
  <1>4. \A key \in DOMAIN options :
          IsValue(options[key]) /\ Marshals(options[key]) /\ IsJSON(ThroughJSON(options[key]))
    BY JSONMade DEF IsOptions, AllMarshal
  <1>5. \A key \in DOMAIN options : IsValue(after[key])
    BY <1>2, <1>4, JSONStays
  <1>6. IsOptions(after)
    BY <1>2, <1>3, <1>5 DEF IsOptions
  <1> QED
    BY <1>2, <1>4, <1>6

(* Every typed read of a portable value is the same before and after.      *)
LEMMA ValueReadsAlike ==
  ASSUME NEW options, IsOptions(options), AllMarshal(options), NEW key \in DOMAIN options,
         Portable(options[key])
  PROVE  LET after == UnmarshalJSON(options)
         IN /\ \A d : String(options, key, d) = String(after, key, d)
            /\ \A d : Bool(options, key, d) = Bool(after, key, d)
            /\ \A d : IntOption(options, key, d) = IntOption(after, key, d)
            /\ \A d : Rune(options, key, d) = Rune(after, key, d)
            /\ StringSlice(options, key) = StringSlice(after, key)
            /\ StringMap(options, key) \subseteq StringMap(after, key)
            /\ AnyIsNil(options, key) <=> AnyIsNil(after, key)
  <1> PICK v : v = options[key]
    OBVIOUS
  <1> PICK after : after = UnmarshalJSON(options)
    OBVIOUS
  <1> PICK w : w = ThroughJSON(v)
    OBVIOUS
  <1>1. key \in DOMAIN after /\ after[key] = w /\ IsValue(v)
    BY Unmarshalled
  <1>2. PICK type \in GoTypes : DOMAIN v = {type}
    BY <1>1, TypeOf DEF IsValue
  <1>3. CASE type = "int"
    <2>1. v.int \in -MaxExact..MaxExact
      <3>1. ~IsJSON(v)
        BY <1>2, <1>3 DEF IsJSON, OneField, JSONTypes
      <3> QED
        BY <1>2, <1>3, <3>1 DEF Portable
    <2>2. w = [float |-> 2 * v.int] /\ v.int \in Int
      <3>1. w = [float |-> 2 * Float64(v.int)]
        BY <1>2, <1>3, JSONOf
      <3>2. Float64(v.int) = v.int /\ v.int \in Int
        BY <1>1, <1>2, <1>3, <2>1, ExactFloat DEF IsValue
      <3> QED
        BY <3>1, <3>2
    <2>3. DOMAIN w = {"float"} /\ w.float = 2 * v.int
      BY <2>2
    <2>4. \A d : IntOption(options, key, d) = v.int /\ IntOption(after, key, d) = v.int
      BY <1>1, <1>2, <1>3, <2>2, <2>3, WholeKept DEF IntOption, Has
    <2> QED
      BY <1>1, <1>2, <1>3, <2>3, <2>4 DEF String, Bool, Rune, StringSlice, StringMap, AnyIsNil, Has
  <1>4. CASE type = "strings"
    <2> PICK f : f = [i \in DOMAIN v.strings |-> [str |-> v.strings[i]]]
      OBVIOUS
    <2>0. ThroughJSON(v) = [array |-> f]
      BY <1>2, <1>4, StringsOf
    <2>1. w = [array |-> f]
      BY <2>0
    <2>2. DOMAIN w = {"array"} /\ w.array = f
      BY <2>1
    <2>3. FoldLeft(WithText, <<>>, f) = v.strings
      <3>1. v.strings \in Seq(Seq(STRING))
        BY <1>1, <1>2, <1>4 DEF IsValue
      <3> QED
        BY <3>1, TextsOfTexts
    <2>4. StringSlice(options, key) = {v.strings}
      BY <1>1, <1>2, <1>4 DEF StringSlice, Has
    <2>5. StringSlice(after, key) = {FoldLeft(WithText, <<>>, f)}
      BY <1>1, <2>2 DEF StringSlice, Has
    <2> QED
      BY <1>1, <1>2, <1>4, <2>2, <2>3, <2>4, <2>5 DEF String, Bool, IntOption, Rune, StringMap, AnyIsNil, Has
  <1>5. CASE type = "stringmap"
    <2> PICK f : f = [k \in DOMAIN v.stringmap |-> [str |-> v.stringmap[k]]]
      OBVIOUS
    <2>0. ThroughJSON(v) = [object |-> f]
      BY <1>2, <1>5, StringMapOf
    <2>1. w = [object |-> f]
      BY <2>0
    <2>2. DOMAIN w = {"object"}
      BY <2>1
    <2> QED
      BY <1>1, <1>2, <1>5, <2>2 DEF String, Bool, IntOption, Rune, StringSlice, StringMap, AnyIsNil, Has
  <1>6. CASE type \notin {"int", "strings", "stringmap"}
    <2>1. IsJSON(v)
      BY <1>2, <1>6 DEF Portable
    <2>2. w = v
      BY <2>1, JSONStays
    <2>3. \A t : Has(options, key, t) <=> Has(after, key, t)
      BY <1>1, <2>2 DEF Has
    <2> QED
      BY <1>1, <2>2, <2>3 DEF String, Bool, IntOption, Rune, StringSlice, StringMap, AnyIsNil
  <1> QED
    BY <1>3, <1>4, <1>5, <1>6

(* So are the reads the checks make, of a key that may be missing.         *)
LEMMA ReadsKept ==
  ASSUME NEW options, IsOptions(options), AllMarshal(options), NEW key,
         key \in DOMAIN options => Portable(options[key])
  PROVE  /\ IntOption(options, key, 0) = IntOption(UnmarshalJSON(options), key, 0)
         /\ AnyIsNil(options, key) <=> AnyIsNil(UnmarshalJSON(options), key)
  <1> PICK after : after = UnmarshalJSON(options)
    OBVIOUS
  <1>0. DOMAIN after = DOMAIN options
    BY Unmarshalled
  <1>1. CASE key \in DOMAIN options
    BY <1>1, ValueReadsAlike
  <1>2. CASE key \notin DOMAIN options
    BY <1>0, <1>2 DEF IntOption, AnyIsNil, Has
  <1> QED
    BY <1>1, <1>2

(* And a contract of whatever type is checked in its JSON.                 *)
LEMMA ContractKept ==
  ASSUME NEW options, IsOptions(options), AllMarshal(options), NEW i
  PROVE  contractIssues(options, i) = contractIssues(UnmarshalJSON(options), i)
  <1> PICK after : after = UnmarshalJSON(options)
    OBVIOUS
  <1>0. DOMAIN after = DOMAIN options
    BY Unmarshalled
  <1>1. CASE "contract" \notin DOMAIN options
    BY <1>0, <1>1 DEF contractIssues, AnyIsNil
  <1>2. CASE "contract" \in DOMAIN options
    <2> PICK v : v = options["contract"]
      OBVIOUS
    <2> PICK w : w = ThroughJSON(v)
      OBVIOUS
    <2> PICK warning : warning = {Issue("warning", "transform.options.contract", i)}
      OBVIOUS
    <2>1. after["contract"] = w /\ IsJSON(w) /\ IsValue(v) /\ Marshals(v)
      BY <1>2, Unmarshalled
    <2>2. ThroughJSON(w) = w /\ Marshals(w)
      BY <2>1, JSONStays
    <2>3. AnyIsNil(options, "contract") <=> "null" \in DOMAIN v
      BY <1>2 DEF AnyIsNil, Has
    <2>4. AnyIsNil(after, "contract") <=> "null" \in DOMAIN w
      BY <1>0, <1>2, <2>1 DEF AnyIsNil, Has
    <2>5. "null" \in DOMAIN v => "null" \in DOMAIN w
      <3> SUFFICES ASSUME "null" \in DOMAIN v PROVE "null" \in DOMAIN w
        OBVIOUS
      <3>1. PICK type \in GoTypes : DOMAIN v = {type}
        BY <2>1, TypeOf DEF IsValue
      <3>2. type = "null"
        BY <3>1
      <3>3. w = v
        BY <3>1, <3>2, JSONOf
      <3> QED
        BY <3>3
    <2>6. CASE "null" \in DOMAIN v
      BY <2>3, <2>4, <2>5, <2>6 DEF contractIssues
    <2>7. CASE "null" \notin DOMAIN v /\ "null" \in DOMAIN w
      <3>1. IsContract(w) /\ NoFields(w)
        BY <2>7 DEF IsContract, NoFields
      <3>2. contractIssues(options, i) = warning
        BY <2>1, <2>3, <2>7, <3>1 DEF contractIssues
      <3>3. contractIssues(after, i) = warning
        BY <2>4, <2>7 DEF contractIssues
      <3> QED
        BY <3>2, <3>3
    <2>8. CASE "null" \notin DOMAIN v /\ "null" \notin DOMAIN w
      BY <2>1, <2>2, <2>3, <2>4, <2>8 DEF contractIssues
    <2> QED
      BY <2>6, <2>7, <2>8
  <1> QED
    BY <1>1, <1>2

-----------------------------------------------------------------------------
(* The errors of a report *)

(* An issue is its severity, its path and its index.                       *)
LEMMA IssueIs ==
  /\ \A s, x, a, s2, x2, a2 : Issue(s, x, a) = Issue(s2, x2, a2) <=> s = s2 /\ x = x2 /\ a = a2
  /\ \A s, x, a : Issue(s, x, a).severity = s /\ Issue(s, x, a).path = x /\ Issue(s, x, a).at = a
  BY DEF Issue

(* When reports its issue under its condition.                             *)
LEMMA WhenIs ==
  \A c, s, x, e : e \in When(c, s, x) <=> c /\ e = Issue(s, x, 0)
  BY DEF When

(* Each section reports issues only, and these are its errors: the source, *)
LEMMA SourceErrors ==
  ASSUME NEW s
  PROVE  /\ \A e \in validateSource(s) : \E v, x, a : e = Issue(v, x, a)
         /\ \A x, a : Issue("error", x, a) \in validateSource(s) <=>
              /\ a = 0
              /\ \/ x = "source.kind" /\ Blank(s.kind)
                 \/ x = "source.file.path" /\ s.kind = "file" /\ Blank(s.path)
  <1>1. CASE Blank(s.kind)
    <2>1. validateSource(s) = {Issue("error", "source.kind", 0)}
      BY <1>1 DEF validateSource
    <2>2. s.kind # "file"
      BY <1>1 DEF Blank
    <2> QED
      BY <1>1, <2>1, <2>2, IssueIs
  <1>2. CASE ~Blank(s.kind)
    <2>1. \A e : e \in validateSource(s) <=>
            \/ s.kind # "file" /\ e = Issue("warning", "source.kind", 0)
            \/ s.kind = "file" /\ Blank(s.path) /\ e = Issue("error", "source.file.path", 0)
      BY <1>2, WhenIs DEF validateSource
    <2> QED
      BY <1>2, <2>1, IssueIs
  <1> QED
    BY <1>1, <1>2

(* the parser,                                                             *)
LEMMA ParserErrors ==
  ASSUME NEW p
  PROVE  /\ \A e \in validateParser(p) : \E v, x, a : e = Issue(v, x, a)
         /\ \A x, a : Issue("error", x, a) \in validateParser(p) <=>
              a = 0 /\ x = "parser.kind" /\ Blank(p.kind)
  <1>1. CASE Blank(p.kind)
    <2>1. validateParser(p) = {Issue("error", "parser.kind", 0)}
      BY <1>1 DEF validateParser
    <2> QED
      BY <1>1, <2>1, IssueIs
  <1>2. CASE ~Blank(p.kind)
    <2> DEFINE c == /\ p.kind = "csv"
                    /\ IntOption(p.options, "expected_fields", 0) = 0
                    /\ AnyIsNil(p.options, "header_map")
    <2>1. \A e : e \in validateParser(p) =>
            e = Issue("warning", "parser.kind", 0) \/ e = Issue("warning", "parser.options", 0)
      <3>1. validateParser(p) = When(p.kind \notin {"csv", "xml", "json"}, "warning", "parser.kind")
                                \cup When(c, "warning", "parser.options")
        BY <1>2 DEF validateParser
      <3> HIDE DEF c
      <3> QED
        BY <3>1, WhenIs
    <2> QED
      BY <1>2, <2>1, IssueIs
  <1> QED
    BY <1>1, <1>2

(* the contract of a transform,                                            *)
LEMMA ContractErrors ==
  ASSUME NEW options, NEW i
  PROVE  /\ \A e \in contractIssues(options, i) : \E v, x, a : e = Issue(v, x, a)
         /\ \A x, a : Issue("error", x, a) \in contractIssues(options, i) <=>
              a = i /\ x = "transform.options.contract" /\ BadContract(options)
  <1> DEFINE bad == /\ ~AnyIsNil(options, "contract")
                    /\ ~Marshals(options["contract"]) \/ ~IsContract(ThroughJSON(options["contract"]))
             empty == NoFields(ThroughJSON(options["contract"]))
             nil == AnyIsNil(options, "contract")
  <1>1. \A k, e : e \in contractIssues(options, k) <=>
          \/ nil /\ e = Issue("warning", "transform.options.contract", k)
          \/ bad /\ e = Issue("error", "transform.options.contract", k)
          \/ ~nil /\ ~bad /\ empty /\ e = Issue("warning", "transform.options.contract", k)
    BY DEF contractIssues
  <1>2. bad => ~nil
    OBVIOUS
  <1> HIDE DEF bad, empty, nil
  <1>3. BadContract(options) <=> bad
    BY <1>1, <1>2, IssueIs DEF BadContract
  <1> QED
    BY <1>1, <1>3, IssueIs

(* a transform,                                                            *)
LEMMA TransformErrors ==
  ASSUME NEW t, NEW i
  PROVE  /\ \A e \in validateTransform(t, i) : \E v, x, a : e = Issue(v, x, a)
         /\ \A x, a : Issue("error", x, a) \in validateTransform(t, i) <=>
              /\ a = i
              /\ \/ x = "transform.kind" /\ Blank(t.kind)
                 \/ x = "transform.options.contract" /\ t.kind = "validate" /\ BadContract(t.options)
  <1>1. CASE Blank(t.kind)
    <2>1. validateTransform(t, i) = {Issue("error", "transform.kind", i)}
      BY <1>1 DEF validateTransform
    <2>2. t.kind # "validate"
      BY <1>1 DEF Blank
    <2> QED
      BY <1>1, <2>1, <2>2, IssueIs
  <1>2. CASE ~Blank(t.kind)
    <2>1. \A e : e \in validateTransform(t, i) <=>
            \/ t.kind \notin knownKinds /\ e = Issue("warning", "transform.kind", i)
            \/ t.kind = "validate" /\ e \in contractIssues(t.options, i)
      BY <1>2 DEF validateTransform
    <2> QED
      BY <1>2, <2>1, IssueIs, ContractErrors
  <1> QED
    BY <1>1, <1>2

(* the list of transforms,                                                 *)
LEMMA TransformsErrors ==
  ASSUME NEW ts
  PROVE  /\ \A e \in validateTransforms(ts) : \E v, x, a : e = Issue(v, x, a)
         /\ DOMAIN ts = 1..Len(ts) => \A x, a : Issue("error", x, a) \in validateTransforms(ts) <=>
              /\ ts # <<>> /\ a \in DOMAIN ts
              /\ \/ x = "transform.kind" /\ Blank(ts[a].kind)
                 \/ x = "transform.options.contract" /\ ts[a].kind = "validate" /\ BadContract(ts[a].options)
  <1>1. CASE ts = <<>>
    <2>1. validateTransforms(ts) = {Issue("warning", "transform", 0)}
      BY <1>1 DEF validateTransforms
    <2> QED
      BY <1>1, <2>1, IssueIs
  <1>2. CASE ts # <<>>
    <2>1. \A e : e \in validateTransforms(ts) <=> \E i \in DOMAIN ts : e \in validateTransform(ts[i], i)
      BY <1>2 DEF validateTransforms
    <2> QED
      BY <1>2, <2>1, TransformErrors
  <1> QED
    BY <1>1, <1>2

(* the storage, whose kind hides the rest when it is blank,                *)
LEMMA StorageErrors ==
  ASSUME NEW s
  PROVE  /\ \A e \in validateStorage(s) : \E v, x, a : e = Issue(v, x, a)
         /\ \A x, a : Issue("error", x, a) \in validateStorage(s) <=>
              /\ a = 0
              /\ \/ x = "storage.kind" /\ Blank(s.kind)
                 \/ /\ ~Blank(s.kind)
                    /\ \/ x = "storage.db.dsn" /\ Blank(s.db.dsn)
                       \/ x = "storage.db.table" /\ Blank(s.db.table)
                       \/ x = "storage.db.columns" /\ s.db.columns = <<>>
                       \/ x = "storage.db.auto_create_table" /\ NothingToInfer(s.db)
  <1>1. CASE Blank(s.kind)
    <2>1. validateStorage(s) = {Issue("error", "storage.kind", 0)}
      BY <1>1 DEF validateStorage
    <2> QED
      BY <1>1, <2>1, IssueIs
  <1>2. CASE ~Blank(s.kind)
    <2> DEFINE nothing == NothingToInfer(s.db)
               none == s.db.columns = <<>>
    <2>1. validateStorage(s) =
            When(s.kind \notin {"postgres", "mysql", "mssql", "sqlite"}, "warning", "storage.kind")
            \cup (When(Blank(s.db.dsn), "error", "storage.db.dsn")
                  \cup When(Blank(s.db.table), "error", "storage.db.table")
                  \cup When(none, "error", "storage.db.columns")
                  \cup When(nothing, "error", "storage.db.auto_create_table"))
      BY <1>2 DEF validateStorage, dbIssues
    <2> HIDE DEF nothing, none
    <2>2. \A e : e \in validateStorage(s) <=>
            \/ s.kind \notin {"postgres", "mysql", "mssql", "sqlite"} /\ e = Issue("warning", "storage.kind", 0)
            \/ Blank(s.db.dsn) /\ e = Issue("error", "storage.db.dsn", 0)
            \/ Blank(s.db.table) /\ e = Issue("error", "storage.db.table", 0)
            \/ none /\ e = Issue("error", "storage.db.columns", 0)
            \/ nothing /\ e = Issue("error", "storage.db.auto_create_table", 0)
      BY <2>1, WhenIs
    <2>3. \A x, a : Issue("error", x, a) \in validateStorage(s) <=>
            \/ a = 0 /\ x = "storage.db.dsn" /\ Blank(s.db.dsn)
            \/ a = 0 /\ x = "storage.db.table" /\ Blank(s.db.table)
            \/ a = 0 /\ x = "storage.db.columns" /\ none
            \/ a = 0 /\ x = "storage.db.auto_create_table" /\ nothing
      BY <2>2, IssueIs
    <2>4. \A e \in validateStorage(s) : \E v, x, a : e = Issue(v, x, a)
      BY <2>2
    <2> QED
      BY <1>2, <2>3, <2>4 DEF nothing, none
  <1> QED
    BY <1>1, <1>2

(* and the runtime.                                                        *)
LEMMA RuntimeErrors ==
  ASSUME NEW r
  PROVE  /\ \A e \in validateRuntime(r) : \E v, x, a : e = Issue(v, x, a)
         /\ \A x, a : Issue("error", x, a) \in validateRuntime(r) <=>
              a = 0 /\ x \in NonNegative /\ r[x] < 0
  <1> DEFINE negative(field) == r[field] < 0
  <1>1. \A e : e \in validateRuntime(r) <=>
          \/ r.batch_size <= 0 /\ e = Issue("warning", "batch_size", 0)
          \/ \E field \in NonNegative : r[field] < 0 /\ e = Issue("error", field, 0)
    <2> DEFINE empty == r.batch_size <= 0
    <2>1. validateRuntime(r) = When(empty, "warning", "batch_size")
                               \cup UNION {When(negative(field), "error", field) : field \in NonNegative}
      BY DEF validateRuntime
    <2> HIDE DEF empty, negative
    <2>2. \A e : e \in validateRuntime(r) <=>
            \/ empty /\ e = Issue("warning", "batch_size", 0)
            \/ \E field \in NonNegative : negative(field) /\ e = Issue("error", field, 0)
      <3>1. \A e : e \in validateRuntime(r) <=>
              \/ e \in When(empty, "warning", "batch_size")
              \/ \E field \in NonNegative : e \in When(negative(field), "error", field)
        BY <2>1
      <3>2. \A e, field : e \in When(negative(field), "error", field)
                            <=> negative(field) /\ e = Issue("error", field, 0)
        <4> SUFFICES ASSUME NEW e, NEW field
                     PROVE  e \in When(negative(field), "error", field)
                              <=> negative(field) /\ e = Issue("error", field, 0)
          OBVIOUS
        <4>1. CASE negative(field)
          BY <4>1 DEF When
        <4>2. CASE ~negative(field)
          BY <4>2 DEF When
        <4> QED
          BY <4>1, <4>2
      <3>3. \A e : e \in When(empty, "warning", "batch_size")
                     <=> empty /\ e = Issue("warning", "batch_size", 0)
        BY WhenIs
      <3> QED
        BY <3>1, <3>2, <3>3, Zenon
    <2> QED
      BY <2>2 DEF empty, negative
  <1> QED
    BY <1>1, IssueIs

(* The errors of a report are the places that are wrong.                   *)
LEMMA ErrorsWrong ==
  ASSUME NEW p, IsPipeline(p)
  PROVE  /\ Errors(ValidatePipeline(p)) = {Issue("error", place[1], place[2]) : place \in Wrong(p)}
         /\ \A x, a : Issue("error", x, a) \in ValidatePipeline(p) <=> <<x, a>> \in Wrong(p)
  <1>0. Len(p.transform) \in Nat /\ DOMAIN p.transform = 1..Len(p.transform)
    BY DEF IsPipeline
  <1>1. \A e : e \in ValidatePipeline(p) <=>
          \/ Blank(p.job) /\ e = Issue("error", "job", 0)
          \/ e \in validateSource(p.source) \/ e \in validateParser(p.parser)
          \/ e \in validateTransforms(p.transform) \/ e \in validateStorage(p.storage)
          \/ e \in validateRuntime(p.runtime)
    BY WhenIs DEF ValidatePipeline
  <1>2. \A e \in ValidatePipeline(p) : \E v, x, a : e = Issue(v, x, a)
    BY <1>1, SourceErrors, ParserErrors, TransformsErrors, StorageErrors, RuntimeErrors
  <1> DEFINE found(x, a) ==
        \/ a = 0 /\ x = "job" /\ Blank(p.job)
        \/ a = 0 /\ x = "source.kind" /\ Blank(p.source.kind)
        \/ a = 0 /\ x = "source.file.path" /\ p.source.kind = "file" /\ Blank(p.source.path)
        \/ a = 0 /\ x = "parser.kind" /\ Blank(p.parser.kind)
        \/ a \in DOMAIN p.transform /\ x = "transform.kind" /\ Blank(p.transform[a].kind)
        \/ /\ a \in DOMAIN p.transform /\ x = "transform.options.contract"
           /\ p.transform[a].kind = "validate" /\ BadContract(p.transform[a].options)
        \/ a = 0 /\ x = "storage.kind" /\ Blank(p.storage.kind)
        \/ a = 0 /\ x = "storage.db.dsn" /\ ~Blank(p.storage.kind) /\ Blank(p.storage.db.dsn)
        \/ a = 0 /\ x = "storage.db.table" /\ ~Blank(p.storage.kind) /\ Blank(p.storage.db.table)
        \/ a = 0 /\ x = "storage.db.columns" /\ ~Blank(p.storage.kind) /\ p.storage.db.columns = <<>>
        \/ /\ a = 0 /\ x = "storage.db.auto_create_table" /\ ~Blank(p.storage.kind)
           /\ NothingToInfer(p.storage.db)
        \/ a = 0 /\ x \in NonNegative /\ p.runtime[x] < 0
  <1>3. ASSUME NEW x, NEW a PROVE Issue("error", x, a) \in ValidatePipeline(p) <=> found(x, a)
    <2>1. Issue("error", x, a) \in validateTransforms(p.transform) <=>
            /\ a \in DOMAIN p.transform
            /\ \/ x = "transform.kind" /\ Blank(p.transform[a].kind)
               \/ /\ x = "transform.options.contract"
                  /\ p.transform[a].kind = "validate" /\ BadContract(p.transform[a].options)
      <3>1. p.transform = <<>> => a \notin DOMAIN p.transform
        OBVIOUS
      <3> QED
        BY <1>0, <3>1, TransformsErrors
    <2>2. Issue("error", x, a) = Issue("error", "job", 0) <=> x = "job" /\ a = 0
      BY IssueIs
    <2>3. Issue("error", x, a) \in ValidatePipeline(p) <=>
            \/ Blank(p.job) /\ x = "job" /\ a = 0
            \/ Issue("error", x, a) \in validateSource(p.source)
            \/ Issue("error", x, a) \in validateParser(p.parser)
            \/ Issue("error", x, a) \in validateTransforms(p.transform)
            \/ Issue("error", x, a) \in validateStorage(p.storage)
            \/ Issue("error", x, a) \in validateRuntime(p.runtime)
      BY <1>1, <2>2
    <2> QED
      <3>1. Issue("error", x, a) \in validateSource(p.source) <=>
              /\ a = 0
              /\ \/ x = "source.kind" /\ Blank(p.source.kind)
                 \/ x = "source.file.path" /\ p.source.kind = "file" /\ Blank(p.source.path)
        BY SourceErrors
      <3>2. Issue("error", x, a) \in validateParser(p.parser) <=>
              a = 0 /\ x = "parser.kind" /\ Blank(p.parser.kind)
        BY ParserErrors
      <3>3. Issue("error", x, a) \in validateStorage(p.storage) <=>
              /\ a = 0
              /\ \/ x = "storage.kind" /\ Blank(p.storage.kind)
                 \/ /\ ~Blank(p.storage.kind)
                    /\ \/ x = "storage.db.dsn" /\ Blank(p.storage.db.dsn)
                       \/ x = "storage.db.table" /\ Blank(p.storage.db.table)
                       \/ x = "storage.db.columns" /\ p.storage.db.columns = <<>>
                       \/ x = "storage.db.auto_create_table" /\ NothingToInfer(p.storage.db)
        BY StorageErrors
      <3>4. Issue("error", x, a) \in validateRuntime(p.runtime) <=>
              a = 0 /\ x \in NonNegative /\ p.runtime[x] < 0
        BY RuntimeErrors
      <3> QED
        BY <2>1, <2>3, <3>1, <3>2, <3>3, <3>4
  <1>4. ASSUME NEW x, NEW a PROVE found(x, a) <=> <<x, a>> \in Wrong(p)
    <2>1. <<x, a>> \in Places(p) <=>
            /\ x \in Paths
            /\ IF x \in InTransform THEN a \in DOMAIN p.transform ELSE a = 0
      BY <1>0 DEF Places, InTransform
    <2>2. <<x, a>> \in Wrong(p) <=> <<x, a>> \in Places(p) /\ Fault(p, <<x, a>>) /\ Checked(p, <<x, a>>)
      BY DEF Wrong
    <2>3. CASE x \in NonNegative
      BY <2>1, <2>2, <2>3 DEF Fault, Checked, Paths, InTransform, Open, NonNegative
    <2>4. CASE x \notin NonNegative
      BY <2>1, <2>2, <2>4 DEF Fault, Checked, Paths, InTransform, Open, NonNegative
    <2> QED
      BY <2>3, <2>4
  <1> HIDE DEF found
  <1>5. \A x, a : Issue("error", x, a) \in ValidatePipeline(p) <=> <<x, a>> \in Wrong(p)
    BY <1>3, <1>4
  <1>6. Errors(ValidatePipeline(p)) = {Issue("error", place[1], place[2]) : place \in Wrong(p)}
    <2>1. ASSUME NEW e \in Errors(ValidatePipeline(p))
          PROVE  \E place \in Wrong(p) : e = Issue("error", place[1], place[2])
      <3>1. PICK v, x, a : e = Issue(v, x, a)
        BY <1>2, <2>1 DEF Errors
      <3>2. v = "error" /\ e \in ValidatePipeline(p)
        BY <3>1, IssueIs, <2>1 DEF Errors
      <3>3. <<x, a>> \in Wrong(p)
        BY <1>5, <3>1, <3>2
      <3> QED
        BY <3>1, <3>2, <3>3
    <2>2. ASSUME NEW place \in Wrong(p)
          PROVE  Issue("error", place[1], place[2]) \in Errors(ValidatePipeline(p))
      <3>1. place = <<place[1], place[2]>>
        BY DEF Wrong, Places
      <3>2. Issue("error", place[1], place[2]) \in ValidatePipeline(p)
        BY <1>5, <3>1
      <3> QED
        BY <3>2, IssueIs DEF Errors
    <2> QED
      BY <2>1, <2>2
  <1> QED
    BY <1>5, <1>6

-----------------------------------------------------------------------------
(* A reload *)

(* A pipeline is made of its parts,                                        *)
LEMMA PipelineIs ==
  ASSUME NEW p, IsPipeline(p)
  PROVE  /\ p = [job |-> p.job, source |-> p.source, parser |-> p.parser, transform |-> p.transform,
                 storage |-> p.storage, runtime |-> p.runtime]
         /\ p.source = [kind |-> p.source.kind, path |-> p.source.path]
         /\ p.parser = [kind |-> p.parser.kind, options |-> p.parser.options]
         /\ Len(p.transform) \in Nat /\ DOMAIN p.transform = 1..Len(p.transform)
         /\ \A i \in DOMAIN p.transform :
              /\ p.transform[i] = [kind |-> p.transform[i].kind, options |-> p.transform[i].options]
              /\ IsOptions(p.transform[i].options)
         /\ p.transform = [i \in DOMAIN p.transform |-> p.transform[i]]
         /\ p.storage = [kind |-> p.storage.kind, db |-> p.storage.db]
         /\ LET db == p.storage.db
            IN db = [dsn |-> db.dsn, table |-> db.table, columns |-> db.columns,
                     auto_create_table |-> db.auto_create_table]
         /\ p.storage.db.auto_create_table \in BOOLEAN
         /\ IsOptions(p.parser.options)
         /\ p.runtime \in [NonNegative \cup {"batch_size"} -> Int]
  BY DEF IsPipeline

(* and parts of the right types make one.                                  *)
LEMMA PipelineFrom ==
  ASSUME NEW job, NEW kind1, NEW path, NEW kind2, NEW options, NEW ts, NEW kind3, NEW dsn, NEW table,
         NEW columns, NEW auto \in BOOLEAN, NEW runtime \in [NonNegative \cup {"batch_size"} -> Int],
         IsOptions(options), NEW n \in Nat, Len(ts) = n,
         ts = [i \in 1..n |-> [kind |-> ts[i].kind, options |-> ts[i].options]],
         \A i \in 1..n : IsOptions(ts[i].options)
  PROVE  IsPipeline([job |-> job, source |-> [kind |-> kind1, path |-> path],
                     parser |-> [kind |-> kind2, options |-> options], transform |-> ts,
                     storage |-> [kind |-> kind3,
                                  db |-> [dsn |-> dsn, table |-> table, columns |-> columns,
                                          auto_create_table |-> auto]],
                     runtime |-> runtime])
  BY DEF IsPipeline

(* What a reload changes, and leaves alone.                                *)
LEMMA ReloadedIs ==
  ASSUME NEW p, IsPipeline(p)
  PROVE  Reloaded(p) =
           [job |-> p.job, source |-> p.source,
            parser |-> [kind |-> p.parser.kind, options |-> UnmarshalJSON(p.parser.options)],
            transform |-> [i \in DOMAIN p.transform |->
                             [kind |-> p.transform[i].kind,
                              options |-> UnmarshalJSON(p.transform[i].options)]],
            storage |-> p.storage, runtime |-> p.runtime]
  <1>1. \A part : part = [kind |-> part.kind, options |-> part.options] =>
          Loaded(part) = [kind |-> part.kind, options |-> UnmarshalJSON(part.options)]
    <2> SUFFICES ASSUME NEW part, NEW kind, NEW options, part = [kind |-> kind, options |-> options]
                 PROVE  Loaded(part) = [kind |-> kind, options |-> UnmarshalJSON(options)]
      OBVIOUS
    <2> QED
      BY DEF Loaded
  <1> DEFINE ts == p.transform
             new == [i \in DOMAIN ts |-> Loaded(ts[i])]
             parser == Loaded(p.parser)
             q == [p EXCEPT !.parser = parser]
  <1>2. new = [i \in DOMAIN ts |-> [kind |-> ts[i].kind, options |-> UnmarshalJSON(ts[i].options)]]
    <2>1. \A i \in DOMAIN ts : ts[i] = [kind |-> ts[i].kind, options |-> ts[i].options]
      BY PipelineIs, Zenon
    <2>2. \A i \in DOMAIN ts : Loaded(ts[i]) = [kind |-> ts[i].kind, options |-> UnmarshalJSON(ts[i].options)]
      BY <1>1, <2>1, Zenon
    <2> QED
      BY <2>2
  <1>3. parser = [kind |-> p.parser.kind, options |-> UnmarshalJSON(p.parser.options)]
    <2>1. p.parser = [kind |-> p.parser.kind, options |-> p.parser.options]
      BY PipelineIs, Zenon
    <2> QED
      BY <1>1, <2>1, Zenon
  <1>4. Reloaded(p) = [q EXCEPT !.transform = new]
    BY DEF Reloaded
  <1> HIDE DEF new, parser
  <1>5. q = [job |-> p.job, source |-> p.source, parser |-> parser, transform |-> p.transform,
             storage |-> p.storage, runtime |-> p.runtime]
    <2>1. p = [job |-> p.job, source |-> p.source, parser |-> p.parser, transform |-> p.transform,
               storage |-> p.storage, runtime |-> p.runtime]
      BY PipelineIs, Zenon
    <2> QED
      BY <2>1
  <1> HIDE DEF q
  <1>6. [q EXCEPT !.transform = new] =
          [job |-> p.job, source |-> p.source, parser |-> parser, transform |-> new,
           storage |-> p.storage, runtime |-> p.runtime]
    BY <1>5
  <1> QED
    BY <1>2, <1>3, <1>4, <1>6

(* A reload keeps what is at fault, and the report, if the options it      *)
(* reads are portable.                                                     *)
LEMMA ReloadKeeps ==
  ASSUME NEW p, IsPipeline(p), Stored(p)
  PROVE  /\ IsPipeline(Reloaded(p))
         /\ (\A key \in CheckedKeys(p) : Portable(p.parser.options[key])) =>
              ValidatePipeline(Reloaded(p)) = ValidatePipeline(p)
         /\ Places(Reloaded(p)) = Places(p)
         /\ \A place \in Places(p) : /\ Fault(Reloaded(p), place) <=> Fault(p, place)
                                     /\ Checked(Reloaded(p), place) <=> Checked(p, place)
         /\ Wrong(Reloaded(p)) = Wrong(p)
  <1> PICK r : r = Reloaded(p)
    OBVIOUS
  <1> DEFINE ts == p.transform
             new == [i \in DOMAIN ts |-> [kind |-> ts[i].kind, options |-> UnmarshalJSON(ts[i].options)]]
             n == Len(ts)
  <1>1. n \in Nat /\ DOMAIN ts = 1..n
    BY PipelineIs
  <1>2. /\ IsOptions(p.parser.options) /\ AllMarshal(p.parser.options)
        /\ \A i \in DOMAIN ts : IsOptions(ts[i].options) /\ AllMarshal(ts[i].options)
    BY PipelineIs DEF OptionsOf, Stored
  <1>3. r = [job |-> p.job, source |-> p.source,
             parser |-> [kind |-> p.parser.kind, options |-> UnmarshalJSON(p.parser.options)],
             transform |-> new, storage |-> p.storage, runtime |-> p.runtime]
    BY ReloadedIs
  <1>4. /\ DOMAIN new = 1..n /\ Len(new) = n
        /\ \A i \in 1..n : new[i].kind = ts[i].kind /\ new[i].options = UnmarshalJSON(ts[i].options)
        /\ new = [i \in 1..n |-> [kind |-> new[i].kind, options |-> new[i].options]]
    BY <1>1
  <1> HIDE DEF new, n
  <1>5. IsPipeline(r)
    <2>1. IsOptions(UnmarshalJSON(p.parser.options))
      BY <1>2, Unmarshalled
    <2>2. \A i \in 1..n : IsOptions(new[i].options)
      BY <1>1, <1>2, <1>4, Unmarshalled
    <2> DEFINE made == [job |-> p.job, source |-> [kind |-> p.source.kind, path |-> p.source.path],
                        parser |-> [kind |-> p.parser.kind, options |-> UnmarshalJSON(p.parser.options)],
                        transform |-> new,
                        storage |-> [kind |-> p.storage.kind,
                                     db |-> [dsn |-> p.storage.db.dsn, table |-> p.storage.db.table,
                                             columns |-> p.storage.db.columns,
                                             auto_create_table |-> p.storage.db.auto_create_table]],
                        runtime |-> p.runtime]
    <2>3. r = made
      BY <1>3, PipelineIs
    <2>4. IsPipeline(made)
      BY <1>1, <1>4, <2>1, <2>2, PipelineIs, PipelineFrom
    <2> QED
      BY <2>3, <2>4
  <1>6. /\ r.job = p.job /\ r.source = p.source /\ r.storage = p.storage /\ r.runtime = p.runtime
        /\ r.parser.kind = p.parser.kind /\ r.parser.options = UnmarshalJSON(p.parser.options)
        /\ r.transform = new
    BY <1>3
  <1>7. ASSUME \A key \in CheckedKeys(p) : Portable(p.parser.options[key])
        PROVE  validateParser(r.parser) = validateParser(p.parser)
    <2>0. \A key \in {"expected_fields", "header_map"} :
            key \in DOMAIN p.parser.options => Portable(p.parser.options[key])
      BY <1>7 DEF CheckedKeys
    <2>1. IntOption(r.parser.options, "expected_fields", 0) = IntOption(p.parser.options, "expected_fields", 0)
      BY <1>2, <1>6, <2>0, ReadsKept
    <2>2. AnyIsNil(r.parser.options, "header_map") <=> AnyIsNil(p.parser.options, "header_map")
      BY <1>2, <1>6, <2>0, ReadsKept
    <2>3. CASE AnyIsNil(p.parser.options, "header_map")
      BY <1>6, <2>1, <2>2, <2>3 DEF validateParser
    <2>4. CASE ~AnyIsNil(p.parser.options, "header_map")
      BY <1>6, <2>1, <2>2, <2>4 DEF validateParser
    <2> QED
      BY <2>3, <2>4
  <1>8. \A i \in 1..n : \A at : contractIssues(new[i].options, at) = contractIssues(ts[i].options, at)
    BY <1>1, <1>2, <1>4, ContractKept
  <1>9. validateTransforms(new) = validateTransforms(ts)
    <2>1. new = <<>> <=> ts = <<>>
      <3>1. ts = [i \in 1..n |-> ts[i]]
        BY <1>1, PipelineIs
      <3>2. new = <<>> => n = 0
        <4> SUFFICES ASSUME new = <<>> PROVE n = 0
          OBVIOUS
        <4>1. Len(<<>>) = 0
          OBVIOUS
        <4> QED
          BY <1>4, <4>1, Zenon
      <3>3. ts = <<>> => n = 0
        BY DEF n
      <3>4. n = 0 => new = <<>> /\ ts = <<>>
        <4> SUFFICES ASSUME n = 0 PROVE new = <<>> /\ ts = <<>>
          OBVIOUS
        <4>1. 1..n = {}
          OBVIOUS
        <4> QED
          BY <1>4, <3>1, <4>1
      <3> QED
        BY <3>2, <3>3, <3>4
    <2>2. \A i \in 1..n : validateTransform(new[i], i) = validateTransform(ts[i], i)
      BY <1>4, <1>8 DEF validateTransform
    <2>3. UNION {validateTransform(new[i], i) : i \in DOMAIN new}
            = UNION {validateTransform(ts[i], i) : i \in DOMAIN ts}
      BY <1>1, <1>4, <2>2
    <2> QED
      BY <2>1, <2>3 DEF validateTransforms
  <1>10. (\A key \in CheckedKeys(p) : Portable(p.parser.options[key])) =>
           ValidatePipeline(r) = ValidatePipeline(p)
    BY <1>6, <1>7, <1>9 DEF ValidatePipeline
  <1>11. Places(r) = Places(p)
    BY <1>1, <1>4, <1>6 DEF Places, n
  <1>12. ASSUME NEW place \in Places(p)
         PROVE  (Fault(r, place) <=> Fault(p, place)) /\ (Checked(r, place) <=> Checked(p, place))
    <2>1. place[1] \in InTransform => place[2] \in 1..n
      BY <1>1 DEF Places, n
    <2>2. place[2] \in 1..n => (BadContract(new[place[2]].options) <=> BadContract(ts[place[2]].options))
      BY <1>8 DEF BadContract
    <2> QED
      BY <1>4, <1>6, <2>1, <2>2 DEF Fault, Checked, InTransform
  <1>13. Wrong(r) = Wrong(p)
    BY <1>11, <1>12 DEF Wrong
  <1> QED
    BY <1>5, <1>10, <1>11, <1>12, <1>13

(* ReloadMeansTheSame, of any pipeline.                                    *)
LEMMA ReloadMeans ==
  ASSUME IsPipeline(pipeline)
  PROVE  ReloadMeansTheSame
  <1> SUFFICES ASSUME Stored(pipeline)
               PROVE  /\ \A options \in OptionsOf(pipeline) : \A key \in DOMAIN options :
                           Portable(options[key]) => ReadsAlike(options, UnmarshalJSON(options), key)
                      /\ (\A key \in CheckedKeys(pipeline) : Portable(pipeline.parser.options[key])) =>
                           ValidatePipeline(Reloaded(pipeline)) = ValidatePipeline(pipeline)
                      /\ Errors(ValidatePipeline(Reloaded(pipeline))) = Errors(ValidatePipeline(pipeline))
    BY DEF ReloadMeansTheSame
  <1>1. \A options \in OptionsOf(pipeline) : IsOptions(options) /\ AllMarshal(options)
    <2>1. IsOptions(pipeline.parser.options)
      BY PipelineIs
    <2>2. \A i \in DOMAIN pipeline.transform : IsOptions(pipeline.transform[i].options)
      BY PipelineIs
    <2> QED
      BY <2>1, <2>2 DEF OptionsOf, Stored
  <1>2. ASSUME NEW options \in OptionsOf(pipeline), NEW key \in DOMAIN options, Portable(options[key])
        PROVE  ReadsAlike(options, UnmarshalJSON(options), key)
    BY <1>1, <1>2, ValueReadsAlike DEF ReadsAlike
  <1> PICK r : r = Reloaded(pipeline)
    OBVIOUS
  <1>3. IsPipeline(r) /\ Wrong(r) = Wrong(pipeline)
    BY ReloadKeeps
  <1>4. Errors(ValidatePipeline(r)) = Errors(ValidatePipeline(pipeline))
    BY <1>3, ErrorsWrong
  <1> QED
    BY <1>2, <1>4, ReloadKeeps

-----------------------------------------------------------------------------
(* A repair *)

(* A contract the author may write is no error.                            *)
LEMMA ContractRepaired ==
  ASSUME NEW options, IsOptions(options),
         NEW c \in {[null |-> 0], [object |-> [fields |-> [array |-> <<>>]]]}
  PROVE  IsOptions(WithContract(options, c)) /\ ~BadContract(WithContract(options, c))
  <1> PICK o : o = WithContract(options, c)
    OBVIOUS
  <1>1. o = [key \in DOMAIN options \cup {"contract"} |-> IF key = "contract" THEN c ELSE options[key]]
    BY DEF WithContract
  <1>2. /\ DOMAIN o = DOMAIN options \cup {"contract"} /\ o["contract"] = c
        /\ \A key \in DOMAIN options : key # "contract" => o[key] = options[key]
        /\ o = [key \in DOMAIN o |-> o[key]]
    BY <1>1
  <1>3. CASE c = [null |-> 0]
    <2>1. DOMAIN c = {"null"} /\ c = [t \in {"null"} |-> c["null"]]
      BY <1>3
    <2>2. IsValue(c)
      BY <2>1, InsideOf DEF IsValue, OneField, AreMaps, GoTypes, JSONTypes
    <2>3. IsOptions(o)
      BY <1>2, <2>2 DEF IsOptions
    <2>4. AnyIsNil(o, "contract")
      BY <1>2, <2>1 DEF AnyIsNil, Has
    <2>5. contractIssues(o, 1) = {Issue("warning", "transform.options.contract", 1)}
      BY <2>4 DEF contractIssues
    <2> QED
      BY <2>3, <2>5, IssueIs DEF BadContract
  <1>4. CASE c = [object |-> [fields |-> [array |-> <<>>]]]
    <2>1. DOMAIN c = {"object"} /\ c = [t \in {"object"} |-> c["object"]]
      BY <1>4
    <2>2. c.object = [fields |-> [array |-> <<>>]]
      BY <1>4
    <2>3. IsJSON(c)
      <3>1. c.object["fields"] = [array |-> <<>>] /\ DOMAIN c.object = {"fields"}
        BY <2>2
      <3>2. DOMAIN c.object["fields"] = {"array"}
        BY <3>1
      <3>3. Inside(c) = {c.object["fields"]}
        BY <2>1, <3>1, InsideOf
      <3>4. c.object = [k \in DOMAIN c.object |-> c.object[k]]
        BY <2>2
      <3> QED
        BY <2>1, <3>2, <3>3, <3>4 DEF IsJSON, OneField, AreMaps, JSONTypes
    <2>4. IsOptions(o)
      BY <1>2, <2>3, JSONStays DEF IsOptions
    <2>5. ~AnyIsNil(o, "contract") /\ Marshals(c)
      BY <1>2, <2>1, <2>3, JSONStays DEF AnyIsNil, Has
    <2>6. ThroughJSON(c) = c
      BY <2>3, JSONStays
    <2>7. IsContract(c)
      <3>1. /\ DOMAIN c.object = {"fields"} /\ c.object["fields"] = [array |-> <<>>]
        BY <2>2
      <3>2. DOMAIN c.object["fields"] = {"array"} /\ c.object["fields"].array = <<>>
        BY <3>1
      <3> QED
        BY <2>1, <3>1, <3>2 DEF IsContract, Has
    <2>8. Issue("error", "transform.options.contract", 1) \notin contractIssues(o, 1)
      BY <1>2, <2>5, <2>6, <2>7, IssueIs DEF contractIssues
    <2> QED
      BY <2>4, <2>8 DEF BadContract
  <1> QED
    BY <1>3, <1>4

(* After a repair of the place <<x, i>> its value is without fault, and no *)
(* other value has changed.                                                *)
OnlyAt(p, q, x, i) ==
  /\ Len(q.transform) = Len(p.transform)
  /\ IF x = "job" THEN ~Blank(q.job) ELSE q.job = p.job
  /\ IF x = "source.kind" THEN ~Blank(q.source.kind) ELSE q.source.kind = p.source.kind
  /\ IF x = "source.file.path" THEN ~Blank(q.source.path) ELSE q.source.path = p.source.path
  /\ IF x = "parser.kind" THEN ~Blank(q.parser.kind) ELSE q.parser.kind = p.parser.kind
  /\ \A k \in 1..Len(p.transform) :
       /\ IF x = "transform.kind" /\ k = i THEN ~Blank(q.transform[k].kind)
          ELSE q.transform[k].kind = p.transform[k].kind
       /\ IF x = "transform.options.contract" /\ k = i THEN ~BadContract(q.transform[k].options)
          ELSE q.transform[k].options = p.transform[k].options
  /\ IF x = "storage.kind" THEN ~Blank(q.storage.kind) ELSE q.storage.kind = p.storage.kind
  /\ IF x = "storage.db.dsn" THEN ~Blank(q.storage.db.dsn) ELSE q.storage.db.dsn = p.storage.db.dsn
  /\ IF x = "storage.db.table" THEN ~Blank(q.storage.db.table)
     ELSE q.storage.db.table = p.storage.db.table
  /\ IF x = "storage.db.columns" THEN q.storage.db.columns # <<>>
     ELSE q.storage.db.columns = p.storage.db.columns
  /\ IF x = "storage.db.auto_create_table" THEN q.storage.db.auto_create_table = FALSE
     ELSE q.storage.db.auto_create_table = p.storage.db.auto_create_table
  /\ \A f \in NonNegative : IF x = f THEN q.runtime[f] = 0 ELSE q.runtime[f] = p.runtime[f]

(* No name the author writes is blank.                                     *)
LEMMA NotBlank ==
  \A x \in {"j", "f", "d", "t", "file", "s3", "csv", "tsv", "validate", "trim", "sqlite", "redis"} :
    ~Blank(x)
  BY DEF Blank

(* A pipeline from its parts.                                              *)
Made(job, kind1, path, kind2, options, ts, kind3, dsn, table, columns, auto, runtime) ==
  [job |-> job, source |-> [kind |-> kind1, path |-> path],
   parser |-> [kind |-> kind2, options |-> options], transform |-> ts,
   storage |-> [kind |-> kind3,
                db |-> [dsn |-> dsn, table |-> table, columns |-> columns, auto_create_table |-> auto]],
   runtime |-> runtime]

(* A repair of a pipeline made of parts, path by path,                     *)
LEMMA RepairMade ==
  ASSUME NEW job, NEW kind1, NEW path, NEW kind2, NEW options, NEW ts, NEW kind3, NEW dsn, NEW table,
         NEW columns, NEW auto \in BOOLEAN, NEW runtime \in [NonNegative \cup {"batch_size"} -> Int],
         IsOptions(options), Len(ts) \in Nat,
         ts = [k \in 1..Len(ts) |-> [kind |-> ts[k].kind, options |-> ts[k].options]],
         \A k \in 1..Len(ts) : IsOptions(ts[k].options),
         NEW x \in Paths, NEW i, x \in InTransform => i \in 1..Len(ts),
         NEW q \in Repairs(Made(job, kind1, path, kind2, options, ts, kind3, dsn, table, columns, auto, runtime),
                           x, i)
  PROVE  /\ IsPipeline(q)
         /\ OnlyAt(Made(job, kind1, path, kind2, options, ts, kind3, dsn, table, columns, auto, runtime),
                   q, x, i)
  <1> PICK p : p = Made(job, kind1, path, kind2, options, ts, kind3, dsn, table, columns, auto, runtime)
    OBVIOUS
  <1> PICK n : n = Len(ts)
    OBVIOUS
  <1>0. q \in Repairs(p, x, i) /\ n \in Nat /\ (x \in InTransform => i \in 1..n)
    OBVIOUS
  <1>1. CASE x = "job"
    <2>1. q = [p EXCEPT !.job = "j"]
      BY <1>0, <1>1 DEF Repairs, NonNegative
    <2>2. q = Made("j", kind1, path, kind2, options, ts, kind3, dsn, table, columns, auto, runtime)
      BY <2>1 DEF Made
    <2>3. IsPipeline(q)
      BY <2>2, PipelineFrom DEF Made
    <2>4. OnlyAt(p, q, x, i)
      BY <1>1, <2>2, NotBlank DEF OnlyAt, Made, NonNegative
    <2> QED
      BY <2>3, <2>4
  <1>2. CASE x = "source.kind"
    <2>1. PICK k \in {"file", "s3"} : q = [p EXCEPT !.source.kind = k]
      BY <1>0, <1>2 DEF Repairs, NonNegative
    <2>2. q = Made(job, k, path, kind2, options, ts, kind3, dsn, table, columns, auto, runtime)
      BY <2>1 DEF Made
    <2>3. IsPipeline(q)
      BY <2>2, PipelineFrom DEF Made
    <2>4. OnlyAt(p, q, x, i)
      BY <1>2, <2>2, NotBlank DEF OnlyAt, Made, NonNegative
    <2> QED
      BY <2>3, <2>4
  <1>3. CASE x = "source.file.path"
    <2>1. q = [p EXCEPT !.source.path = "f"]
      BY <1>0, <1>3 DEF Repairs, NonNegative
    <2>2. q = Made(job, kind1, "f", kind2, options, ts, kind3, dsn, table, columns, auto, runtime)
      BY <2>1 DEF Made
    <2>3. IsPipeline(q)
      BY <2>2, PipelineFrom DEF Made
    <2>4. OnlyAt(p, q, x, i)
      BY <1>3, <2>2, NotBlank DEF OnlyAt, Made, NonNegative
    <2> QED
      BY <2>3, <2>4
  <1>4. CASE x = "parser.kind"
    <2>1. PICK k \in {"csv", "tsv"} : q = [p EXCEPT !.parser.kind = k]
      BY <1>0, <1>4 DEF Repairs, NonNegative
    <2>2. q = Made(job, kind1, path, k, options, ts, kind3, dsn, table, columns, auto, runtime)
      BY <2>1 DEF Made
    <2>3. IsPipeline(q)
      BY <2>2, PipelineFrom DEF Made
    <2>4. OnlyAt(p, q, x, i)
      BY <1>4, <2>2, NotBlank DEF OnlyAt, Made, NonNegative
    <2> QED
      BY <2>3, <2>4
  <1>5. CASE x = "storage.kind"
    <2>1. PICK k \in {"sqlite", "redis"} : q = [p EXCEPT !.storage.kind = k]
      BY <1>0, <1>5 DEF Repairs, NonNegative
    <2>2. q = Made(job, kind1, path, kind2, options, ts, k, dsn, table, columns, auto, runtime)
      BY <2>1 DEF Made
    <2>3. IsPipeline(q)
      BY <2>2, PipelineFrom DEF Made
    <2>4. OnlyAt(p, q, x, i)
      BY <1>5, <2>2, NotBlank DEF OnlyAt, Made, NonNegative
    <2> QED
      BY <2>3, <2>4
  <1>6. CASE x = "storage.db.dsn"
    <2>1. q = [p EXCEPT !.storage.db.dsn = "d"]
      BY <1>0, <1>6 DEF Repairs, NonNegative
    <2>2. q = Made(job, kind1, path, kind2, options, ts, kind3, "d", table, columns, auto, runtime)
      BY <2>1 DEF Made
    <2>3. IsPipeline(q)
      BY <2>2, PipelineFrom DEF Made
    <2>4. OnlyAt(p, q, x, i)
      BY <1>6, <2>2, NotBlank DEF OnlyAt, Made, NonNegative
    <2> QED
      BY <2>3, <2>4
  <1>7. CASE x = "storage.db.table"
    <2>1. q = [p EXCEPT !.storage.db.table = "t"]
      BY <1>0, <1>7 DEF Repairs, NonNegative
    <2>2. q = Made(job, kind1, path, kind2, options, ts, kind3, dsn, "t", columns, auto, runtime)
      BY <2>1 DEF Made
    <2>3. IsPipeline(q)
      BY <2>2, PipelineFrom DEF Made
    <2>4. OnlyAt(p, q, x, i)
      BY <1>7, <2>2, NotBlank DEF OnlyAt, Made, NonNegative
    <2> QED
      BY <2>3, <2>4
  <1>8. CASE x = "storage.db.columns"
    <2>1. q = [p EXCEPT !.storage.db.columns = <<"c">>]
      BY <1>0, <1>8 DEF Repairs, NonNegative
    <2>2. q = Made(job, kind1, path, kind2, options, ts, kind3, dsn, table, <<"c">>, auto, runtime)
      BY <2>1 DEF Made
    <2>3. IsPipeline(q)
      BY <2>2, PipelineFrom DEF Made
    <2>4. OnlyAt(p, q, x, i)
      BY <1>8, <2>2, NotBlank DEF OnlyAt, Made, NonNegative
    <2> QED
      BY <2>3, <2>4
  <1>9. CASE x = "storage.db.auto_create_table"
    <2>1. q = [p EXCEPT !.storage.db.auto_create_table = FALSE]
      BY <1>0, <1>9 DEF Repairs, NonNegative
    <2>2. q = Made(job, kind1, path, kind2, options, ts, kind3, dsn, table, columns, FALSE, runtime)
      BY <2>1 DEF Made
    <2>3. IsPipeline(q)
      BY <2>2, PipelineFrom DEF Made
    <2>4. OnlyAt(p, q, x, i)
      BY <1>9, <2>2, NotBlank DEF OnlyAt, Made, NonNegative
    <2> QED
      BY <2>3, <2>4
  <1>10. CASE x = "transform.kind"
    <2>1. PICK k \in {"validate", "trim"} : q = [p EXCEPT !.transform[i].kind = k]
      BY <1>0, <1>10 DEF Repairs, NonNegative
    <2> DEFINE step == [ts[i] EXCEPT !.kind = k]
               new == [ts EXCEPT ![i] = step]
    <2>2. i \in 1..n
      BY <1>0, <1>10 DEF InTransform
    <2>3. step = [kind |-> k, options |-> ts[i].options]
      BY <2>2
    <2>4. DOMAIN ts = 1..n
      OBVIOUS
    <2>5. /\ DOMAIN new = 1..n /\ Len(new) = n /\ new[i] = step
          /\ \A j \in 1..n : j # i => new[j] = ts[j]
          /\ new = [j \in 1..n |-> new[j]]
      <3> HIDE DEF step
      <3>1. new = [j \in 1..n |-> IF j = i THEN step ELSE ts[j]]
        BY <2>4
      <3> HIDE DEF new
      <3>2. DOMAIN new = 1..n
        BY <3>1
      <3>3. \A j \in 1..n : new[j] = IF j = i THEN step ELSE ts[j]
        BY <3>1
      <3>4. new = [j \in 1..n |-> new[j]]
        BY <3>1, <3>3
      <3>5. Len(new) = n
        BY <3>2, <3>4
      <3> QED
        BY <2>2, <3>2, <3>3, <3>4, <3>5
    <2>6. q = Made(job, kind1, path, kind2, options, new, kind3, dsn, table, columns, auto, runtime)
      <3>1. p.transform = ts
        BY DEF Made
      <3>2. [p EXCEPT !.transform[i].kind = k] = [p EXCEPT !.transform = new]
        BY <3>1
      <3> HIDE DEF new
      <3> QED
        BY <2>1, <3>2 DEF Made
    <2> HIDE DEF new, step
    <2>7. /\ \A j \in 1..n : j # i => new[j].kind = ts[j].kind /\ new[j].options = ts[j].options
          /\ new[i].kind = k /\ new[i].options = ts[i].options
      BY <2>3, <2>5
    <2>8. \A j \in 1..n : new[j] = [kind |-> new[j].kind, options |-> new[j].options]
      <3>1. \A j \in 1..n : ts[j] = [kind |-> ts[j].kind, options |-> ts[j].options]
        OBVIOUS
      <3>2. new[i] = [kind |-> new[i].kind, options |-> new[i].options]
        BY <2>3, <2>5
      <3>3. \A j \in 1..n : j # i => new[j] = [kind |-> new[j].kind, options |-> new[j].options]
        BY <2>5, <3>1
      <3> QED
        BY <3>2, <3>3
    <2>9. new = [j \in 1..n |-> [kind |-> new[j].kind, options |-> new[j].options]]
      BY <2>5, <2>8
    <2>10. \A j \in 1..n : IsOptions(new[j].options)
      BY <2>2, <2>7
    <2>11. IsPipeline(q)
      BY <1>0, <2>5, <2>6, <2>9, <2>10, PipelineFrom DEF Made
    <2>12. OnlyAt(p, q, x, i)
      <3>1. /\ q.job = p.job /\ q.source = p.source /\ q.parser = p.parser /\ q.storage = p.storage
            /\ q.runtime = p.runtime /\ q.transform = new /\ p.transform = ts
        BY <2>6 DEF Made
      <3>2. ~Blank(new[i].kind)
        BY <2>7, NotBlank
      <3>3. \A j \in 1..n :
              /\ IF x = "transform.kind" /\ j = i THEN ~Blank(new[j].kind)
                 ELSE new[j].kind = ts[j].kind
              /\ IF x = "transform.options.contract" /\ j = i THEN ~BadContract(new[j].options)
                 ELSE new[j].options = ts[j].options
        BY <1>10, <2>7, <3>2
      <3>4. x \notin NonNegative
        BY <1>10 DEF NonNegative
      <3>5. \A j \in 1..Len(p.transform) :
              /\ IF x = "transform.kind" /\ j = i THEN ~Blank(q.transform[j].kind)
                 ELSE q.transform[j].kind = p.transform[j].kind
              /\ IF x = "transform.options.contract" /\ j = i THEN ~BadContract(q.transform[j].options)
                 ELSE q.transform[j].options = p.transform[j].options
        BY <3>1, <3>3
      <3>6. Len(q.transform) = Len(p.transform)
        BY <2>5, <3>1
      <3>7. \A f \in NonNegative : IF x = f THEN q.runtime[f] = 0 ELSE q.runtime[f] = p.runtime[f]
        BY <3>1, <3>4
      <3> QED
        BY <1>10, <3>1, <3>5, <3>6, <3>7 DEF OnlyAt
    <2> QED
      BY <2>11, <2>12
  <1>11. CASE x = "transform.options.contract"
    <2>1. PICK c \in {[null |-> 0], [object |-> [fields |-> [array |-> <<>>]]]} : 
                q = [p EXCEPT !.transform[i].options = WithContract(p.transform[i].options, c)]
      BY <1>0, <1>11 DEF Repairs, NonNegative
    <2> DEFINE step == [ts[i] EXCEPT !.options = WithContract(ts[i].options, c)]
               new == [ts EXCEPT ![i] = step]
    <2>2. i \in 1..n
      BY <1>0, <1>11 DEF InTransform
    <2>3. step = [kind |-> ts[i].kind, options |-> WithContract(ts[i].options, c)]
      BY <2>2
    <2>4. DOMAIN ts = 1..n
      OBVIOUS
    <2>5. /\ DOMAIN new = 1..n /\ Len(new) = n /\ new[i] = step
          /\ \A j \in 1..n : j # i => new[j] = ts[j]
          /\ new = [j \in 1..n |-> new[j]]
      <3> HIDE DEF step
      <3>1. new = [j \in 1..n |-> IF j = i THEN step ELSE ts[j]]
        BY <2>4
      <3> HIDE DEF new
      <3>2. DOMAIN new = 1..n
        BY <3>1
      <3>3. \A j \in 1..n : new[j] = IF j = i THEN step ELSE ts[j]
        BY <3>1
      <3>4. new = [j \in 1..n |-> new[j]]
        BY <3>1, <3>3
      <3>5. Len(new) = n
        BY <3>2, <3>4
      <3> QED
        BY <2>2, <3>2, <3>3, <3>4, <3>5
    <2>6. q = Made(job, kind1, path, kind2, options, new, kind3, dsn, table, columns, auto, runtime)
      <3>1. p.transform = ts
        BY DEF Made
      <3>2. [p EXCEPT !.transform[i].options = WithContract(p.transform[i].options, c)]
              = [p EXCEPT !.transform = new]
        BY <3>1
      <3> HIDE DEF new
      <3> QED
        BY <2>1, <3>2 DEF Made
    <2> HIDE DEF new, step
    <2>7. /\ \A j \in 1..n : j # i => new[j].kind = ts[j].kind /\ new[j].options = ts[j].options
          /\ new[i].kind = ts[i].kind /\ new[i].options = WithContract(ts[i].options, c)
      BY <2>3, <2>5
    <2>8. \A j \in 1..n : new[j] = [kind |-> new[j].kind, options |-> new[j].options]
      <3>1. \A j \in 1..n : ts[j] = [kind |-> ts[j].kind, options |-> ts[j].options]
        OBVIOUS
      <3>2. new[i] = [kind |-> new[i].kind, options |-> new[i].options]
        BY <2>3, <2>5
      <3>3. \A j \in 1..n : j # i => new[j] = [kind |-> new[j].kind, options |-> new[j].options]
        BY <2>5, <3>1
      <3> QED
        BY <3>2, <3>3
    <2>9. new = [j \in 1..n |-> [kind |-> new[j].kind, options |-> new[j].options]]
      BY <2>5, <2>8
    <2>10. \A j \in 1..n : IsOptions(new[j].options)
      BY <2>2, <2>7, ContractRepaired
    <2>11. IsPipeline(q)
      BY <1>0, <2>5, <2>6, <2>9, <2>10, PipelineFrom DEF Made
    <2>12. OnlyAt(p, q, x, i)
      <3>1. /\ q.job = p.job /\ q.source = p.source /\ q.parser = p.parser /\ q.storage = p.storage
            /\ q.runtime = p.runtime /\ q.transform = new /\ p.transform = ts
        BY <2>6 DEF Made
      <3>2. ~BadContract(new[i].options)
        BY <2>2, <2>7, ContractRepaired
      <3>3. \A j \in 1..n :
              /\ IF x = "transform.kind" /\ j = i THEN ~Blank(new[j].kind)
                 ELSE new[j].kind = ts[j].kind
              /\ IF x = "transform.options.contract" /\ j = i THEN ~BadContract(new[j].options)
                 ELSE new[j].options = ts[j].options
        BY <1>11, <2>7, <3>2
      <3>4. x \notin NonNegative
        BY <1>11 DEF NonNegative
      <3>5. \A j \in 1..Len(p.transform) :
              /\ IF x = "transform.kind" /\ j = i THEN ~Blank(q.transform[j].kind)
                 ELSE q.transform[j].kind = p.transform[j].kind
              /\ IF x = "transform.options.contract" /\ j = i THEN ~BadContract(q.transform[j].options)
                 ELSE q.transform[j].options = p.transform[j].options
        BY <3>1, <3>3
      <3>6. Len(q.transform) = Len(p.transform)
        BY <2>5, <3>1
      <3>7. \A f \in NonNegative : IF x = f THEN q.runtime[f] = 0 ELSE q.runtime[f] = p.runtime[f]
        BY <3>1, <3>4
      <3> QED
        BY <1>11, <3>1, <3>5, <3>6, <3>7 DEF OnlyAt
    <2> QED
      BY <2>11, <2>12
  <1>12. CASE x \in NonNegative
    <2> DEFINE new == [runtime EXCEPT ![x] = 0]
    <2>1. q = [p EXCEPT !.runtime[x] = 0]
      BY <1>0, <1>12 DEF Repairs, NonNegative
    <2>2. /\ new \in [NonNegative \cup {"batch_size"} -> Int] /\ new[x] = 0
          /\ \A f \in NonNegative : f # x => new[f] = runtime[f]
      BY <1>12
    <2>3. q = [p EXCEPT !.runtime = new]
      BY <2>1 DEF Made
    <2> HIDE DEF new
    <2>4. q = Made(job, kind1, path, kind2, options, ts, kind3, dsn, table, columns, auto, new)
      BY <2>3 DEF Made
    <2>5. IsPipeline(q)
      BY <2>2, <2>4, PipelineFrom DEF Made
    <2>6. OnlyAt(p, q, x, i)
      <3>1. /\ q.job = p.job /\ q.source = p.source /\ q.parser = p.parser /\ q.storage = p.storage
            /\ q.runtime = new /\ q.transform = p.transform /\ p.runtime = runtime /\ p.transform = ts
        BY <2>4 DEF Made
      <3> QED
        BY <1>12, <2>2, <3>1 DEF OnlyAt, NonNegative
    <2> QED
      BY <2>5, <2>6
  <1> QED
    BY <1>1, <1>2, <1>3, <1>4, <1>5, <1>6, <1>7, <1>8, <1>9, <1>10, <1>11, <1>12 DEF Paths, Open

(* and of any pipeline.                                                    *)
LEMMA RepairIs ==
  ASSUME NEW p, IsPipeline(p), NEW place \in Places(p), NEW q \in Repairs(p, place[1], place[2])
  PROVE  IsPipeline(q) /\ OnlyAt(p, q, place[1], place[2])
  <1> DEFINE job == p.job  kind1 == p.source.kind  path == p.source.path  kind2 == p.parser.kind
             options == p.parser.options  ts == p.transform  kind3 == p.storage.kind
             dsn == p.storage.db.dsn  table == p.storage.db.table  columns == p.storage.db.columns
             auto == p.storage.db.auto_create_table  runtime == p.runtime
             x == place[1]  i == place[2]
  <1>1. Len(ts) \in Nat /\ x \in Paths /\ (x \in InTransform => i \in 1..Len(ts))
    BY PipelineIs DEF Places
  <1>2. p = Made(job, kind1, path, kind2, options, ts, kind3, dsn, table, columns, auto, runtime)
    BY PipelineIs DEF Made
  <1>3. ts = [k \in 1..Len(ts) |-> [kind |-> ts[k].kind, options |-> ts[k].options]] 
    BY DEF IsPipeline
  <1>4. /\ auto \in BOOLEAN /\ IsOptions(options)
        /\ runtime \in [NonNegative \cup {"batch_size"} -> Int]
        /\ \A k \in 1..Len(ts) : IsOptions(ts[k].options)
    BY PipelineIs
  <1>5. q \in Repairs(Made(job, kind1, path, kind2, options, ts, kind3, dsn, table, columns, auto, runtime),
                      x, i)
    BY <1>2
  <1> HIDE DEF job, kind1, path, kind2, options, ts, kind3, dsn, table, columns, auto, runtime, x, i
  <1>6. /\ IsPipeline(q)
        /\ OnlyAt(Made(job, kind1, path, kind2, options, ts, kind3, dsn, table, columns, auto, runtime),
                  q, x, i)
    BY <1>1, <1>3, <1>4, <1>5, RepairMade
  <1> QED
    BY <1>2, <1>6 DEF x, i

(* So a repair removes an error and its place is never at fault again; it  *)
(* uncovers other errors only by giving a section a kind.                  *)
LEMMA RepairEffect ==
  ASSUME NEW p, IsPipeline(p), NEW place \in Places(p), NEW q \in Repairs(p, place[1], place[2])
  PROVE  /\ IsPipeline(q) /\ Places(q) = Places(p)
         /\ ~Fault(q, place)
         /\ \A other \in Places(p) : Fault(q, other) => Fault(p, other)
         /\ \A other \in Places(p) :
              other # place /\ IsOpen(other) => (other \in Wrong(q) <=> other \in Wrong(p))
         /\ ~IsOpen(place) => \A other \in Places(p) : Checked(q, other) <=> Checked(p, other)
  <1> PICK x : x = place[1]
    OBVIOUS
  <1> PICK i : i = place[2]
    OBVIOUS
  <1>1. IsPipeline(q) /\ OnlyAt(p, q, x, i)
    BY RepairIs
  <1>2. /\ Len(p.transform) \in Nat /\ place = <<x, i>> /\ x \in Paths
        /\ IF x \in InTransform THEN i \in 1..Len(p.transform) ELSE i = 0
    BY PipelineIs DEF Places
  <1>3. Places(q) = Places(p)
    BY <1>1 DEF Places, OnlyAt
  <1>4. ~Fault(q, place)
    BY <1>1, <1>2 DEF Fault, OnlyAt, NothingToInfer, InTransform, NonNegative
  <1>5. ASSUME NEW y, NEW k, <<y, k>> \in Places(p)
        PROVE  /\ Fault(q, <<y, k>>) => Fault(p, <<y, k>>)
               /\ <<y, k>> # place /\ IsOpen(<<y, k>>) => (Fault(p, <<y, k>>) => Fault(q, <<y, k>>))
               /\ ~IsOpen(place) => (Checked(q, <<y, k>>) <=> Checked(p, <<y, k>>))
               /\ IsOpen(<<y, k>>) => Checked(p, <<y, k>>) /\ Checked(q, <<y, k>>)
    <2>1. y \in Paths /\ IF y \in InTransform THEN k \in 1..Len(p.transform) ELSE k = 0
      BY <1>2, <1>5 DEF Places
    <2>2. Fault(q, <<y, k>>) => Fault(p, <<y, k>>)
      BY <1>1, <1>2, <2>1 DEF Fault, OnlyAt, NothingToInfer, InTransform, NonNegative
    <2>3. <<y, k>> # place /\ IsOpen(<<y, k>>) => (Fault(p, <<y, k>>) => Fault(q, <<y, k>>))
      BY <1>1, <1>2, <2>1 DEF Fault, OnlyAt, IsOpen, Open, InTransform, NonNegative
    <2>4. ~IsOpen(place) => (Checked(q, <<y, k>>) <=> Checked(p, <<y, k>>))
      BY <1>1, <1>2, <2>1 DEF Checked, OnlyAt, IsOpen, Open, InTransform
    <2>5. IsOpen(<<y, k>>) => Checked(p, <<y, k>>) /\ Checked(q, <<y, k>>)
      BY DEF Checked, IsOpen, Open, NonNegative
    <2> QED
      BY <2>2, <2>3, <2>4, <2>5
  <1>6. \A other \in Places(p) : other = <<other[1], other[2]>>
    BY DEF Places
  <1>7. \A other \in Places(p) :
          /\ Fault(q, other) => Fault(p, other)
          /\ other # place /\ IsOpen(other) => (Fault(p, other) => Fault(q, other))
          /\ ~IsOpen(place) => (Checked(q, other) <=> Checked(p, other))
          /\ IsOpen(other) => Checked(p, other) /\ Checked(q, other)
    BY <1>5, <1>6
  <1>8. \A other \in Places(p) :
          other # place /\ IsOpen(other) => (other \in Wrong(q) <=> other \in Wrong(p))
    BY <1>3, <1>7 DEF Wrong
  <1> QED
    BY <1>1, <1>3, <1>4, <1>7, <1>8

-----------------------------------------------------------------------------
(* The author *)

(* An issue the author has to repair is the error of its place.            *)
LEMMA DueOfIssues ==
  ASSUME NEW p, NEW T, T \subseteq {Issue("error", place[1], place[2]) : place \in Places(p)},
         NEW issue \in T
  PROVE  <<issue.path, issue.at>> \in Places(p) /\ issue = Issue("error", issue.path, issue.at)
  <1>1. PICK place \in Places(p) : issue = Issue("error", place[1], place[2])
    OBVIOUS
  <1>2. place = <<place[1], place[2]>>
    BY DEF Places
  <1>3. issue.path = place[1] /\ issue.at = place[2]
    BY <1>1, IssueIs
  <1> QED
    BY <1>1, <1>2, <1>3

(* The invariant holds before the first report,                            *)
LEMMA InitAuthor == Init => AuthorInv
  <1> SUFFICES ASSUME Init PROVE AuthorInv
    OBVIOUS
  <1>1. IsPipeline(pipeline)
    BY PipelinesAssumption DEF Init
  <1>2. Due = {}
    BY DEF Init, Due
  <1> QED
    BY <1>1, <1>2 DEF Init, AuthorInv

(* of a new report,                                                        *)
LEMMA ValidateAuthor ==
  ASSUME AuthorInv, Validate
  PROVE  AuthorInv'
  <1> PICK W : W = Wrong(pipeline)
    OBVIOUS
  <1>0. /\ pipeline' = pipeline /\ repaired' = repaired /\ edited' = FALSE
        /\ report' = ValidatePipeline(pipeline) /\ todo' = Errors(report')
        /\ rounds' = IF report # {} /\ todo = {} THEN rounds + 1 ELSE rounds
    BY DEF Validate
  <1>1. todo' = {Issue("error", place[1], place[2]) : place \in W}
    BY <1>0, ErrorsWrong DEF AuthorInv
  <1>2. W \subseteq Places(pipeline) /\ \A place \in W : place = <<place[1], place[2]>>
    BY DEF Wrong, Places
  <1>3. todo' \subseteq {Issue("error", place[1], place[2]) : place \in Places(pipeline)}
    BY <1>1, <1>2
  <1>4. Due' = W
    <2>1. Due' = {<<issue.path, issue.at>> : issue \in todo'}
      BY DEF Due
    <2> QED
      BY <1>1, <1>2, <2>1, IssueIs
  <1>5. todo = {} => Due = {}
    BY DEF Due
  <1>6. rounds \in Nat /\ rounds' \in Nat
    BY <1>0 DEF AuthorInv
  <1>7. ASSUME rounds' >= 1, NEW place \in W PROVE ~IsOpen(place)
    <2>1. CASE rounds >= 1
      BY <2>1 DEF AuthorInv
    <2>2. CASE report # {} /\ todo = {}
      BY <1>5, <2>2 DEF AuthorInv
    <2> QED
      BY <1>0, <1>6, <1>7, <2>1, <2>2
  <1>8. ASSUME rounds' >= 2 PROVE W = {}
    <2>1. CASE rounds >= 2
      BY <2>1 DEF AuthorInv
    <2>2. CASE rounds >= 1 /\ todo = {}
      BY <1>5, <2>2 DEF AuthorInv
    <2> QED
      BY <1>0, <1>6, <1>8, <2>1, <2>2
  <1>9. Wrong(pipeline)' = W /\ Places(pipeline)' = Places(pipeline) /\ IsPipeline(pipeline')
    BY <1>0 DEF AuthorInv
  <1>10. repaired' \subseteq Places(pipeline') /\ \A place \in repaired' : ~Fault(pipeline', place)
    BY <1>0 DEF AuthorInv
  <1>11. report' = ValidatePipeline(pipeline')
    BY <1>0
  <1> QED
    BY <1>3, <1>4, <1>6, <1>7, <1>8, <1>9, <1>10, <1>11 DEF AuthorInv

(* after a repair,                                                         *)
LEMMA RepairAuthor ==
  ASSUME AuthorInv, Repair
  PROVE  AuthorInv'
  <1> PICK p, q : p = pipeline /\ q = pipeline'
    OBVIOUS
  <1>1. PICK issue \in todo : /\ pipeline' \in Repairs(pipeline, issue.path, issue.at)
                              /\ todo' = todo \ {issue}
                              /\ repaired' = repaired \cup {<<issue.path, issue.at>>}
    BY DEF Repair
  <1> DEFINE place == <<issue.path, issue.at>>
  <1>2. edited' = TRUE /\ report' = report /\ rounds' = rounds
    BY DEF Repair
  <1>3. todo \subseteq {Issue("error", pl[1], pl[2]) : pl \in Places(p)}
    BY DEF AuthorInv
  <1>4. place \in Places(p) /\ place \in Due /\ issue = Issue("error", issue.path, issue.at)
    BY <1>1, <1>3, DueOfIssues DEF Due
  <1>5. /\ IsPipeline(q) /\ Places(q) = Places(p)
        /\ ~Fault(q, place)
        /\ \A other \in Places(p) : Fault(q, other) => Fault(p, other)
        /\ \A other \in Places(p) :
             other # place /\ IsOpen(other) => (other \in Wrong(q) <=> other \in Wrong(p))
        /\ ~IsOpen(place) => \A other \in Places(p) : Checked(q, other) <=> Checked(p, other)
    <2>1. q \in Repairs(p, place[1], place[2]) /\ IsPipeline(p)
      BY <1>1 DEF AuthorInv
    <2> QED
      BY <1>4, <2>1, RepairEffect
  <1>6. \A other \in Due' : other \in Due /\ other # place /\ other \in Places(p)
    <2>1. todo' \subseteq {Issue("error", pl[1], pl[2]) : pl \in Places(p)}
      BY <1>1, <1>3
    <2>2. ASSUME NEW other \in Due' PROVE other \in Due /\ other # place /\ other \in Places(p)
      <3>1. PICK i2 \in todo' : other = <<i2.path, i2.at>>
        BY DEF Due
      <3>2. i2 \in todo /\ i2 # issue
        BY <1>1, <3>1
      <3>3. i2 = Issue("error", i2.path, i2.at) /\ other \in Places(p)
        BY <1>3, <3>1, <3>2, DueOfIssues
      <3>4. other # place
        BY <1>4, <3>1, <3>2, <3>3
      <3> QED
        BY <3>1, <3>2, <3>3, <3>4 DEF Due
    <2> QED
      BY <2>2
  <1>7. \A other \in Due : other # place => other \in Due'
    <2> SUFFICES ASSUME NEW other \in Due, other # place PROVE other \in Due'
      OBVIOUS
    <2>1. PICK i2 \in todo : other = <<i2.path, i2.at>>
      BY DEF Due
    <2>2. i2 \in todo'
      BY <1>1, <2>1
    <2> QED
      BY <2>1, <2>2 DEF Due
  <1>8. place \notin Wrong(q) /\ Wrong(q) \subseteq Places(p)
    BY <1>5 DEF Wrong
  <1>9. rounds >= 1 => Wrong(q) \subseteq Wrong(p)
    <2> SUFFICES ASSUME rounds >= 1, NEW other \in Wrong(q) PROVE other \in Wrong(p)
      OBVIOUS
    <2>1. ~IsOpen(place)
      BY <1>4 DEF AuthorInv
    <2> QED
      BY <1>5, <1>8, <2>1 DEF Wrong
  <1> HIDE DEF place
  <1>10. todo' \subseteq {Issue("error", pl[1], pl[2]) : pl \in Places(q)}
    BY <1>1, <1>3, <1>5
  <1>11. repaired' \subseteq Places(q) /\ \A pl \in repaired' : ~Fault(q, pl)
    BY <1>1, <1>4, <1>5 DEF AuthorInv, place
  <1>12. \A pl \in Due' : IsOpen(pl) => pl \in Wrong(q)
    BY <1>5, <1>6 DEF AuthorInv
  <1>13. report' # {} => \A pl \in Wrong(q) : IsOpen(pl) => pl \in Due'
    BY <1>2, <1>5, <1>7, <1>8 DEF AuthorInv
  <1>14. rounds' >= 1 => \A pl \in Wrong(q) : ~IsOpen(pl) /\ pl \in Due'
    BY <1>2, <1>7, <1>8, <1>9 DEF AuthorInv
  <1>15. rounds' >= 2 => Wrong(q) = {}
    <2> SUFFICES ASSUME rounds' >= 2 PROVE Wrong(q) = {}
      OBVIOUS
    <2>1. rounds \in Nat /\ rounds >= 1
      BY <1>2 DEF AuthorInv
    <2> QED
      BY <1>2, <1>9, <2>1 DEF AuthorInv
  <1>16. rounds' \in Nat /\ q = pipeline' /\ Wrong(q) = Wrong(pipeline)' /\ Places(q) = Places(pipeline)'
    BY <1>2 DEF AuthorInv
  <1> QED
    BY <1>2, <1>5, <1>10, <1>11, <1>12, <1>13, <1>14, <1>15, <1>16 DEF AuthorInv

(* and after a reload.                                                     *)
LEMMA ReloadAuthor ==
  ASSUME AuthorInv, Reload
  PROVE  AuthorInv'
  <1> PICK p, q : p = pipeline /\ q = pipeline'
    OBVIOUS
  <1>1. /\ Stored(p) /\ q = Reloaded(p) /\ edited' = TRUE
        /\ report' = report /\ todo' = todo /\ repaired' = repaired /\ rounds' = rounds
    BY DEF Reload
  <1>2. IsPipeline(p)
    BY DEF AuthorInv
  <1>3. /\ IsPipeline(q) /\ Places(q) = Places(p)
        /\ \A place \in Places(p) : Fault(q, place) <=> Fault(p, place)
        /\ Wrong(q) = Wrong(p)
    BY <1>1, <1>2, ReloadKeeps
  <1>4. Due' = Due
    BY <1>1 DEF Due
  <1>5. repaired' \subseteq Places(q) /\ \A place \in repaired' : ~Fault(q, place)
    BY <1>1, <1>3 DEF AuthorInv
  <1>6. Wrong(pipeline)' = Wrong(pipeline) /\ Places(pipeline)' = Places(pipeline)
    BY <1>3
  <1> QED
    BY <1>1, <1>3, <1>4, <1>5, <1>6 DEF AuthorInv

(* What the author knows at any time: the errors due are the open ones of  *)
(* the pipeline until the first report is repaired to the last error, all  *)
(* the errors there are after that, and none after the second.             *)
THEOREM AuthorInvariance == Spec => []AuthorInv
  <1>1. AuthorInv /\ [Next]_vars => AuthorInv'
    <2> SUFFICES ASSUME AuthorInv, [Next]_vars PROVE AuthorInv'
      OBVIOUS
    <2>1. CASE UNCHANGED vars
      <3>1. Due' = Due
        BY <2>1 DEF vars, Due
      <3> QED
        BY <2>1, <3>1 DEF vars, AuthorInv
    <2>2. CASE Accepted
      <3>1. UNCHANGED vars
        BY <2>2 DEF Accepted
      <3> QED
        BY <2>1, <3>1
    <2> QED
      BY <2>1, <2>2, ValidateAuthor, RepairAuthor, ReloadAuthor DEF Next
  <1> QED
    BY <1>1, InitAuthor, PTL DEF Spec

(* A third report has no error, whichever repairs the author made between  *)
(* two reports and wherever the pipeline was stored and loaded: no check   *)
(* hides errors behind errors more than once.                              *)
THEOREM Converge == Spec => []RepairsConverge
  <1>1. AuthorInv => RepairsConverge
    BY ErrorsWrong DEF AuthorInv, RepairsConverge
  <1> QED
    BY <1>1, AuthorInvariance, PTL

(* No repair, of whatever place, makes the report call an error what was   *)
(* repaired before.                                                        *)
THEOREM RepairsStay == Spec => []RepairedStays
  <1>1. AuthorInv => RepairedStays
    <2> SUFFICES ASSUME AuthorInv, NEW issue \in Errors(report), ~edited,
                        <<issue.path, issue.at>> \in repaired
                 PROVE  FALSE
      BY DEF RepairedStays
    <2>1. PICK place \in Wrong(pipeline) : issue = Issue("error", place[1], place[2])
      BY ErrorsWrong DEF AuthorInv
    <2>2. place = <<place[1], place[2]>>
      BY DEF Wrong, Places
    <2>3. place \in repaired
      BY <2>1, <2>2, IssueIs
    <2> QED
      BY <2>1, <2>3 DEF AuthorInv, Wrong
  <1> QED
    BY <1>1, AuthorInvariance, PTL

(* What a pipeline keeps when json.Marshal takes it and it is loaded again: *)
(* the reads of every option the reads know the type of, an int within     *)
(* 2^53; the report, if such are the two options it reads; and, whatever   *)
(* the options are, its errors.                                            *)
THEOREM ReloadsMeanTheSame == Spec => []ReloadMeansTheSame
  <1>1. AuthorInv => ReloadMeansTheSame
    BY ReloadMeans DEF AuthorInv
  <1> QED
    BY <1>1, AuthorInvariance, PTL
=============================================================================
