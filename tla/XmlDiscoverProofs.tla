-------------------------- MODULE XmlDiscoverProofs --------------------------
(***************************************************************************)
(* That GuessRecordTag and Discover agree on a stream of any length and    *)
(* any depth, wherever it is cut, and that what Discover reports of such a *)
(* stream - the counts, the examples, the lists of the starter             *)
(* configuration - is that of its closed records.                          *)
(***************************************************************************)
EXTENDS XmlDiscover, SequenceTheorems, FiniteSetTheorems, WellFoundedInduction, TLAPS

LEMMA FrontOfSeq ==
  ASSUME NEW S, NEW q \in Seq(S), q # Empty
  PROVE  /\ Front(q) \in Seq(S)
         /\ Len(Front(q)) = Len(q) - 1
         /\ Len(q) \in Nat \ {0}
         /\ \A i \in 1..(Len(q) - 1) : Front(q)[i] = q[i]
  <1>1. Len(q) \in Nat \ {0} /\ \A i \in 1..Len(q) : q[i] \in S
    BY DEF Empty
  <1> DEFINE n == Len(q) - 1
  <1>2. n \in Int /\ \A i \in 1..n : q[i] \in S
    BY <1>1
  <1>3. Front(q) = SubSeq(q, 1, n)
    BY DEF Front
  <1>4. n \in Nat
    BY <1>1
  <1> HIDE DEF n
  <1>5. /\ SubSeq(q, 1, n) \in Seq(S)
        /\ Len(SubSeq(q, 1, n)) = IF 1 <= n THEN n - 1 + 1 ELSE 0
        /\ \A i \in 1..(n - 1 + 1) : SubSeq(q, 1, n)[i] = q[1 + i - 1]
    BY <1>2, SubSeqProperties
  <1>6. Len(SubSeq(q, 1, n)) = n /\ \A i \in 1..n : SubSeq(q, 1, n)[i] = q[i]
    BY <1>4, <1>5
  <1> QED
    BY <1>1, <1>3, <1>5, <1>6 DEF n


-----------------------------------------------------------------------------
(* GuessRecordTag *)

LEMMA InitInv == Init => IInv
  <1> SUFFICES ASSUME Init PROVE IInv
    OBVIOUS
  <1>1. /\ inRecord = FALSE /\ rootName = NoName /\ rep.TotalRecords = 0
        /\ stack = << >> /\ relStack = << >> /\ counts = [n \in Name |-> 0]
    BY DEF Init, Empty
  <1>2. counts \in [Name -> Nat] /\ counts[RecordTag] = 0
    BY <1>1, NameAssumption
  <1>3. Placed /\ GuessKeepsUp
    BY <1>1, <1>2 DEF Placed, GuessKeepsUp
  <1>4. << >> \in Seq(Name) /\ 0 \in Nat
    OBVIOUS
  <1>5. stack \in Seq(Name) /\ relStack \in Seq(Name) /\ rep.TotalRecords \in Nat
    BY <1>1, <1>4, Zenon
  <1> QED
    BY <1>1, <1>2, <1>3, <1>5, Zenon DEF IInv

(* A start tag counts for RecordTag only when the tag is RecordTag, below  *)
(* a root that was seen before. *)
LEMMA GuessStartStep ==
  ASSUME IInv, NEW n \in Name, GuessStart(n)
  PROVE  /\ stack' \in Seq(Name) /\ Len(stack') = Len(stack) + 1
         /\ stack'[Len(stack')] = n
         /\ \A i \in DOMAIN stack : stack'[i] = stack[i] /\ i \in DOMAIN stack'
         /\ counts' \in [Name -> Nat] /\ rootName' \in Name \cup {NoName}
         /\ rootName' # RecordTag => rootName # RecordTag
         /\ counts'[RecordTag] \in {counts[RecordTag], counts[RecordTag] + 1}
         /\ counts'[RecordTag] # counts[RecordTag] =>
              n = RecordTag /\ Len(stack) = 1 /\ stack[1] = rootName
  <1>1. /\ stack \in Seq(Name) /\ stack' = Append(stack, n)
        /\ counts \in [Name -> Nat] /\ rootName \in Name \cup {NoName}
    BY DEF IInv, GuessStart
  <1>2. rootName' \in Name \cup {NoName} /\ (rootName' # RecordTag => rootName # RecordTag)
    BY <1>1, NameAssumption DEF GuessStart
  <1>3. /\ Len(stack) \in Nat /\ Len(stack') = Len(stack) + 1
        /\ stack' \in Seq(Name) /\ stack'[Len(stack')] = n
        /\ \A i \in DOMAIN stack : stack'[i] = stack[i] /\ i \in DOMAIN stack'
        /\ Len(stack) = 1 => stack'[1] = stack[1]
    BY <1>1
  <1>4. /\ counts' \in [Name -> Nat]
        /\ counts'[RecordTag] \in {counts[RecordTag], counts[RecordTag] + 1}
        /\ counts'[RecordTag] # counts[RecordTag] => n = RecordTag
    BY <1>1, NameAssumption DEF GuessStart
  <1>5. counts' # counts => Len(stack) = 1 /\ stack[1] = rootName
    <2>1. counts' # counts => Len(stack') = 2 /\ stack'[1] = rootName
      BY DEF GuessStart, ChildOfRoot
    <2>2. Len(stack') = 2 => Len(stack) = 1
      <3>1. \A k \in Nat : k + 1 = 2 => k = 1
        OBVIOUS
      <3>2. Len(stack) \in Nat /\ Len(stack') = Len(stack) + 1
        BY <1>3
      <3> QED
        BY <3>1, <3>2, Zenon
    <2>3. Len(stack) = 1 => stack'[1] = stack[1]
      BY <1>3
    <2> QED
      BY <2>1, <2>2, <2>3, Zenon
  <1>6. counts'[RecordTag] # counts[RecordTag] => Len(stack) = 1 /\ stack[1] = rootName
    BY <1>5
  <1> QED
    BY <1>2, <1>3, <1>4, <1>6

LEMMA GuessEndStep ==
  ASSUME IInv, GuessEnd
  PROVE  /\ stack' \in Seq(Name)
         /\ UNCHANGED <<rootName, counts>>
         /\ stack # Empty => stack' = Front(stack)
  BY FrontOfSeq DEF IInv, GuessEnd

LEMMA Step == IInv /\ [Next]_vars => IInv'
  <1> SUFFICES ASSUME IInv, [Next]_vars PROVE IInv'
    OBVIOUS
  <1>0. /\ inRecord \in BOOLEAN /\ rootName \in Name \cup {NoName}
        /\ stack \in Seq(Name) /\ relStack \in Seq(Name)
        /\ counts \in [Name -> Nat] /\ rep.TotalRecords \in Nat
        /\ counts[RecordTag] \in Nat
    BY NameAssumption DEF IInv
  <1>1. ASSUME NEW n \in Name, StartOutside(n) PROVE IInv'
    <2>1. GuessStart(n) /\ n # RecordTag /\ UNCHANGED discoverVars /\ ~inRecord
      BY <1>1 DEF StartOutside
    <2>2. GuessKeepsUp'
      BY <2>1, <1>0, GuessStartStep DEF IInv, GuessKeepsUp, discoverVars
    <2> QED
      BY <2>1, <2>2, <1>0, GuessStartStep DEF IInv, Placed, discoverVars
  <1>2. CASE StartRecord
    <2>1. /\ GuessStart(RecordTag) /\ RecordTag \in Name /\ ~inRecord
          /\ inRecord' = TRUE /\ relStack' = << >> /\ rep' = rep
      BY <1>2, NameAssumption DEF StartRecord, Empty
    <2>2. Placed'
      <3>1. /\ stack' \in Seq(Name) /\ stack'[Len(stack')] = RecordTag
            /\ Len(stack') = Len(stack) + 1
        BY <2>1, GuessStartStep
      <3>2. Len(stack') \in DOMAIN stack' /\ Len(stack') = Len(stack') + Len(relStack')
        BY <3>1, <2>1, <1>0
      <3> QED
        BY <3>1, <3>2 DEF Placed
    <2>3. GuessKeepsUp'
      <3>1. /\ rootName' # RecordTag => rootName # RecordTag
            /\ counts'[RecordTag] \in {counts[RecordTag], counts[RecordTag] + 1}
        BY <2>1, GuessStartStep
      <3>2. rootName # RecordTag => counts[RecordTag] <= rep.TotalRecords
        BY <2>1, <1>0 DEF IInv, GuessKeepsUp
      <3>3. rootName' # RecordTag => counts'[RecordTag] <= rep'.TotalRecords + 1
        BY <3>1, <3>2, <2>1, <1>0
      <3> QED
        BY <3>3, <2>1 DEF GuessKeepsUp
    <2> QED
      BY <2>1, <2>2, <2>3, <1>0, GuessStartStep DEF IInv
  <1>3. ASSUME NEW n \in Name, NEW attrs \in SUBSET Attr, StartNode(n, attrs) PROVE IInv'
    <2>1. /\ GuessStart(n) /\ inRecord /\ relStack' = Append(relStack, n)
          /\ inRecord' = inRecord /\ rep' = rep
      BY <1>3 DEF StartNode
    <2>2. PICK i \in DOMAIN stack : stack[i] = RecordTag /\ Len(stack) = i + Len(relStack)
      BY <2>1 DEF IInv, Placed
    <2>3. /\ Len(relStack) \in Nat /\ Len(relStack') = Len(relStack) + 1
          /\ relStack' \in Seq(Name) /\ i \in Nat \ {0}
      BY <2>1, <1>0
    <2>4. Placed'
      <3>1. i \in DOMAIN stack' /\ stack'[i] = stack[i] /\ Len(stack') = Len(stack) + 1
        BY <2>1, GuessStartStep
      <3>2. Len(stack') = i + Len(relStack')
        BY <3>1, <2>2, <2>3
      <3> QED
        BY <3>1, <3>2, <2>2 DEF Placed
    <2>5. GuessKeepsUp'
      <3>1. Len(stack) = 1 => stack[1] = RecordTag
        <4>1. \A k \in Nat : k = i + Len(relStack) => (k = 1 => i = 1)
          BY <2>3
        <4>2. Len(stack) \in Nat
          BY <1>0
        <4>3. Len(stack) = 1 => i = 1
          BY <4>1, <4>2, <2>2, Zenon
        <4> QED
          BY <4>3, <2>2
      <3>2. /\ rootName' # RecordTag => rootName # RecordTag
            /\ counts'[RecordTag] # counts[RecordTag] => Len(stack) = 1 /\ stack[1] = rootName
        BY <2>1, GuessStartStep
      <3>3. rootName' # RecordTag => counts'[RecordTag] = counts[RecordTag]
        BY <3>1, <3>2
      <3> QED
        BY <3>2, <3>3, <2>1 DEF IInv, GuessKeepsUp
    <2> QED
      BY <2>1, <2>3, <2>4, <2>5, <1>0, GuessStartStep DEF IInv
  <1>4. ASSUME NEW c \in Chunk, CharData(c) PROVE IInv'
    BY <1>4 DEF CharData, guessVars, IInv, Placed, GuessKeepsUp
  <1>5. CASE EndOutside
    <2>1. GuessEnd /\ UNCHANGED discoverVars /\ ~inRecord
      BY <1>5 DEF EndOutside, CloseElement
    <2> QED
      BY <2>1, <1>0, GuessEndStep DEF IInv, Placed, GuessKeepsUp, discoverVars
  <1>6. CASE EndRecord
    <2>1. /\ GuessEnd /\ inRecord /\ inRecord' = FALSE /\ relStack' = relStack
          /\ rep'.TotalRecords = rep.TotalRecords + 1
      BY <1>6 DEF EndRecord, CloseElement, mergeRecordIntoGlobal
    <2>2. stack' \in Seq(Name) /\ UNCHANGED <<rootName, counts>>
      BY <2>1, GuessEndStep
    <2>3. GuessKeepsUp'
      <3>1. rootName # RecordTag => counts[RecordTag] <= rep.TotalRecords + 1
        BY <2>1 DEF IInv, GuessKeepsUp
      <3> QED
        BY <3>1, <2>1, <2>2, <1>0 DEF GuessKeepsUp
    <2>4. Placed'
      BY <2>1 DEF Placed
    <2>5. rep'.TotalRecords \in Nat /\ inRecord' \in BOOLEAN
      <3>1. \A k \in Nat : k + 1 \in Nat
        OBVIOUS
      <3> QED
        BY <3>1, <2>1, <1>0, Zenon
    <2>6. rootName' \in Name \cup {NoName} /\ counts' \in [Name -> Nat]
      BY <2>2, <1>0
    <2>7. relStack' \in Seq(Name)
      BY <2>1, <1>0
    <2> QED
      BY <2>2, <2>3, <2>4, <2>5, <2>6, <2>7 DEF IInv
  <1>7. CASE EndNode
    <2>1. /\ GuessEnd /\ inRecord /\ inRecord' = inRecord /\ rep' = rep
          /\ relStack # Empty /\ relStack' = Front(relStack)
      BY <1>7 DEF EndNode, CloseElement
    <2>2. PICK i \in DOMAIN stack : stack[i] = RecordTag /\ Len(stack) = i + Len(relStack)
      BY <2>1 DEF IInv, Placed
    <2>3. /\ relStack' \in Seq(Name) /\ Len(relStack') = Len(relStack) - 1
          /\ Len(relStack) \in Nat \ {0}
      BY <2>1, <1>0, FrontOfSeq
    <2>4. stack # Empty /\ stack' = Front(stack)
      BY <2>1, <2>2, <1>0, GuessEndStep DEF Empty
    <2>5. Placed'
      <3>1. i \in 1..(Len(stack) - 1)
        BY <2>2, <2>3, <1>0
      <3>2. /\ stack' \in Seq(Name) /\ Len(stack') = Len(stack) - 1 /\ stack'[i] = stack[i]
        BY <3>1, <2>4, <1>0, FrontOfSeq
      <3>3. i \in DOMAIN stack' /\ Len(stack') = i + Len(relStack')
        BY <3>1, <3>2, <2>2, <2>3, <1>0
      <3> QED
        BY <3>2, <3>3, <2>2 DEF Placed
    <2> QED
      BY <2>1, <2>3, <2>5, <1>0, GuessEndStep DEF IInv, GuessKeepsUp
  <1>8. CASE Return \/ UNCHANGED vars
    BY <1>8 DEF Return, vars, discoverVars, guessVars, IInv, Placed, GuessKeepsUp
  <1> QED
    BY <1>1, <1>2, <1>3, <1>4, <1>5, <1>6, <1>7, <1>8 DEF Next

(* IInv is an invariant: Discover's place in a record is on the stack of   *)
(* GuessRecordTag, and the counts of both keep up with each other.         *)
THEOREM Invariance == Spec => []IInv
  BY InitInv, Step, PTL DEF Spec

(* A guessed tag is found by Discover as often as it was counted, but for  *)
(* a record that is still open, in a stream of any length and depth.       *)
THEOREM GuessUseful == Spec => []GuessIsDiscovered
  <1>1. IInv => GuessIsDiscovered
    <2> SUFFICES ASSUME IInv, RecordTag \in Guess, rootName # RecordTag
                 PROVE  /\ counts[RecordTag] <= rep.TotalRecords + (IF inRecord THEN 1 ELSE 0)
                        /\ \A n \in Name : counts[n] <= counts[RecordTag]
      BY DEF GuessIsDiscovered
    <2>1. counts[RecordTag] <= rep.TotalRecords + (IF inRecord THEN 1 ELSE 0)
      BY DEF IInv, GuessKeepsUp
    <2>2. \A n \in Name : counts[n] <= counts[RecordTag]
      BY NameAssumption DEF Guess
    <2> QED
      BY <2>1, <2>2
  <1> QED
    BY <1>1, Invariance, PTL

-----------------------------------------------------------------------------
(* The examples: the first different texts, whatever the cap *)

(* A set of natural numbers that is not empty has a least element: what    *)
(* the proofs below have for induction. *)
LEMMA NatMin ==
  ASSUME NEW T, T \subseteq Nat, T # {}
  PROVE  \E x \in T : \A y \in T : x <= y
  <1> DEFINE R == OpToRel(<, Nat)
  <1>1. PICK x \in T : \A y \in T : ~ (<<y, x>> \in R)
    BY NatLessThanWellFounded, WFMin, Zenon
  <1>2. \A a \in Nat, b \in Nat : b < a => <<b, a>> \in R
    BY DEF OpToRel
  <1> HIDE DEF R
  <1>3. ASSUME NEW y \in T PROVE ~ (y < x)
    BY <1>1, <1>2, Zenon
  <1>4. \A y \in T : x <= y
    BY <1>3
  <1> QED
    BY <1>4

(* Of every text in M there is a first occurrence. *)
LEMMA FirstOccurrence ==
  ASSUME NEW txt, NEW M \in SUBSET Nat, NEW j \in M, txt[j] # Empty
  PROVE  \E i \in Firsts(txt, M) : i <= j /\ txt[i] = txt[j]
  <1> DEFINE Same == {i \in M : txt[i] = txt[j]}
  <1>1. PICK i \in Same : \A k \in Same : i <= k
    <2>1. Same \subseteq Nat /\ j \in Same
      OBVIOUS
    <2> QED
      BY <2>1, NatMin
  <1>2. i \in Firsts(txt, M)
    BY <1>1 DEF Firsts
  <1> QED
    BY <1>1, <1>2

(* What is listed depends on the first texts only. *)
LEMMA ListedSame ==
  ASSUME NEW txt, NEW ex, NEW M \in SUBSET Nat, NEW N \in SUBSET Nat,
         Firsts(txt, N) = Firsts(txt, M), Listed(txt, ex, M)
  PROVE  Listed(txt, ex, N)
  BY DEF Listed, Placing

(* Elements behind those of M whose texts are in M already add nothing. *)
LEMMA Shadowed ==
  ASSUME NEW txt, NEW M \in SUBSET Nat, NEW G \in SUBSET Nat,
         \A g \in G : /\ \A m \in M : m < g
                      /\ txt[g] = Empty \/ \E m \in M : txt[m] = txt[g]
  PROVE  Firsts(txt, M \cup G) = Firsts(txt, M)
  <1>1. ASSUME NEW i \in Firsts(txt, M) PROVE i \in Firsts(txt, M \cup G)
    BY <1>1 DEF Firsts
  <1>2. ASSUME NEW i \in Firsts(txt, M \cup G) PROVE i \in Firsts(txt, M)
    BY <1>2 DEF Firsts
  <1> QED
    BY <1>1, <1>2

(* addExample, for an element behind all those of M *)
LEMMA ListedAdd ==
  ASSUME NEW txt, NEW ex, NEW M \in SUBSET Nat, NEW n \in Nat,
         \A m \in M : m < n, txt[n] \in Seq(Chunk),
         Listed(txt, ex, M)
  PROVE  Listed(txt, AddExample(ex, txt[n], ExampleCap), M \cup {n})
  <1> DEFINE N == M \cup {n}
  <1>0. ex \in Seq(Seq(Chunk)) /\ Len(ex) \in Nat /\ ExampleCap \in Nat
    BY CapAssumption DEF Listed
  <1>1. PICK at \in [1..Len(ex) -> Firsts(txt, M)] : Placing(txt, ex, M, at)
    BY DEF Listed
  <1>2. Firsts(txt, M) \subseteq M /\ Firsts(txt, M) \subseteq Firsts(txt, N)
        /\ Firsts(txt, N) \subseteq Firsts(txt, M) \cup {n}
    <2>1. Firsts(txt, M) \subseteq M
      BY DEF Firsts
    <2>2. ASSUME NEW i \in Firsts(txt, M) PROVE i \in Firsts(txt, N)
      <3>1. i \in M /\ i < n /\ i \in Nat
        BY DEF Firsts
      <3>2. ASSUME NEW j \in N, j < i PROVE j \in M
        BY <3>1, <3>2
      <3> QED
        BY <3>1, <3>2 DEF Firsts
    <2>3. Firsts(txt, N) \subseteq Firsts(txt, M) \cup {n}
      BY DEF Firsts
    <2> QED
      BY <2>1, <2>2, <2>3
  <1>3. CASE txt[n] = Empty
    <2>1. Firsts(txt, N) = Firsts(txt, M)
      BY <1>2, <1>3 DEF Firsts
    <2> QED
      BY <2>1, <1>3, ListedSame DEF AddExample
  <1>4. CASE Contains(ex, txt[n])
    <2>1. PICK k \in 1..Len(ex) : ex[k] = txt[n]
      BY <1>4 DEF Contains
    <2>2. at[k] \in M /\ txt[at[k]] = txt[n]
      BY <2>1, <1>1, <1>2 DEF Placing
    <2>3. n \notin Firsts(txt, N)
      BY <2>2 DEF Firsts
    <2>4. Firsts(txt, N) = Firsts(txt, M)
      BY <1>2, <2>3
    <2> QED
      BY <2>4, <1>4, ListedSame DEF AddExample
  <1>5. CASE Len(ex) >= ExampleCap /\ txt[n] # Empty /\ ~Contains(ex, txt[n])
    <2>1. Len(ex) = ExampleCap /\ AddExample(ex, txt[n], ExampleCap) = ex
      BY <1>0, <1>5 DEF AddExample, Listed
    <2>2. Placing(txt, ex, N, at)
      <3>1. \A k \in 1..Len(ex) : at[k] < n
        BY <1>1, <1>2 DEF Placing
      <3> QED
        BY <1>1, <1>2, <2>1, <3>1 DEF Placing
    <2>3. at \in [1..Len(ex) -> Firsts(txt, N)]
      BY <1>2
    <2> QED
      BY <2>1, <2>2, <2>3, <1>0 DEF Listed
  <1>6. CASE Len(ex) < ExampleCap /\ txt[n] # Empty /\ ~Contains(ex, txt[n])
    <2> DEFINE ex2 == Append(ex, txt[n])
               at2 == [k \in 1..Len(ex2) |-> IF k = Len(ex2) THEN n ELSE at[k]]
    <2>1. /\ AddExample(ex, txt[n], ExampleCap) = ex2 /\ ex2 \in Seq(Seq(Chunk))
          /\ Len(ex2) = Len(ex) + 1 /\ ex2[Len(ex) + 1] = txt[n]
          /\ \A k \in 1..Len(ex) : ex2[k] = ex[k]
      BY <1>0, <1>6, AppendProperties DEF AddExample
    <2>2. \A m \in M : txt[m] # txt[n]
      <3>1. SUFFICES ASSUME NEW m \in M, txt[m] = txt[n] PROVE FALSE
        OBVIOUS
      <3>2. PICK i \in Firsts(txt, M) : txt[i] = txt[n]
        BY <3>1, <1>6, FirstOccurrence
      <3>3. \E k \in 1..Len(ex) : at[k] = i
        BY <3>2, <1>1, <1>6, <1>0 DEF Placing
      <3> QED
        BY <3>2, <3>3, <1>1, <1>6 DEF Contains, Placing
    <2>3. Firsts(txt, N) = Firsts(txt, M) \cup {n}
      BY <1>2, <1>6, <2>2 DEF Firsts
    <2> HIDE DEF ex2
    <2>4. \A k \in 1..Len(ex2) : at2[k] \in Firsts(txt, N) /\ ex2[k] = txt[at2[k]]
      <3>1. SUFFICES ASSUME NEW k \in 1..Len(ex2)
                     PROVE  at2[k] \in Firsts(txt, N) /\ ex2[k] = txt[at2[k]]
        OBVIOUS
      <3>2. CASE k = Len(ex2)
        BY <3>2, <2>1, <2>3, <1>0
      <3>3. CASE k # Len(ex2)
        <4>1. k \in 1..Len(ex) /\ at2[k] = at[k] /\ ex2[k] = ex[k]
          BY <3>3, <2>1, <1>0
        <4> QED
          BY <4>1, <2>3, <1>1 DEF Placing
      <3> QED
        BY <3>2, <3>3
    <2>5. \A k, l \in 1..Len(ex2) : k < l => at2[k] < at2[l]
      <3>1. \A k \in 1..Len(ex) : at[k] < n
        BY <1>1, <1>2 DEF Placing
      <3>2. \A k, l \in 1..Len(ex) : k < l => at[k] < at[l]
        BY <1>1 DEF Placing
      <3>3. SUFFICES ASSUME NEW k \in 1..Len(ex2), NEW l \in 1..Len(ex2), k < l
                     PROVE  at2[k] < at2[l]
        OBVIOUS
      <3>4. k \in 1..Len(ex) /\ at2[k] = at[k]
        BY <3>3, <2>1, <1>0
      <3>5. l # Len(ex2) => l \in 1..Len(ex) /\ at2[l] = at[l]
        BY <2>1, <1>0
      <3> QED
        BY <3>1, <3>2, <3>3, <3>4, <3>5
    <2>6. \A i \in Firsts(txt, N) : \E k \in 1..Len(ex2) : at2[k] = i
      <3>1. at2[Len(ex2)] = n /\ Len(ex2) \in 1..Len(ex2)
        BY <2>1, <1>0
      <3>2. ASSUME NEW i \in Firsts(txt, M) PROVE \E k \in 1..Len(ex2) : at2[k] = i
        <4>1. PICK k \in 1..Len(ex) : at[k] = i
          BY <1>1, <1>6, <1>0 DEF Placing
        <4> QED
          BY <4>1, <2>1, <1>0
      <3> QED
        BY <3>1, <3>2, <2>3
    <2>9. at2 \in [1..Len(ex2) -> Firsts(txt, N)]
      BY <2>4
    <2> HIDE DEF at2
    <2>7. Placing(txt, ex2, N, at2)
      BY <2>4, <2>5, <2>6 DEF Placing
    <2>8. Len(ex2) <= ExampleCap
      BY <2>1, <1>0, <1>6
    <2> QED
      BY <2>1, <2>7, <2>8, <2>9 DEF Listed
  <1> QED
    BY <1>3, <1>4, <1>5, <1>6, <1>0

(* The greatest element, from the least distance to the end *)
LEMMA MaxOf ==
  ASSUME NEW n \in Nat, NEW s \in SUBSET (1..n), s # {}
  PROVE  Max(s) \in s /\ \A y \in s : Max(s) >= y
  <1> DEFINE T == {n - x : x \in s}
  <1>1. T \subseteq Nat /\ T # {}
    <2>1. \A x \in s : x \in Nat /\ n - x \in Nat
      OBVIOUS
    <2> QED
      BY <2>1
  <1>2. PICK t \in T : \A y \in T : t <= y
    BY <1>1, NatMin
  <1>3. PICK x \in s : t = n - x
    BY <1>2
  <1>4. \A y \in s : x >= y
    <2> SUFFICES ASSUME NEW y \in s PROVE x >= y
      OBVIOUS
    <2>1. n - y \in T
      OBVIOUS
    <2>2. n - x <= n - y
      BY <2>1, <1>2, <1>3
    <2>3. x \in Int /\ y \in Int
      OBVIOUS
    <2> QED
      BY <2>2, <2>3
  <1> QED
    BY <1>4 DEF Max

(* The fold that merges examples, one example at a time.  FoldLeft is a     *)
(* recursive function on the subsets of 1..Len(seq); that one exists is     *)
(* shown for the least length at which there would be none. *)
LEMMA FoldExamples ==
  ASSUME NEW S, NEW base, NEW seq \in Seq(S)
  PROVE  \E f : /\ f[0] = base
                /\ \A k \in 1..Len(seq) : f[k] = AddExample(f[k - 1], seq[k], ExampleCap)
                /\ f[Len(seq)] = FoldLeft(LAMBDA arr, ex : AddExample(arr, ex, ExampleCap), base, seq)
  <1> DEFINE n == Len(seq)
             Add(g, s) == AddExample(g[s \ {Max(s)}], seq[Max(s)], ExampleCap)
             Eqn(g, m) == g = [s \in SUBSET (1..m) |-> IF s = {} THEN base ELSE Add(g, s)]
             iter == CHOOSE g : Eqn(g, n)
  <1>1. n \in Nat /\ DOMAIN seq = 1..n
    OBVIOUS
  <1>2. FoldLeft(LAMBDA arr, ex : AddExample(arr, ex, ExampleCap), base, seq) = iter[1..n]
    BY <1>1 DEF FoldLeft, MapThenFoldSet
  <1> HIDE DEF n, Add
  <1>3. ASSUME NEW m \in Nat, m > 0, NEW g, NEW h, NEW s \in SUBSET (1..m), s # {},
               \A t \in SUBSET (1..(m - 1)) : g[t] = h[t]
        PROVE  Add(g, s) = Add(h, s)
    <2>1. Max(s) \in 1..m /\ \A y \in s : Max(s) >= y
      BY <1>3, MaxOf
    <2>2. s \ {Max(s)} \in SUBSET (1..(m - 1))
      <3> DEFINE x == Max(s)
      <3> HIDE DEF x
      <3>1. x \in 1..m /\ \A y \in s : x >= y
        BY <2>1 DEF x
      <3>2. ASSUME NEW y \in s, y # x PROVE y \in 1..(m - 1)
        <4>1. y \in 1..m /\ x >= y
          BY <3>1
        <4> QED
          BY <4>1, <3>1, <3>2, <1>3
      <3> QED
        BY <3>2 DEF x
    <2> QED
      BY <2>2, <1>3 DEF Add
  <1>4. \A m \in Nat : \E g : Eqn(g, m)
    <2> DEFINE Bad == {m \in Nat : ~ \E g : Eqn(g, m)}
    <2>1. SUFFICES ASSUME Bad # {} PROVE FALSE
      OBVIOUS
    <2>2. PICK m \in Bad : \A k \in Bad : m <= k
      <3>1. Bad \subseteq Nat
        OBVIOUS
      <3> HIDE DEF Bad
      <3> QED
        BY <2>1, <3>1, NatMin
    <2>3. m # 0
      <3>1. SUBSET (1..0) = {{}}
        OBVIOUS
      <3>2. Eqn([s \in SUBSET (1..0) |-> base], 0)
        BY <3>1
      <3> QED
        BY <3>2
    <2>4. m - 1 \in Nat /\ m - 1 \notin Bad
      <3> HIDE DEF Bad
      <3>1. m \in Nat
        BY DEF Bad
      <3> QED
        BY <2>2, <2>3, <3>1
    <2>5. PICK g : Eqn(g, m - 1)
      BY <2>4
    <2> DEFINE h == [s \in SUBSET (1..m) |-> IF s = {} THEN base ELSE Add(g, s)]
    <2>6. \A t \in SUBSET (1..(m - 1)) : g[t] = h[t]
      <3> SUFFICES ASSUME NEW t \in SUBSET (1..(m - 1)) PROVE g[t] = h[t]
        OBVIOUS
      <3>1. t \in SUBSET (1..m)
        BY <2>4
      <3> QED
        BY <3>1, <2>5
    <2>7. Eqn(h, m)
      <3> HIDE DEF h, Bad
      <3>1. \A s \in SUBSET (1..m) : s # {} => Add(g, s) = Add(h, s)
        BY <2>6, <2>3, <2>2, <1>3 DEF Bad
      <3> QED
        BY <3>1 DEF h
    <2> QED
      BY <2>7, <2>2
  <1>5. Eqn(iter, n)
    BY <1>1, <1>4
  <1> HIDE DEF iter
  <1> DEFINE f == [k \in 0..n |-> iter[1..k]]
  <1>6. f[0] = base
    <2>1. 1..0 = {} /\ {} \in SUBSET (1..n) /\ 0 \in 0..n
      BY <1>1
    <2> QED
      BY <2>1, <1>5
  <1>7. ASSUME NEW k \in 1..n PROVE f[k] = AddExample(f[k - 1], seq[k], ExampleCap)
    <2>1. 1..k \in SUBSET (1..n) /\ 1..k # {} /\ k \in 0..n /\ k - 1 \in 0..n
      BY <1>1
    <2>2. Max(1..k) = k
      <3>1. Max(1..k) \in 1..k /\ \A y \in 1..k : Max(1..k) >= y
        BY <1>1, <2>1, MaxOf
      <3> QED
        BY <3>1, <1>1
    <2>3. (1..k) \ {k} = 1..(k - 1)
      BY <1>1
    <2>4. iter[1..k] = Add(iter, 1..k)
      BY <2>1, <1>5
    <2> QED
      BY <2>1, <2>2, <2>3, <2>4 DEF Add
  <1>8. f[n] = iter[1..n]
    BY <1>1
  <1> QED
    BY <1>2, <1>6, <1>7, <1>8 DEF n

LEMMA IntervalSize ==
  ASSUME NEW n \in Nat
  PROVE  IsFiniteSet(1..n) /\ Cardinality(1..n) = n
  <1>1. 1 \in Int /\ n \in Int
    OBVIOUS
  <1>2. IsFiniteSet(1..n) /\ Cardinality(1..n) = IF 1 > n THEN 0 ELSE n - 1 + 1
    BY <1>1, FS_Interval, Zenon
  <1> QED
    BY <1>2

(* The pigeonhole principle on intervals *)
LEMMA TwoInOneHole ==
  ASSUME NEW n \in Nat, NEW m \in Nat, m < n, NEW pos \in [1..n -> 1..m]
  PROVE  \E k, l \in 1..n : k # l /\ pos[k] = pos[l]
  <1> DEFINE S == 1..n
             T == 1..m
  <1>1. IsFiniteSet(S) /\ IsFiniteSet(T) /\ Cardinality(T) < Cardinality(S)
    BY IntervalSize
  <1>2. pos \in [S -> T]
    OBVIOUS
  <1> HIDE DEF S, T
  <1>3. \E k, l \in S : k # l /\ pos[k] = pos[l]
    BY <1>1, <1>2, FS_PigeonHole
  <1> QED
    BY <1>3 DEF S

(* The examples of a record, cut to the cap, merged into those of the       *)
(* report, cut to the cap, are the examples of both: what the first cut     *)
(* dropped would have been dropped by the second. *)
LEMMA ListedMerge ==
  ASSUME NEW txt, NEW A \in SUBSET Nat, NEW C \in SUBSET Nat,
         \A a \in A, c \in C : a < c,
         \A c \in C : txt[c] \in Seq(Chunk),
         NEW ga, Listed(txt, ga, A),
         NEW ra, Listed(txt, ra, C)
  PROVE  Listed(txt, FoldLeft(LAMBDA arr, ex : AddExample(arr, ex, ExampleCap), ga, ra), A \cup C)
  <1> DEFINE n == Len(ra)
  <1>0. ga \in Seq(Seq(Chunk)) /\ ra \in Seq(Seq(Chunk))
    BY DEF Listed
  <1>1. PICK at \in [1..n -> Firsts(txt, C)] : Placing(txt, ra, C, at)
    BY DEF Listed
  <1>2. PICK f : /\ f[0] = ga
                 /\ \A k \in 1..n : f[k] = AddExample(f[k - 1], ra[k], ExampleCap)
                 /\ f[n] = FoldLeft(LAMBDA arr, ex : AddExample(arr, ex, ExampleCap), ga, ra)
    BY <1>0, FoldExamples
  <1> DEFINE Upto(k) == A \cup {c \in C : \E l \in 1..k : c <= at[l]}
             P(k) == Listed(txt, f[k], Upto(k))
  <1>3. /\ n \in Nat /\ ExampleCap \in Nat /\ n <= ExampleCap
        /\ \A k \in 1..n : /\ at[k] \in C /\ at[k] \in Nat /\ txt[at[k]] = ra[k]
                           /\ at[k] \in Firsts(txt, C) /\ txt[at[k]] # Empty
    <2>1. n \in Nat /\ ExampleCap \in Nat /\ n <= ExampleCap
      BY <1>0, CapAssumption DEF Listed
    <2>2. Firsts(txt, C) \subseteq C /\ \A i \in Firsts(txt, C) : txt[i] # Empty
      BY DEF Firsts
    <2> QED
      BY <2>1, <2>2, <1>1 DEF Placing
  <1>4. \A k, l \in 1..n : k < l => at[k] < at[l]
    BY <1>1 DEF Placing
  <1> HIDE DEF n
  (* What lies in C before at[k] was said before at[k]. *)
  <1>5. ASSUME NEW g \in C, txt[g] # Empty,
               NEW k \in 1..n, g < at[k]
        PROVE  \E l \in 1..(k - 1) : at[l] <= g /\ txt[at[l]] = txt[g]
    <2>1. PICK i \in Firsts(txt, C) : i <= g /\ txt[i] = txt[g]
      BY <1>5, FirstOccurrence
    <2>2. i \in Nat /\ g \in Nat /\ i < at[k]
      BY <2>1, <1>5, <1>3 DEF Firsts
    <2>3. PICK l \in 1..n : at[l] = i
      BY <2>1, <2>2, <1>1, <1>3 DEF Placing, n
    <2>4. l < k
      BY <2>2, <2>3, <1>3, <1>4
    <2> QED
      BY <2>1, <2>3, <2>4, <1>3
  <1>6. \A k \in 0..n : Upto(k) \in SUBSET Nat
    OBVIOUS
  <1>7. P(0)
    <2>1. Upto(0) = A
      OBVIOUS
    <2> QED
      BY <2>1, <1>2
  <1>8. ASSUME NEW k \in 1..n, P(k - 1) PROVE P(k)
    <2> DEFINE G == {c \in C : c < at[k] /\ c \notin Upto(k - 1)}
               M == Upto(k - 1) \cup G
    <2>1. \A g \in G : /\ \A m \in Upto(k - 1) : m < g
                       /\ txt[g] = Empty \/ \E m \in Upto(k - 1) : txt[m] = txt[g]
      <3> SUFFICES ASSUME NEW g \in G
                   PROVE  /\ \A m \in Upto(k - 1) : m < g
                          /\ txt[g] = Empty \/ \E m \in Upto(k - 1) : txt[m] = txt[g]
        OBVIOUS
      <3>1. ASSUME NEW m \in Upto(k - 1) PROVE m < g
        <4>1. CASE m \in A
          BY <4>1
        <4>2. ASSUME NEW l \in 1..(k - 1), m \in C, m <= at[l] PROVE m < g
          <5>1. l \in 1..n /\ at[l] \in Nat /\ ~ (g <= at[l]) /\ m \in Nat /\ g \in Nat
            BY <4>2, <1>3
          <5> QED
            BY <5>1, <4>2
        <4> QED
          BY <4>1, <4>2
      <3>2. ASSUME txt[g] # Empty PROVE \E m \in Upto(k - 1) : txt[m] = txt[g]
        <4>1. PICK l \in 1..(k - 1) : txt[at[l]] = txt[g]
          BY <1>5, <3>2
        <4>2. l \in 1..n /\ at[l] \in C /\ at[l] <= at[l]
          BY <1>3
        <4> QED
          BY <4>1, <4>2
      <3> QED
        BY <3>1, <3>2
    <2>2. Firsts(txt, M) = Firsts(txt, Upto(k - 1))
      <3>1. Upto(k - 1) \in SUBSET Nat /\ G \in SUBSET Nat
        OBVIOUS
      <3> HIDE DEF Upto, G
      <3> QED
        BY <2>1, <3>1, Shadowed
    <2>3. Listed(txt, f[k - 1], M) /\ M \in SUBSET Nat
      <3>1. Upto(k - 1) \in SUBSET Nat /\ M \in SUBSET Nat
        OBVIOUS
      <3> HIDE DEF Upto, M
      <3> QED
        BY <2>2, <3>1, <1>8, ListedSame
    <2>4. \A m \in M : m < at[k]
      <3>1. at[k] \in Nat /\ at[k] \in C
        BY <1>3
      <3>2. ASSUME NEW l \in 1..(k - 1), NEW m \in C, m <= at[l] PROVE m < at[k]
        <4>1. l \in 1..n /\ l < k /\ at[l] \in Nat /\ m \in Nat
          BY <1>3
        <4> QED
          BY <4>1, <3>1, <3>2, <1>4
      <3> QED
        BY <3>1, <3>2
    <2>5. Upto(k) = M \cup {at[k]}
      <3>1. at[k] \in C /\ at[k] \in Nat /\ at[k] <= at[k]
        BY <1>3
      <3>2. ASSUME NEW c \in C PROVE c \in Upto(k) <=> c \in M \cup {at[k]}
        <4>1. c \in Upto(k) => c \in M \cup {at[k]}
          <5>1. ASSUME NEW l \in 1..k, c <= at[l] PROVE c \in M \cup {at[k]}
            <6>1. l = k => c < at[k] \/ c = at[k]
              BY <3>1, <5>1
            <6>2. l # k => l \in 1..(k - 1)
              OBVIOUS
            <6> QED
              BY <6>1, <6>2, <5>1
          <5> QED
            BY <5>1
        <4>2. c \in M \cup {at[k]} => c \in Upto(k)
          <5>1. k \in 1..k /\ \A l \in 1..(k - 1) : l \in 1..k
            OBVIOUS
          <5>2. c < at[k] \/ c = at[k] => c <= at[k]
            BY <3>1
          <5> QED
            BY <5>1, <5>2
        <4> QED
          BY <4>1, <4>2
      <3> QED
        BY <3>1, <3>2
    <2> HIDE DEF M, Upto
    <2>6. f[k] = AddExample(f[k - 1], txt[at[k]], ExampleCap) /\ txt[at[k]] \in Seq(Chunk)
      BY <1>2, <1>3
    <2>7. at[k] \in Nat
      BY <1>3
    <2>8. Listed(txt, AddExample(f[k - 1], txt[at[k]], ExampleCap), M \cup {at[k]})
      BY <2>3, <2>4, <2>6, <2>7, ListedAdd
    <2> QED
      BY <2>5, <2>6, <2>8
  <1>9. \A k \in 0..n : P(k)
    <2> DEFINE Bad == {k \in 0..n : ~P(k)}
    <2> HIDE DEF P
    <2>1. SUFFICES ASSUME Bad # {} PROVE FALSE
      OBVIOUS
    <2>2. PICK k \in Bad : \A j \in Bad : k <= j
      <3>1. Bad \subseteq Nat
        OBVIOUS
      <3> HIDE DEF Bad
      <3> QED
        BY <2>1, <3>1, NatMin
    <2>3. k # 0 /\ k \in 0..n
      BY <1>7
    <2>4. k \in 1..n /\ k - 1 \in 0..n /\ ~ (k <= k - 1)
      BY <2>3, <1>3
    <2>5. k - 1 \notin Bad
      <3> HIDE DEF Bad
      <3> QED
        BY <2>2, <2>4
    <2>6. P(k - 1)
      BY <2>4, <2>5
    <2>7. P(k)
      BY <2>4, <2>6, <1>8
    <2> QED
      BY <2>2, <2>7
  <1>10. P(n)
    <2> HIDE DEF P
    <2>1. n \in 0..n
      BY <1>3
    <2> QED
      BY <2>1, <1>9
  <1> DEFINE M == Upto(n)
             N == A \cup C
             rest == {c \in C : c \notin M}
  <1>11. N = M \cup rest /\ M \in SUBSET Nat /\ rest \in SUBSET Nat /\ N \in SUBSET Nat
    OBVIOUS
  <1>12. \A g \in rest, m \in M : m < g
    <2> SUFFICES ASSUME NEW g \in rest, NEW m \in M PROVE m < g
      OBVIOUS
    <2>1. ASSUME NEW l \in 1..n, m \in C, m <= at[l] PROVE m < g
      <3>1. at[l] \in Nat /\ ~ (g <= at[l]) /\ m \in Nat /\ g \in Nat
        BY <2>1, <1>3
      <3> QED
        BY <3>1, <2>1
    <2> QED
      BY <2>1
  <1>13. \A l \in 1..n : at[l] \in M
    BY <1>3
  <1>14. CASE n < ExampleCap
    <2>1. \A g \in rest : txt[g] = Empty \/ \E m \in M : txt[m] = txt[g]
      <3> SUFFICES ASSUME NEW g \in rest, txt[g] # Empty PROVE \E m \in M : txt[m] = txt[g]
        OBVIOUS
      <3>1. PICK i \in Firsts(txt, C) : txt[i] = txt[g]
        BY FirstOccurrence
      <3>2. \E l \in 1..n : at[l] = i
        BY <3>1, <1>1, <1>14, <1>3 DEF Placing, n
      <3> HIDE DEF M
      <3> QED
        BY <3>1, <3>2, <1>13
    <2>2. Firsts(txt, N) = Firsts(txt, M)
      <3> HIDE DEF M, N, rest
      <3> QED
        BY <2>1, <1>11, <1>12, Shadowed
    <2> HIDE DEF M, N, rest
    <2>3. Listed(txt, f[n], N)
      BY <2>2, <1>10, <1>11, ListedSame DEF M
    <2> QED
      BY <2>3, <1>2, <1>10 DEF N
  <1>15. CASE n = ExampleCap
    <2> DEFINE ex == f[n]
    <2>1. Listed(txt, ex, M) /\ ex \in Seq(Seq(Chunk))
      BY <1>10 DEF Listed
    <2> HIDE DEF ex, M, N, rest, Upto
    <2>2. PICK b \in [1..Len(ex) -> Firsts(txt, M)] : Placing(txt, ex, M, b)
      BY <2>1 DEF Listed
    <2>3. Len(ex) \in Nat /\ Len(ex) <= ExampleCap
      BY <2>1 DEF Listed
    <2>4. Len(ex) = ExampleCap
      <3>1. SUFFICES ASSUME Len(ex) < ExampleCap PROVE FALSE
        BY <2>3, <1>3
      <3>2. \A l \in 1..n : \E k \in 1..Len(ex) : ex[k] = ra[l]
        <4> SUFFICES ASSUME NEW l \in 1..n PROVE \E k \in 1..Len(ex) : ex[k] = ra[l]
          OBVIOUS
        <4>0. /\ at[l] \in M /\ txt[at[l]] # Empty /\ txt[at[l]] = ra[l]
              /\ M \in SUBSET Nat
          BY <1>3, <1>11, <1>13
        <4>1. PICK i \in Firsts(txt, M) : txt[i] = txt[at[l]]
          BY <4>0, FirstOccurrence
        <4>2. PICK k \in 1..Len(ex) : b[k] = i
          BY <4>1, <2>2, <3>1, <2>3, <1>3 DEF Placing
        <4>3. ex[k] = txt[b[k]]
          BY <2>2 DEF Placing
        <4> QED
          BY <4>0, <4>1, <4>2, <4>3
      <3> DEFINE pos == [l \in 1..n |-> CHOOSE k \in 1..Len(ex) : ex[k] = ra[l]]
      <3>3. pos \in [1..n -> 1..Len(ex)] /\ \A l \in 1..n : ex[pos[l]] = ra[l]
        BY <3>2
      <3> HIDE DEF pos
      <3>5. PICK k, l \in 1..n : k # l /\ pos[k] = pos[l]
        BY <3>1, <3>3, <2>3, <1>3, <1>15, TwoInOneHole
      <3>6. txt[at[k]] = txt[at[l]]
        BY <3>3, <3>5, <1>3
      <3>7. \A p, q \in 1..n : p < q => txt[at[p]] # txt[at[q]]
        <4> SUFFICES ASSUME NEW p \in 1..n, NEW q \in 1..n, p < q
                     PROVE  txt[at[p]] # txt[at[q]]
          OBVIOUS
        <4> QED
          BY <1>3, <1>4 DEF Firsts
      <3>8. k < l \/ l < k
        BY <3>5, <1>3
      <3> QED
        BY <3>6, <3>7, <3>8
    <2>5. \A k \in 1..Len(ex) : b[k] \in M
      BY <2>2 DEF Placing, Firsts
    <2>6. \A i \in Firsts(txt, M) : i \in Firsts(txt, N)
      <3> SUFFICES ASSUME NEW i \in Firsts(txt, M) PROVE i \in Firsts(txt, N)
        OBVIOUS
      <3>1. i \in M /\ i \in N /\ i \in Nat
        BY <1>11 DEF Firsts
      <3>2. ASSUME NEW j \in N, j < i PROVE j \in M
        BY <3>1, <3>2, <1>11, <1>12
      <3> QED
        BY <3>1, <3>2 DEF Firsts
    <2>7. \A i \in Firsts(txt, N) : i \in Firsts(txt, M) \/ i \in rest
      BY <1>11 DEF Firsts
    <2>8. Placing(txt, ex, N, b)
      <3>1. \A i \in rest : \A k \in 1..Len(ex) : b[k] < i
        BY <2>5, <1>12
      <3> QED
        BY <2>2, <2>4, <2>6, <2>7, <3>1 DEF Placing
    <2>10. b \in [1..Len(ex) -> Firsts(txt, N)]
      BY <2>6
    <2>9. Listed(txt, ex, N)
      BY <2>1, <2>3, <2>8, <2>10 DEF Listed
    <2> QED
      BY <2>1, <2>9, <1>2 DEF N, ex
  <1>16. n < ExampleCap \/ n = ExampleCap
    BY <1>3
  <1> HIDE DEF M, N, rest, P, Upto
  <1> QED
    BY <1>14, <1>15, <1>16

-----------------------------------------------------------------------------
(* Discover's place in the document *)

(* The element at k opens the outermost record. *)
AtOutermost(s, k) ==
  /\ k \in DOMAIN s /\ s[k].name = RecordTag
  /\ \A j \in 1..(k - 1) : s[j].name # RecordTag

LEMMA OutermostUnique ==
  ASSUME NEW s \in Seq(Node), NEW k, AtOutermost(s, k)
  PROVE  (CHOOSE i \in DOMAIN s :
            s[i].name = RecordTag /\ \A j \in 1..(i - 1) : s[j].name # RecordTag) = k
  <1> DEFINE c == CHOOSE i \in DOMAIN s :
                    s[i].name = RecordTag /\ \A j \in 1..(i - 1) : s[j].name # RecordTag
  <1>1. c \in DOMAIN s /\ s[c].name = RecordTag /\ \A j \in 1..(c - 1) : s[j].name # RecordTag
    BY DEF AtOutermost
  <1> HIDE DEF c
  <1>2. ~ (k < c) /\ ~ (c < k)
    BY <1>1 DEF AtOutermost
  <1>3. c = k
    BY <1>1, <1>2 DEF AtOutermost
  <1> QED
    BY <1>3 DEF c

LEMMA OutermostExists ==
  ASSUME NEW s \in Seq(Node), NEW i \in DOMAIN s, s[i].name = RecordTag
  PROVE  \E k \in DOMAIN s : AtOutermost(s, k)
  <1> DEFINE T == {j \in DOMAIN s : s[j].name = RecordTag}
  <1>1. T \subseteq Nat /\ i \in T
    OBVIOUS
  <1>2. PICK k \in T : \A j \in T : k <= j
    BY <1>1, NatMin
  <1>3. k \in DOMAIN s /\ k \in Nat /\ s[k].name = RecordTag
    BY <1>1
  <1>4. ASSUME NEW j \in 1..(k - 1), s[j].name = RecordTag PROVE FALSE
    <2>1. j \in DOMAIN s /\ j \in T /\ j < k
      BY <1>3, <1>4
    <2> QED
      BY <2>1, <1>2, <1>3
  <1> QED
    BY <1>3, <1>4 DEF AtOutermost

LEMMA NamesOf ==
  ASSUME NEW q \in Seq(Node)
  PROVE  LET r == [i \in DOMAIN q |-> q[i].name]
         IN  r \in Seq(Name) /\ Len(r) = Len(q) /\ \A i \in 1..Len(q) : r[i] = q[i].name
  <1> DEFINE n == Len(q)
  <1>1. n \in Nat /\ DOMAIN q = 1..n /\ \A i \in 1..n : q[i].name \in Name
    <2>1. n \in Nat /\ DOMAIN q = 1..n /\ \A i \in 1..n : q[i] \in Node
      OBVIOUS
    <2>2. \A nd \in Node : nd.name \in Name
      BY DEF Node
    <2> QED
      BY <2>1, <2>2
  <1> HIDE DEF n
  <1> DEFINE r == [i \in 1..n |-> q[i].name]
  <1>2. DOMAIN r = 1..n /\ \A i \in 1..n : r[i] = q[i].name
    OBVIOUS
  <1>3. r \in Seq(Name) /\ Len(r) = n
    BY <1>1
  <1> QED
    BY <1>1, <1>2, <1>3 DEF n

(* Where Discover is, as facts about open and the element AtOutermost. *)
LEMMA Where ==
  ASSUME Located
  PROVE  /\ open \in Seq(Node) /\ Len(open) \in Nat
         /\ inRecord = UnderRecord
         /\ inRecord =>
              /\ AtOutermost(open, Outermost)
              /\ Outermost \in 1..Len(open)
              /\ Len(nodeStack) = Len(open) - Outermost /\ Len(relStack) = Len(open) - Outermost
              /\ nodeStack \in Seq(Node) /\ relStack \in Seq(Name)
              /\ \A i \in 1..(Len(open) - Outermost) :
                   nodeStack[i] = open[Outermost + i] /\ relStack[i] = open[Outermost + i].name
         /\ ~inRecord => \A i \in 1..Len(open) : open[i].name # RecordTag
  <1>1. open \in Seq(Node) /\ Len(open) \in Nat /\ DOMAIN open = 1..Len(open)
        /\ inRecord = UnderRecord
    BY DEF Located
  <1>2. ~inRecord => \A i \in 1..Len(open) : open[i].name # RecordTag
    BY <1>1 DEF UnderRecord
  <1>3. ASSUME inRecord
        PROVE  /\ AtOutermost(open, Outermost)
               /\ Outermost \in 1..Len(open)
               /\ Len(nodeStack) = Len(open) - Outermost /\ Len(relStack) = Len(open) - Outermost
               /\ nodeStack \in Seq(Node) /\ relStack \in Seq(Name)
               /\ \A i \in 1..(Len(open) - Outermost) :
                    nodeStack[i] = open[Outermost + i] /\ relStack[i] = open[Outermost + i].name
    <2>1. AtOutermost(open, Outermost)
      <3>1. PICK i \in DOMAIN open : open[i].name = RecordTag
        BY <1>1, <1>3 DEF UnderRecord
      <3>2. PICK k \in DOMAIN open : AtOutermost(open, k)
        BY <1>1, <3>1, OutermostExists
      <3> QED
        BY <3>2, <1>1, OutermostUnique DEF Outermost
    <2> DEFINE o == Outermost
               n == Len(open)
    <2>2. o \in 1..n /\ n \in Nat
      BY <2>1, <1>1 DEF AtOutermost
    <2>3. nodeStack = SubSeq(open, o + 1, n) /\ relStack = [i \in DOMAIN nodeStack |-> nodeStack[i].name]
      BY <1>3 DEF Located
    <2> HIDE DEF o
    <2>4. \A i \in (o + 1)..n : open[i] \in Node
      BY <1>1, <2>2
    <2>5. /\ SubSeq(open, o + 1, n) \in Seq(Node)
          /\ Len(SubSeq(open, o + 1, n)) = IF o + 1 <= n THEN n - (o + 1) + 1 ELSE 0
          /\ \A i \in 1..(n - (o + 1) + 1) : SubSeq(open, o + 1, n)[i] = open[(o + 1) + i - 1]
      <3>1. o + 1 \in Int /\ n \in Int
        BY <2>2
      <3> QED
        BY <3>1, <2>4, SubSeqProperties
    <2>6. /\ nodeStack \in Seq(Node) /\ Len(nodeStack) = n - o
          /\ \A i \in 1..(n - o) : nodeStack[i] = open[o + i]
      BY <2>2, <2>3, <2>5
    <2>7. relStack \in Seq(Name) /\ Len(relStack) = n - o
          /\ \A i \in 1..(n - o) : relStack[i] = open[o + i].name
      <3>1. n - o \in Nat
        BY <2>2
      <3>2. relStack \in Seq(Name) /\ Len(relStack) = n - o
            /\ \A i \in 1..(n - o) : relStack[i] = nodeStack[i].name
        BY <2>3, <2>6, NamesOf
      <3> QED
        BY <3>1, <3>2, <2>6
    <2> QED
      BY <2>1, <2>2, <2>6, <2>7 DEF o
  <1> QED
    BY <1>1, <1>2, <1>3

(* The converse: Located of given values, from an element that is outermost. *)
LEMMA LocatedIn ==
  ASSUME NEW op \in Seq(Node), NEW o \in 1..Len(op), AtOutermost(op, o),
         NEW ns \in Seq(Node), Len(ns) = Len(op) - o,
         \A i \in 1..(Len(op) - o) : ns[i] = op[o + i]
  PROVE  ns = SubSeq(op, o + 1, Len(op))
  <1> DEFINE n == Len(op)
  <1>1. n \in Nat /\ o \in Nat /\ o + 1 \in Int /\ n \in Int
    OBVIOUS
  <1>2. \A i \in (o + 1)..n : op[i] \in Node
    BY <1>1
  <1>3. /\ SubSeq(op, o + 1, n) \in Seq(Node)
        /\ Len(SubSeq(op, o + 1, n)) = IF o + 1 <= n THEN n - (o + 1) + 1 ELSE 0
        /\ \A i \in 1..(n - (o + 1) + 1) : SubSeq(op, o + 1, n)[i] = op[(o + 1) + i - 1]
    BY <1>1, <1>2, SubSeqProperties
  <1> DEFINE q == SubSeq(op, o + 1, n)
  <1>4. q \in Seq(Node) /\ Len(q) = n - o /\ \A i \in 1..(n - o) : q[i] = op[o + i]
    BY <1>1, <1>3
  <1> HIDE DEF q
  <1>5. ns = q
    BY <1>4, <1>1
  <1> QED
    BY <1>5 DEF q

LEMMA NamesAre ==
  ASSUME NEW q \in Seq(Node), NEW r \in Seq(Name), Len(r) = Len(q),
         \A i \in 1..Len(q) : r[i] = q[i].name
  PROVE  r = [i \in DOMAIN q |-> q[i].name]
  <1> DEFINE s == [i \in DOMAIN q |-> q[i].name]
  <1>1. s \in Seq(Name) /\ Len(s) = Len(q) /\ \A i \in 1..Len(q) : s[i] = q[i].name
    BY NamesOf
  <1> HIDE DEF s
  <1>2. r = s
    BY <1>1
  <1> QED
    BY <1>2 DEF s

(* Discover's stacks are the part of the document above the outermost      *)
(* record, if they are so element by element. *)
LEMMA Relocated ==
  ASSUME NEW op \in Seq(Node), NEW o \in 1..Len(op), AtOutermost(op, o),
         NEW ns \in Seq(Node), Len(ns) = Len(op) - o,
         NEW rs \in Seq(Name), Len(rs) = Len(op) - o,
         \A i \in 1..(Len(op) - o) : ns[i] = op[o + i] /\ rs[i] = op[o + i].name
  PROVE  /\ ns = SubSeq(op, o + 1, Len(op))
         /\ rs = [i \in DOMAIN ns |-> ns[i].name]
  <1>1. ns = SubSeq(op, o + 1, Len(op))
    BY LocatedIn
  <1>2. rs = [i \in DOMAIN ns |-> ns[i].name]
    BY NamesAre
  <1> QED
    BY <1>1, <1>2

(* A chunk of text, added to one frame and to the last of several *)
WithChunk(nd, c) == [nd EXCEPT !.text = Append(@, c)]

LEMMA AddTextOf ==
  ASSUME NEW s \in Seq(Node), s # Empty, NEW c \in Chunk
  PROVE  /\ AddText(s, c) \in Seq(Node) /\ Len(AddText(s, c)) = Len(s)
         /\ Len(s) \in 1..Len(s)
         /\ \A i \in 1..Len(s) : AddText(s, c)[i].name = s[i].name
         /\ \A i \in 1..Len(s) : i # Len(s) => AddText(s, c)[i] = s[i]
         /\ AddText(s, c)[Len(s)] = WithChunk(s[Len(s)], c)
  <1> DEFINE n == Len(s)
             nd == WithChunk(s[n], c)
             a == [s EXCEPT ![n] = nd]
  <1>1. n \in Nat \ {0} /\ DOMAIN s = 1..n /\ \A i \in 1..n : s[i] \in Node
    BY DEF Empty
  <1>2. n \in 1..n /\ s[n] \in Node
    BY <1>1
  <1>3. AddText(s, c) = a
    BY DEF AddText, WithChunk
  <1> HIDE DEF n
  <1>4. nd \in Node /\ nd.name = s[n].name
    <2>1. Append(s[n].text, c) \in Seq(Chunk)
      <3>1. s[n].text \in Seq(Chunk)
        BY <1>2 DEF Node
      <3> QED
        BY <3>1
    <2> QED
      BY <2>1, <1>2 DEF Node, WithChunk
  <1> HIDE DEF nd
  <1>5. DOMAIN a = 1..n /\ a[n] = nd /\ \A i \in 1..n : i # n => a[i] = s[i]
    BY <1>1, <1>2
  <1>6. \A i \in 1..n : a[i] \in Node
    BY <1>1, <1>4, <1>5
  <1>7. a \in Seq(Node) /\ Len(a) = n
    <2>1. s \in Seq(Node) /\ Len(s) = n
      BY DEF n
    <2> QED
      BY <1>1, <1>2, <1>4, <2>1
  <1>8. \A i \in 1..n : a[i].name = s[i].name
    BY <1>4, <1>5
  <1> HIDE DEF a
  <1> QED
    BY <1>2, <1>3, <1>5, <1>7, <1>8 DEF n, nd

LEMMA FrameIsNode ==
  ASSUME NEW n \in Name, NEW attrs \in SUBSET Attr
  PROVE  Frame(n, attrs) \in Node /\ Frame(n, attrs).name = n
  <1>1. << >> \in Seq(Chunk)
    OBVIOUS
  <1> QED
    BY <1>1 DEF Frame, Node, Empty

LEMMA LocatedInit == Init => Located
  <1> SUFFICES ASSUME Init PROVE Located
    OBVIOUS
  <1>1. open = << >> /\ stack = << >> /\ inRecord = FALSE /\ tokens = 0
    BY DEF Init, Empty
  <1>2. << >> \in Seq(Node) /\ << >> = [i \in DOMAIN << >> |-> open[i].name]
    OBVIOUS
  <1>3. tokens \in 0..MaxTokens
    BY <1>1, TokensAssumption
  <1>4. UnderRecord = FALSE
    BY <1>1 DEF UnderRecord
  <1> QED
    BY <1>1, <1>2, <1>3, <1>4 DEF Located

LEMMA LocatedStep == Located /\ [Next]_vars => Located'
  <1> SUFFICES ASSUME Located, [Next]_vars PROVE Located'
    OBVIOUS
  <1>0. /\ open \in Seq(Node) /\ Len(open) \in Nat /\ DOMAIN open = 1..Len(open)
        /\ \A i \in 1..Len(open) : open[i] \in Node
        /\ tokens \in 0..MaxTokens
        /\ inRecord = UnderRecord
        /\ stack \in Seq(Name) /\ Len(stack) = Len(open)
        /\ \A i \in 1..Len(open) : stack[i] = open[i].name
    BY NamesOf DEF Located
  <1> DEFINE n == Len(open)
  <1>r. ASSUME Read PROVE tokens' \in 0..MaxTokens
    BY <1>r, <1>0, TokensAssumption DEF Read
  <1>a. ASSUME NEW nm \in Name, NEW attrs \in SUBSET Attr, OpenElement(nm, attrs), GuessStart(nm)
        PROVE  /\ open' \in Seq(Node) /\ Len(open') = n + 1
               /\ open'[n + 1] = Frame(nm, attrs) /\ open'[n + 1].name = nm
               /\ \A i \in 1..n : open'[i] = open[i]
               /\ stack' = [i \in DOMAIN open' |-> open'[i].name]
               /\ tokens' \in 0..MaxTokens
    <2>1. Frame(nm, attrs) \in Node /\ Frame(nm, attrs).name = nm
      BY FrameIsNode
    <2>2. open' = Append(open, Frame(nm, attrs)) /\ stack' = Append(stack, nm)
      BY <1>a DEF OpenElement, GuessStart
    <2>3. /\ open' \in Seq(Node) /\ Len(open') = n + 1
          /\ open'[n + 1] = Frame(nm, attrs)
          /\ \A i \in 1..n : open'[i] = open[i]
      BY <1>0, <2>1, <2>2, AppendProperties
    <2>4. /\ stack' \in Seq(Name) /\ Len(stack') = n + 1
          /\ stack'[n + 1] = nm /\ \A i \in 1..n : stack'[i] = stack[i]
      BY <1>0, <2>2, AppendProperties
    <2>5. \A i \in 1..(n + 1) : stack'[i] = open'[i].name
      <3> SUFFICES ASSUME NEW i \in 1..(n + 1) PROVE stack'[i] = open'[i].name
        OBVIOUS
      <3>1. i \in 1..n \/ i = n + 1
        BY <1>0
      <3> QED
        BY <3>1, <2>1, <2>3, <2>4, <1>0
    <2>6. stack' = [i \in DOMAIN open' |-> open'[i].name]
      BY <2>3, <2>4, <2>5, NamesAre
    <2> QED
      BY <2>1, <2>3, <2>6, <1>a, <1>r DEF OpenElement
  <1>b. ASSUME CloseElement
        PROVE  /\ n \in Nat \ {0} /\ open' \in Seq(Node) /\ Len(open') = n - 1
               /\ \A i \in 1..(n - 1) : open'[i] = open[i]
               /\ stack' = [i \in DOMAIN open' |-> open'[i].name]
               /\ tokens' \in 0..MaxTokens
    <2>1. open # Empty /\ open' = Front(open) /\ GuessEnd
      BY <1>b DEF CloseElement
    <2>2. /\ n \in Nat \ {0} /\ open' \in Seq(Node) /\ Len(open') = n - 1
          /\ \A i \in 1..(n - 1) : open'[i] = open[i]
      BY <2>1, <1>0, FrontOfSeq
    <2>3. stack # Empty
      BY <2>2, <1>0 DEF Empty
    <2>4. /\ stack' \in Seq(Name) /\ Len(stack') = n - 1
          /\ \A i \in 1..(n - 1) : stack'[i] = stack[i]
      BY <2>1, <2>3, <1>0, FrontOfSeq DEF GuessEnd
    <2>5. \A i \in 1..(n - 1) : stack'[i] = open'[i].name
      BY <2>2, <2>4, <1>0
    <2>6. stack' = [i \in DOMAIN open' |-> open'[i].name]
      BY <2>2, <2>4, <2>5, NamesAre
    <2> QED
      BY <2>2, <2>6, <1>b, <1>r DEF CloseElement
  <1>1. ASSUME NEW nm \in Name, StartOutside(nm) PROVE Located'
    <2>1. OpenElement(nm, {}) /\ GuessStart(nm) /\ {} \in SUBSET Attr
          /\ ~inRecord /\ nm # RecordTag /\ inRecord' = inRecord
      BY <1>1 DEF StartOutside, discoverVars
    <2>2. \A i \in 1..n : open[i].name # RecordTag
      BY <2>1, Where
    <2>3. UnderRecord' = FALSE
      <3>1. DOMAIN open' = 1..(n + 1)
        BY <2>1, <1>a
      <3>2. \A i \in 1..(n + 1) : open'[i].name # RecordTag
        <4> SUFFICES ASSUME NEW i \in 1..(n + 1) PROVE open'[i].name # RecordTag
          OBVIOUS
        <4>1. i \in 1..n \/ i = n + 1
          BY <1>0
        <4> QED
          BY <4>1, <2>1, <2>2, <1>a
      <3> QED
        BY <3>1, <3>2 DEF UnderRecord
    <2>4. inRecord' = FALSE
      BY <2>1, <1>0 DEF UnderRecord
    <2> QED
      BY <2>1, <2>3, <2>4, <1>a DEF Located
  <1>2. CASE StartRecord
    <2>1. /\ OpenElement(RecordTag, {}) /\ GuessStart(RecordTag) /\ {} \in SUBSET Attr
          /\ RecordTag \in Name /\ ~inRecord /\ inRecord' = TRUE
          /\ nodeStack' = << >> /\ relStack' = << >>
      BY <1>2, NameAssumption DEF StartRecord, Empty
    <2>2. \A i \in 1..n : open[i].name # RecordTag
      BY <2>1, Where
    <2>3. open' \in Seq(Node) /\ Len(open') = n + 1 /\ n + 1 \in 1..(n + 1)
      BY <2>1, <1>a, <1>0
    <2>4. AtOutermost(open', n + 1)
      <3>1. DOMAIN open' = 1..(n + 1) /\ (n + 1) - 1 = n
        BY <2>3, <1>0
      <3> QED
        BY <3>1, <2>1, <2>2, <2>3, <1>a DEF AtOutermost
    <2>5. /\ nodeStack' \in Seq(Node) /\ relStack' \in Seq(Name)
          /\ Len(nodeStack') = 0 /\ Len(relStack') = 0
          /\ Len(open') - (n + 1) = 0 /\ 1..0 = {}
      BY <2>1, <2>3, <1>0
    <2>6. /\ UnderRecord'
          /\ nodeStack' = SubSeq(open', Outermost' + 1, Len(open'))
          /\ relStack' = [i \in DOMAIN nodeStack' |-> nodeStack'[i].name]
      <3>1. Outermost' = n + 1
        BY <2>3, <2>4, OutermostUnique DEF Outermost
      <3>2. UnderRecord'
        BY <2>4 DEF UnderRecord, AtOutermost
      <3>3. /\ nodeStack' = SubSeq(open', (n + 1) + 1, Len(open'))
            /\ relStack' = [i \in DOMAIN nodeStack' |-> nodeStack'[i].name]
        BY <2>3, <2>4, <2>5, Relocated
      <3> QED
        BY <3>1, <3>2, <3>3
    <2> QED
      BY <2>1, <2>6, <1>a DEF Located
  <1>3. ASSUME NEW nm \in Name, NEW attrs \in SUBSET Attr, StartNode(nm, attrs) PROVE Located'
    <2> DEFINE o == Outermost
    <2>1. /\ OpenElement(nm, attrs) /\ GuessStart(nm) /\ inRecord /\ inRecord' = inRecord
          /\ relStack' = Append(relStack, nm) /\ nodeStack' = Append(nodeStack, Frame(nm, attrs))
      BY <1>3 DEF StartNode
    <2>2. /\ AtOutermost(open, o) /\ o \in 1..n
          /\ Len(nodeStack) = n - o /\ Len(relStack) = n - o
          /\ nodeStack \in Seq(Node) /\ relStack \in Seq(Name)
          /\ \A i \in 1..(n - o) : nodeStack[i] = open[o + i] /\ relStack[i] = open[o + i].name
      BY <2>1, Where
    <2> HIDE DEF o
    <2>3. /\ open' \in Seq(Node) /\ Len(open') = n + 1 /\ o \in 1..(n + 1)
          /\ open'[n + 1] = Frame(nm, attrs) /\ open'[n + 1].name = nm
          /\ \A i \in 1..n : open'[i] = open[i]
      BY <2>1, <2>2, <1>a, <1>0
    <2>4. AtOutermost(open', o)
      <3>1. DOMAIN open' = 1..(n + 1) /\ \A j \in 1..(o - 1) : j \in 1..n
        BY <2>2, <2>3, <1>0
      <3> QED
        BY <3>1, <2>2, <2>3 DEF AtOutermost
    <2>5. /\ nodeStack' \in Seq(Node) /\ Len(nodeStack') = n - o + 1
          /\ nodeStack'[n - o + 1] = Frame(nm, attrs)
          /\ \A i \in 1..(n - o) : nodeStack'[i] = nodeStack[i]
      <3>1. Frame(nm, attrs) \in Node /\ nodeStack \in Seq(Node)
        BY <2>2, FrameIsNode
      <3>2. /\ Append(nodeStack, Frame(nm, attrs)) \in Seq(Node)
            /\ Len(Append(nodeStack, Frame(nm, attrs))) = Len(nodeStack) + 1
            /\ Append(nodeStack, Frame(nm, attrs))[Len(nodeStack) + 1] = Frame(nm, attrs)
            /\ \A i \in 1..Len(nodeStack) : Append(nodeStack, Frame(nm, attrs))[i] = nodeStack[i]
        BY <3>1, AppendProperties
      <3> QED
        BY <3>2, <2>1, <2>2
    <2>6. /\ relStack' \in Seq(Name) /\ Len(relStack') = n - o + 1
          /\ relStack'[n - o + 1] = nm
          /\ \A i \in 1..(n - o) : relStack'[i] = relStack[i]
      <3>0. relStack \in Seq(Name)
        BY <2>2
      <3>1. /\ Append(relStack, nm) \in Seq(Name)
            /\ Len(Append(relStack, nm)) = Len(relStack) + 1
            /\ Append(relStack, nm)[Len(relStack) + 1] = nm
            /\ \A i \in 1..Len(relStack) : Append(relStack, nm)[i] = relStack[i]
        BY <3>0, AppendProperties
      <3> QED
        BY <3>1, <2>1, <2>2
    <2>7. \A i \in 1..(n - o + 1) : nodeStack'[i] = open'[o + i] /\ relStack'[i] = open'[o + i].name
      <3> SUFFICES ASSUME NEW i \in 1..(n - o + 1)
                   PROVE  nodeStack'[i] = open'[o + i] /\ relStack'[i] = open'[o + i].name
        OBVIOUS
      <3>1. CASE i = n - o + 1
        <4>1. o + i = n + 1
          BY <3>1, <2>2, <1>0
        <4> QED
          BY <4>1, <3>1, <2>3, <2>5, <2>6
      <3>2. CASE i # n - o + 1
        <4>1. i \in 1..(n - o) /\ o + i \in 1..n
          BY <3>2, <2>2, <1>0
        <4> QED
          BY <4>1, <2>2, <2>3, <2>5, <2>6
      <3> QED
        BY <3>1, <3>2
    <2>8. Len(open') - o = n - o + 1
      BY <2>2, <2>3, <1>0
    <2>9. /\ UnderRecord'
          /\ nodeStack' = SubSeq(open', Outermost' + 1, Len(open'))
          /\ relStack' = [i \in DOMAIN nodeStack' |-> nodeStack'[i].name]
      <3>1. Outermost' = o
        BY <2>3, <2>4, OutermostUnique DEF Outermost
      <3>2. UnderRecord'
        BY <2>4 DEF UnderRecord, AtOutermost
      <3>3. /\ nodeStack' = SubSeq(open', o + 1, Len(open'))
            /\ relStack' = [i \in DOMAIN nodeStack' |-> nodeStack'[i].name]
        <4>1. /\ Len(nodeStack') = Len(open') - o /\ Len(relStack') = Len(open') - o
              /\ open' \in Seq(Node) /\ nodeStack' \in Seq(Node) /\ relStack' \in Seq(Name)
              /\ o \in 1..Len(open') /\ AtOutermost(open', o)
              /\ \A i \in 1..(Len(open') - o) :
                   nodeStack'[i] = open'[o + i] /\ relStack'[i] = open'[o + i].name
          BY <2>3, <2>4, <2>5, <2>6, <2>7, <2>8
        <4> QED
          BY <4>1, Relocated
      <3> QED
        BY <3>1, <3>2, <3>3
    <2> QED
      BY <2>1, <2>9, <1>0, <1>a DEF Located
  <1>4. ASSUME NEW c \in Chunk, CharData(c) PROVE Located'
    <2> DEFINE o == Outermost
    <2>1. /\ Read /\ inRecord /\ nodeStack # Empty /\ inRecord' = inRecord
          /\ open' = AddText(open, c) /\ nodeStack' = AddText(nodeStack, c)
          /\ relStack' = relStack /\ stack' = stack
      BY <1>4 DEF CharData, guessVars
    <2>2. /\ AtOutermost(open, o) /\ o \in 1..n
          /\ Len(nodeStack) = n - o /\ Len(relStack) = n - o
          /\ nodeStack \in Seq(Node) /\ relStack \in Seq(Name)
          /\ \A i \in 1..(n - o) : nodeStack[i] = open[o + i] /\ relStack[i] = open[o + i].name
      BY <2>1, Where
    <2> HIDE DEF o
    <2>a. open # Empty
      BY <2>2, <1>0 DEF Empty
    <2>3. /\ open' \in Seq(Node) /\ Len(open') = n
          /\ \A i \in 1..n : open'[i].name = open[i].name
          /\ \A i \in 1..n : i # n => open'[i] = open[i]
          /\ open'[n] = WithChunk(open[n], c)
      BY <2>1, <2>a, <1>0, AddTextOf
    <2>4. /\ nodeStack' \in Seq(Node) /\ Len(nodeStack') = n - o /\ n - o \in 1..(n - o)
          /\ \A i \in 1..(n - o) : i # n - o => nodeStack'[i] = nodeStack[i]
          /\ nodeStack'[n - o] = WithChunk(nodeStack[n - o], c)
      <3>1. /\ AddText(nodeStack, c) \in Seq(Node) /\ Len(AddText(nodeStack, c)) = Len(nodeStack)
            /\ Len(nodeStack) \in 1..Len(nodeStack)
            /\ \A i \in 1..Len(nodeStack) : i # Len(nodeStack) => AddText(nodeStack, c)[i] = nodeStack[i]
            /\ AddText(nodeStack, c)[Len(nodeStack)] = WithChunk(nodeStack[Len(nodeStack)], c)
        BY <2>1, <2>2, AddTextOf
      <3> QED
        BY <3>1, <2>1, <2>2
    <2>5. AtOutermost(open', o)
      <3>1. DOMAIN open' = DOMAIN open /\ o \in 1..n /\ \A j \in 1..(o - 1) : j \in 1..n
        BY <2>2, <2>3, <1>0
      <3> QED
        BY <3>1, <2>2, <2>3, <1>0 DEF AtOutermost
    <2>6. \A i \in 1..(n - o) : nodeStack'[i] = open'[o + i] /\ relStack'[i] = open'[o + i].name
      <3> SUFFICES ASSUME NEW i \in 1..(n - o)
                   PROVE  nodeStack'[i] = open'[o + i] /\ relStack'[i] = open'[o + i].name
        OBVIOUS
      <3>0. o + i \in 1..n /\ relStack'[i] = open[o + i].name /\ nodeStack[i] = open[o + i]
        BY <2>1, <2>2, <1>0
      <3>1. CASE i = n - o
        <4>1. o + i = n
          BY <3>1, <2>2, <1>0
        <4> QED
          BY <4>1, <3>0, <3>1, <2>3, <2>4
      <3>2. CASE i # n - o
        <4>1. o + i # n
          BY <3>2, <2>2, <1>0
        <4> QED
          BY <4>1, <3>0, <3>2, <2>3, <2>4
      <3> QED
        BY <3>1, <3>2
    <2>7. /\ UnderRecord'
          /\ nodeStack' = SubSeq(open', Outermost' + 1, Len(open'))
          /\ relStack' = [i \in DOMAIN nodeStack' |-> nodeStack'[i].name]
      <3>0. Len(open') - o = n - o /\ o \in 1..Len(open') /\ relStack' \in Seq(Name) /\ Len(relStack') = n - o
        BY <2>1, <2>2, <2>3
      <3>1. Outermost' = o
        BY <2>3, <2>4, <2>5, OutermostUnique DEF Outermost
      <3>2. UnderRecord'
        BY <2>5 DEF UnderRecord, AtOutermost
      <3>3. /\ nodeStack' = SubSeq(open', o + 1, Len(open'))
            /\ relStack' = [i \in DOMAIN nodeStack' |-> nodeStack'[i].name]
        <4>1. /\ Len(nodeStack') = Len(open') - o /\ Len(relStack') = Len(open') - o
              /\ open' \in Seq(Node) /\ nodeStack' \in Seq(Node) /\ relStack' \in Seq(Name)
              /\ o \in 1..Len(open') /\ AtOutermost(open', o)
              /\ \A i \in 1..(Len(open') - o) :
                   nodeStack'[i] = open'[o + i] /\ relStack'[i] = open'[o + i].name
          BY <3>0, <2>3, <2>4, <2>5, <2>6
        <4> QED
          BY <4>1, Relocated
      <3> QED
        BY <3>1, <3>2, <3>3
    <2>8. stack' = [i \in DOMAIN open' |-> open'[i].name]
      BY <2>1, <2>3, <1>0, NamesAre
    <2> QED
      BY <2>1, <2>3, <2>7, <2>8, <1>0, <1>r DEF Located
  <1>5. CASE EndOutside
    <2>1. CloseElement /\ ~inRecord /\ inRecord' = inRecord
      BY <1>5 DEF EndOutside, discoverVars
    <2>2. \A i \in 1..n : open[i].name # RecordTag
      BY <2>1, Where
    <2>3. UnderRecord' = FALSE
      <3>1. DOMAIN open' = 1..(n - 1) /\ \A i \in 1..(n - 1) : open'[i] = open[i] /\ i \in 1..n
        BY <2>1, <1>b
      <3> QED
        BY <3>1, <2>2 DEF UnderRecord
    <2>4. inRecord' = FALSE
      BY <2>1, <1>0 DEF UnderRecord
    <2> QED
      BY <2>1, <2>3, <2>4, <1>b DEF Located
  <1>6. CASE EndRecord
    <2>1. CloseElement /\ inRecord /\ inRecord' = FALSE /\ relStack = Empty
      BY <1>6 DEF EndRecord, RecordEnd
    <2>2. AtOutermost(open, n)
      <3>1. AtOutermost(open, Outermost) /\ Outermost \in 1..n /\ Len(relStack) = n - Outermost
        BY <2>1, Where
      <3>2. Len(relStack) = 0
        BY <2>1 DEF Empty
      <3>3. Outermost = n
        BY <3>1, <3>2, <1>0
      <3> QED
        BY <3>1, <3>3
    <2>3. UnderRecord' = FALSE
      <3>1. DOMAIN open' = 1..(n - 1) /\ \A i \in 1..(n - 1) : open'[i] = open[i]
        BY <2>1, <1>b
      <3> QED
        BY <3>1, <2>2 DEF UnderRecord, AtOutermost
    <2> QED
      BY <2>1, <2>3, <1>b DEF Located
  <1>7. CASE EndNode
    <2> DEFINE o == Outermost
    <2>1. /\ CloseElement /\ inRecord /\ inRecord' = inRecord
          /\ relStack # Empty /\ nodeStack # Empty
          /\ relStack' = Front(relStack) /\ nodeStack' = Front(nodeStack)
      BY <1>7 DEF EndNode
    <2>2. /\ AtOutermost(open, o) /\ o \in 1..n
          /\ Len(nodeStack) = n - o /\ Len(relStack) = n - o
          /\ nodeStack \in Seq(Node) /\ relStack \in Seq(Name)
          /\ \A i \in 1..(n - o) : nodeStack[i] = open[o + i] /\ relStack[i] = open[o + i].name
      BY <2>1, Where
    <2> HIDE DEF o
    <2>3. /\ nodeStack' \in Seq(Node) /\ Len(nodeStack') = n - o - 1
          /\ relStack' \in Seq(Name) /\ Len(relStack') = n - o - 1
          /\ n - o \in Nat \ {0}
          /\ \A i \in 1..(n - o - 1) : nodeStack'[i] = nodeStack[i] /\ relStack'[i] = relStack[i]
      BY <2>1, <2>2, FrontOfSeq
    <2>4. /\ open' \in Seq(Node) /\ Len(open') = n - 1
          /\ \A i \in 1..(n - 1) : open'[i] = open[i]
          /\ o \in 1..(n - 1) /\ Len(open') - o = n - o - 1
      <3>1. /\ open' \in Seq(Node) /\ Len(open') = n - 1
            /\ \A i \in 1..(n - 1) : open'[i] = open[i]
        BY <2>1, <1>b
      <3> QED
        BY <3>1, <2>2, <2>3, <1>0
    <2>5. AtOutermost(open', o)
      <3>1. DOMAIN open' = 1..(n - 1) /\ \A j \in 1..(o - 1) : j \in 1..(n - 1)
        BY <2>4, <1>0
      <3> QED
        BY <3>1, <2>2, <2>4 DEF AtOutermost
    <2>6. \A i \in 1..(n - o - 1) : nodeStack'[i] = open'[o + i] /\ relStack'[i] = open'[o + i].name
      <3> SUFFICES ASSUME NEW i \in 1..(n - o - 1)
                   PROVE  nodeStack'[i] = open'[o + i] /\ relStack'[i] = open'[o + i].name
        OBVIOUS
      <3>1. i \in 1..(n - o) /\ o + i \in 1..(n - 1)
        BY <2>2, <1>0
      <3> QED
        BY <3>1, <2>2, <2>3, <2>4
    <2>7. /\ UnderRecord'
          /\ nodeStack' = SubSeq(open', Outermost' + 1, Len(open'))
          /\ relStack' = [i \in DOMAIN nodeStack' |-> nodeStack'[i].name]
      <3>0. o \in 1..Len(open') /\ Len(nodeStack') = Len(open') - o /\ Len(relStack') = Len(open') - o
        BY <2>3, <2>4
      <3>1. Outermost' = o
        BY <2>3, <2>4, <2>5, OutermostUnique DEF Outermost
      <3>2. UnderRecord'
        BY <2>5 DEF UnderRecord, AtOutermost
      <3>3. /\ nodeStack' = SubSeq(open', o + 1, Len(open'))
            /\ relStack' = [i \in DOMAIN nodeStack' |-> nodeStack'[i].name]
        <4>1. /\ Len(nodeStack') = Len(open') - o /\ Len(relStack') = Len(open') - o
              /\ open' \in Seq(Node) /\ nodeStack' \in Seq(Node) /\ relStack' \in Seq(Name)
              /\ o \in 1..Len(open') /\ AtOutermost(open', o)
              /\ \A i \in 1..(Len(open') - o) :
                   nodeStack'[i] = open'[o + i] /\ relStack'[i] = open'[o + i].name
          BY <3>0, <2>3, <2>4, <2>5, <2>6
        <4> QED
          BY <4>1, Relocated
      <3> QED
        BY <3>1, <3>2, <3>3
    <2> QED
      BY <2>1, <2>7, <1>0, <1>b DEF Located
  <1>8. CASE Return \/ UNCHANGED vars
    <2>1. UNCHANGED <<open, tokens, inRecord, relStack, nodeStack, stack>>
      BY <1>8 DEF Return, vars, discoverVars, guessVars
    <2>2. Outermost' = Outermost /\ UnderRecord' = UnderRecord
      BY <2>1 DEF Outermost, UnderRecord
    <2> QED
      BY <2>1, <2>2 DEF Located
  <1> QED
    BY <1>1, <1>2, <1>3, <1>4, <1>5, <1>6, <1>7, <1>8 DEF Next

-----------------------------------------------------------------------------
(* What is gathered of the open record, and reported of the closed ones *)

LEMMA Within ==
  ASSUME NEW n \in Nat, NEW T \in SUBSET (1..n)
  PROVE  IsFiniteSet(T) /\ Cardinality(T) \in Nat
  <1>1. IsFiniteSet(1..n)
    BY IntervalSize
  <1>2. IsFiniteSet(T)
    BY <1>1, FS_Subset
  <1> QED
    BY <1>2, FS_CardinalityType

LEMMA DisjointSum ==
  ASSUME NEW A, NEW B, IsFiniteSet(A), IsFiniteSet(B), A \cap B = {}
  PROVE  IsFiniteSet(A \cup B) /\ Cardinality(A \cup B) = Cardinality(A) + Cardinality(B)
  <1>1. Cardinality(A) \in Nat /\ Cardinality(B) \in Nat
    BY FS_CardinalityType
  <1>2. Cardinality(A \cap B) = 0
    BY FS_EmptySet
  <1>3. /\ IsFiniteSet(A \cup B)
        /\ Cardinality(A \cup B) = Cardinality(A) + Cardinality(B) - Cardinality(A \cap B)
    BY FS_Union
  <1> QED
    BY <1>1, <1>2, <1>3

(* What is listed depends on the texts of the set only. *)
LEMMA ListedOver ==
  ASSUME NEW txt, NEW txt2, NEW ex, NEW M, \A i \in M : txt2[i] = txt[i], Listed(txt, ex, M)
  PROVE  Listed(txt2, ex, M)
  <1>1. Firsts(txt2, M) = Firsts(txt, M) /\ Firsts(txt, M) \subseteq M
    BY DEF Firsts
  <1>2. PICK at \in [1..Len(ex) -> Firsts(txt, M)] : Placing(txt, ex, M, at)
    BY DEF Listed
  <1>3. Placing(txt2, ex, M, at)
    BY <1>1, <1>2 DEF Placing
  <1> QED
    BY <1>1, <1>2, <1>3 DEF Listed

LEMMA NothingListed ==
  ASSUME NEW txt
  PROVE  Listed(txt, << >>, {})
  <1>1. /\ << >> \in Seq(Seq(Chunk)) /\ Len(<< >>) = 0 /\ 0 <= ExampleCap /\ 1..0 = {}
        /\ Firsts(txt, {}) = {}
    BY CapAssumption DEF Firsts
  <1>2. << >> \in [1..0 -> {}]
    OBVIOUS
  <1> QED
    BY <1>1, <1>2 DEF Listed, Placing

(* The element that an end tag inside a record closes *)
TheElement == [rec |-> closed + 1, path |-> relStack,
               attrs |-> Last(nodeStack).attrs, text |-> Last(nodeStack).text]

(* What an end tag records of the document, in Discover's terms *)
LEMMA EndTags ==
  ASSUME Located, closed \in Nat
  PROVE  /\ EndOutside => UNCHANGED <<closed, elements>>
         /\ EndRecord => closed' = closed + 1 /\ UNCHANGED elements
         /\ EndNode => /\ UNCHANGED closed /\ elements' = Append(elements, TheElement)
                       /\ TheElement \in Element
                       /\ relStack \in Seq(Name) /\ Last(nodeStack) \in Node
  <1> DEFINE n == Len(open)
             o == Outermost
  <1>0. open \in Seq(Node) /\ n \in Nat /\ inRecord = UnderRecord
    BY Where
  <1>1. ASSUME EndOutside PROVE UNCHANGED <<closed, elements>>
    BY <1>0, <1>1 DEF EndOutside, CloseElement, UnderRecord
  <1>2. ASSUME inRecord
        PROVE  /\ o \in 1..n /\ Len(relStack) = n - o /\ Len(nodeStack) = n - o
               /\ AtOutermost(open, o)
               /\ nodeStack \in Seq(Node) /\ relStack \in Seq(Name)
               /\ \A i \in 1..(n - o) :
                    nodeStack[i] = open[o + i] /\ relStack[i] = open[o + i].name
    BY <1>2, Where
  <1> HIDE DEF o
  <1>3. ASSUME EndRecord PROVE closed' = closed + 1 /\ UNCHANGED elements
    <2>1. inRecord /\ relStack = << >> /\ CloseElement
      BY <1>3 DEF EndRecord, RecordEnd, Empty
    <2>2. o = n
      BY <2>1, <1>2, <1>0
    <2> QED
      BY <2>1, <2>2, <1>0 DEF CloseElement, o
  <1>4. ASSUME EndNode
        PROVE  /\ UNCHANGED closed /\ elements' = Append(elements, TheElement)
               /\ TheElement \in Element
               /\ relStack \in Seq(Name) /\ Last(nodeStack) \in Node
    <2>1. inRecord /\ relStack # << >> /\ CloseElement
      BY <1>4 DEF EndNode, Empty
    <2>2. o # n /\ n - o \in 1..(n - o)
      BY <2>1, <1>2, <1>0
    <2> DEFINE path == [i \in 1..(n - o) |-> open[o + i].name]
    <2>3. path = relStack
      <3>1. relStack \in Seq(Name) /\ Len(relStack) = n - o /\ n - o \in Nat
            /\ \A i \in 1..(n - o) : relStack[i] = path[i]
        BY <2>1, <2>2, <1>2
      <3> HIDE DEF path
      <3>2. DOMAIN relStack = 1..(n - o) /\ relStack = [i \in 1..(n - o) |-> relStack[i]]
        BY <3>1
      <3>3. path = [i \in 1..(n - o) |-> path[i]]
        BY DEF path
      <3> QED
        BY <3>1, <3>2, <3>3
    <2>4. Last(nodeStack) = Last(open) /\ Last(nodeStack) \in Node
      <3>1. Last(nodeStack) = nodeStack[n - o] /\ Last(open) = open[n]
        BY <2>1, <1>2 DEF Last
      <3>2. nodeStack[n - o] = open[o + (n - o)] /\ o + (n - o) = n
        BY <2>1, <2>2, <1>2, <1>0
      <3>3. nodeStack[n - o] \in Node
        BY <2>1, <2>2, <1>2
      <3> QED
        BY <3>1, <3>2, <3>3
    <2>5. /\ closed' = closed
          /\ elements' = Append(elements, [rec |-> closed + 1, path |-> path,
                                 attrs |-> Last(open).attrs, text |-> Last(open).text])
      BY <2>1, <2>2, <1>0 DEF CloseElement, o
    <2> HIDE DEF path
    <2>6. TheElement \in Element
      <3>1. relStack \in Seq(Name) /\ closed + 1 \in Nat \ {0}
        BY <2>1, <1>2
      <3>2. Last(nodeStack).attrs \in SUBSET Attr /\ Last(nodeStack).text \in Seq(Chunk)
        BY <2>4 DEF Node
      <3> QED
        BY <3>1, <3>2 DEF TheElement, Element
    <2> QED
      BY <2>1, <2>3, <2>4, <2>5, <2>6, <1>2 DEF TheElement
  <1> QED
    BY <1>1, <1>3, <1>4

LEMMA RecordedStep == Located /\ Recorded /\ [Next]_vars => Recorded'
  <1> SUFFICES ASSUME Located, Recorded, [Next]_vars PROVE Recorded'
    OBVIOUS
  <1>0. /\ closed \in Nat /\ elements \in Seq(Element)
        /\ DOMAIN elements = 1..Len(elements) /\ Len(elements) \in Nat
        /\ \A i \in DOMAIN elements : elements[i] \in Element /\ elements[i].rec \in Nat \ {0}
        /\ \A i \in DOMAIN elements : elements[i].rec <= closed + 1
        /\ ~inRecord => \A i \in DOMAIN elements : elements[i].rec <= closed
        /\ \A i, j \in DOMAIN elements : i < j => elements[i].rec <= elements[j].rec
    <2>1. closed \in Nat /\ elements \in Seq(Element)
      BY DEF Recorded
    <2>2. \A i \in DOMAIN elements : elements[i] \in Element /\ elements[i].rec \in Nat \ {0}
      <3>1. \A i \in DOMAIN elements : elements[i] \in Element
        BY <2>1
      <3>2. \A e \in Element : e.rec \in Nat \ {0}
        BY DEF Element
      <3> QED
        BY <3>1, <3>2
    <2>3. \A i \in DOMAIN elements : elements[i].rec <= closed + (IF inRecord THEN 1 ELSE 0)
      BY DEF Recorded
    <2>4. \A i, j \in DOMAIN elements : i < j => elements[i].rec <= elements[j].rec
      BY DEF Recorded
    <2> QED
      BY <2>1, <2>2, <2>3, <2>4
  <1>1. ASSUME UNCHANGED <<closed, elements>>, inRecord => inRecord' = inRecord,
               inRecord' \in BOOLEAN
        PROVE  Recorded'
    BY <1>0, <1>1 DEF Recorded
  <1>2. CASE EndRecord
    <2>1. closed' = closed + 1 /\ elements' = elements /\ inRecord' = FALSE
      BY <1>2, <1>0, EndTags DEF EndRecord
    <2> QED
      BY <2>1, <1>0 DEF Recorded
  <1>3. CASE EndNode
    <2> PICK e : e = TheElement
      OBVIOUS
    <2>1. /\ closed' = closed /\ elements' = Append(elements, e) /\ e \in Element
          /\ inRecord /\ inRecord' = inRecord
      BY <1>3, <1>0, EndTags DEF EndNode
    <2>2. e.rec = closed + 1
      BY DEF TheElement
    <2> DEFINE m == Len(elements)
    <2>3. /\ elements' \in Seq(Element) /\ DOMAIN elements' = 1..(m + 1)
          /\ elements'[m + 1] = e /\ \A i \in 1..m : elements'[i] = elements[i]
      BY <2>1, <1>0, AppendProperties
    <2>4. ASSUME NEW i \in 1..(m + 1)
          PROVE  /\ elements'[i].rec <= closed + 1
                 /\ i = m + 1 => elements'[i].rec = closed + 1
                 /\ i # m + 1 => i \in 1..m /\ elements'[i] = elements[i]
      <3>1. i # m + 1 => i \in 1..m
        BY <1>0
      <3> QED
        BY <3>1, <2>2, <2>3, <1>0
    <2>5. \A i \in DOMAIN elements' : elements'[i].rec <= closed' + (IF inRecord' THEN 1 ELSE 0)
      BY <2>1, <2>3, <2>4
    <2>6. \A i, j \in DOMAIN elements' : i < j => elements'[i].rec <= elements'[j].rec
      <3> SUFFICES ASSUME NEW i \in 1..(m + 1), NEW j \in 1..(m + 1), i < j
                   PROVE  elements'[i].rec <= elements'[j].rec
        BY <2>3
      <3>1. CASE j = m + 1
        BY <3>1, <2>4
      <3>2. CASE j # m + 1
        <4>1. i # m + 1
          BY <3>2, <1>0
        <4> QED
          BY <4>1, <3>2, <2>4, <1>0
      <3> QED
        BY <3>1, <3>2
    <2> QED
      BY <2>1, <2>3, <2>5, <2>6, <1>0 DEF Recorded
  <1>4. inRecord \in BOOLEAN
    BY Where DEF UnderRecord
  <1>5. ASSUME NEW n \in Name, StartOutside(n) PROVE Recorded'
    BY <1>1, <1>4, <1>5 DEF StartOutside, discoverVars
  <1>6. CASE StartRecord
    BY <1>1, <1>4, <1>6 DEF StartRecord
  <1>7. ASSUME NEW n \in Name, NEW attrs \in SUBSET Attr, StartNode(n, attrs) PROVE Recorded'
    BY <1>1, <1>4, <1>7 DEF StartNode
  <1>8. ASSUME NEW c \in Chunk, CharData(c) PROVE Recorded'
    BY <1>1, <1>4, <1>8 DEF CharData
  <1>9. CASE EndOutside
    BY <1>0, <1>1, <1>4, <1>9, EndTags DEF EndOutside, discoverVars
  <1>10. CASE Return \/ UNCHANGED vars
    BY <1>1, <1>4, <1>10 DEF Return, vars, discoverVars
  <1> QED
    BY <1>2, <1>3, <1>5, <1>6, <1>7, <1>8, <1>9, <1>10 DEF Next

(* The elements of closed records come before those of the open one. *)
LEMMA Ordered ==
  ASSUME Recorded
  PROVE  /\ closed \in Nat /\ elements \in Seq(Element) /\ Len(elements) \in Nat
         /\ DOMAIN elements = 1..Len(elements) /\ DOMAIN elements \in SUBSET Nat
         /\ \A i \in DOMAIN elements : /\ elements[i] \in Element /\ elements[i].rec \in Nat \ {0}
                                       /\ elements[i].text \in Seq(Chunk)
                                       /\ elements[i].rec <= closed + 1
                                       /\ elements[i].rec <= closed \/ elements[i].rec = closed + 1
         /\ \A p : /\ Matching(p) \in SUBSET (1..Len(elements))
                   /\ Current(p) \in SUBSET (1..Len(elements))
                   /\ IsFiniteSet(Matching(p)) /\ IsFiniteSet(Current(p))
                   /\ Cardinality(Matching(p)) \in Nat /\ Cardinality(Current(p)) \in Nat
                   /\ Matching(p) \cap Current(p) = {}
                   /\ \A i \in Matching(p), j \in Current(p) : i < j
  <1>1. closed \in Nat /\ elements \in Seq(Element) /\ Len(elements) \in Nat
        /\ DOMAIN elements = 1..Len(elements) /\ DOMAIN elements \in SUBSET Nat
    BY DEF Recorded
  <1>2. ASSUME NEW i \in DOMAIN elements
        PROVE  /\ elements[i] \in Element /\ elements[i].rec \in Nat \ {0}
               /\ elements[i].text \in Seq(Chunk)
               /\ elements[i].rec <= closed + 1
               /\ elements[i].rec <= closed \/ elements[i].rec = closed + 1
    <2>1. elements[i] \in Element
      BY <1>1
    <2>2. elements[i].rec \in Nat \ {0} /\ elements[i].text \in Seq(Chunk)
      BY <2>1 DEF Element
    <2>3. elements[i].rec <= closed + (IF inRecord THEN 1 ELSE 0)
      BY DEF Recorded
    <2> QED
      BY <1>1, <2>1, <2>2, <2>3
  <1>3. ASSUME NEW p
        PROVE  /\ Matching(p) \in SUBSET (1..Len(elements))
               /\ Current(p) \in SUBSET (1..Len(elements))
               /\ IsFiniteSet(Matching(p)) /\ IsFiniteSet(Current(p))
               /\ Cardinality(Matching(p)) \in Nat /\ Cardinality(Current(p)) \in Nat
               /\ Matching(p) \cap Current(p) = {}
               /\ \A i \in Matching(p), j \in Current(p) : i < j
    <2>1. Matching(p) \in SUBSET (1..Len(elements)) /\ Current(p) \in SUBSET (1..Len(elements))
      BY <1>1 DEF Matching, Current
    <2>2. \A i \in Matching(p), j \in Current(p) :
            elements[i].rec < elements[j].rec /\ i \in DOMAIN elements /\ j \in DOMAIN elements
      BY <1>1, <1>2 DEF Matching, Current
    <2>3. ASSUME NEW i \in Matching(p), NEW j \in Current(p) PROVE i < j
      <3>1. /\ elements[i].rec < elements[j].rec /\ i \in 1..Len(elements) /\ j \in 1..Len(elements)
            /\ elements[i].rec \in Nat /\ elements[j].rec \in Nat
        BY <1>1, <1>2, <2>2
      <3>2. ~ (j < i) /\ j # i
        BY <3>1, <1>1 DEF Recorded
      <3> QED
        BY <3>1, <3>2
    <2>4. Matching(p) \cap Current(p) = {}
      BY <2>1, <2>3
    <2> QED
      BY <1>1, <2>1, <2>3, <2>4, Within
  <1> QED
    BY <1>1, <1>2, <1>3

(* The zero values of Go's maps stand for a path that was not met. *)
LEMMA NoEntry ==
  ASSUME Recorded, Gathered, Reported, NEW p
  PROVE  /\ Gathers(Lookup(perRec, p, recAgg), p)
         /\ Sums(Lookup(rep.Paths, p, PathAgg), p)
         /\ p \in DOMAIN perRec <=> Current(p) # {}
         /\ p \in DOMAIN rep.Paths <=> Matching(p) # {}
  <1>1. p \in DOMAIN perRec <=> Current(p) # {}
    BY DEF Gathered, Current
  <1>2. p \in DOMAIN rep.Paths <=> Matching(p) # {}
    BY DEF Reported, Seen, Matching
  <1>3. Cardinality({}) = 0 /\ Listed(Texts, << >>, {}) /\ \A a : With({}, a) = {}
    BY FS_EmptySet, NothingListed DEF With
  <1>4. Gathers(Lookup(perRec, p, recAgg), p)
    <2>1. CASE p \in DOMAIN perRec
      BY <2>1 DEF Gathered, Lookup
    <2>2. CASE p \notin DOMAIN perRec
      <3>1. Current(p) = {} /\ Lookup(perRec, p, recAgg) = recAgg
        BY <2>2, <1>1 DEF Lookup
      <3>2. recAgg.count = 0 /\ recAgg.exTexts = << >> /\ \A a \in Attr : recAgg.attrCounts[a] = 0
        BY DEF recAgg, Empty, NoAttrs
      <3> QED
        BY <1>3, <3>1, <3>2 DEF Gathers
    <2> QED
      BY <2>1, <2>2
  <1>5. Sums(Lookup(rep.Paths, p, PathAgg), p)
    <2>1. CASE p \in DOMAIN rep.Paths
      BY <2>1 DEF Reported, Lookup
    <2>2. CASE p \notin DOMAIN rep.Paths
      <3>1. Matching(p) = {} /\ Lookup(rep.Paths, p, PathAgg) = PathAgg
        BY <2>2, <1>2 DEF Lookup
      <3>2. /\ PathAgg.TotalCount = 0 /\ PathAgg.RecordsWith = 0 /\ PathAgg.MaxPerRecord = 0
            /\ PathAgg.ExampleTexts = << >> /\ \A a \in Attr : PathAgg.AttrExamples[a] = 0
        BY DEF PathAgg, Empty, NoAttrs
      <3>3. \A r : InRecord(p, r) = {}
        BY <3>1 DEF InRecord
      <3>4. {elements[i].rec : i \in Matching(p)} = {}
        BY <3>1
      <3>5. ~ (0 > 1) /\ 0 \in Nat
        OBVIOUS
      <3> QED
        BY <1>3, <3>1, <3>2, <3>3, <3>4, <3>5 DEF Sums
    <2> QED
      BY <2>1, <2>2
  <1> QED
    BY <1>1, <1>2, <1>4, <1>5

(* An element closes: it is gathered under its path, and nowhere else. *)
LEMMA EndNodeStep ==
  ASSUME Located, Recorded, Gathered, Reported, EndNode
  PROVE  Gathered' /\ Reported'
  <1> PICK p0 : p0 = relStack
    OBVIOUS
  <1> PICK e : e = TheElement
    OBVIOUS
  <1> PICK N : N = Len(elements) + 1
    OBVIOUS
  <1>0. /\ closed \in Nat /\ Len(elements) \in Nat /\ DOMAIN elements = 1..Len(elements)
        /\ elements \in Seq(Element) /\ N \in Nat /\ N \notin DOMAIN elements
    BY Ordered
  <1>1. /\ closed' = closed /\ elements' = Append(elements, e) /\ e \in Element
        /\ e.rec = closed + 1 /\ e.path = p0 /\ e.text = Last(nodeStack).text
        /\ e.attrs = Last(nodeStack).attrs /\ e.text \in Seq(Chunk)
        /\ inRecord /\ inRecord' = inRecord /\ rep' = rep
    BY <1>0, EndTags DEF TheElement, Element, EndNode
  <1>2. /\ DOMAIN elements' = DOMAIN elements \cup {N} /\ elements'[N] = e
        /\ \A i \in DOMAIN elements : elements'[i] = elements[i]
    <2>1. /\ elements' \in Seq(Element) /\ Len(elements') = Len(elements) + 1
          /\ elements'[Len(elements) + 1] = e
          /\ \A i \in 1..Len(elements) : elements'[i] = elements[i]
      BY <1>0, <1>1, AppendProperties
    <2>2. DOMAIN elements' = 1..N
      BY <2>1
    <2> QED
      BY <2>1, <2>2, <1>0
  <1>3. /\ \A i \in DOMAIN elements : Texts'[i] = Texts[i]
        /\ Texts'[N] = e.text
    BY <1>2, <1>0 DEF Texts
  <1>4. e.rec # closed /\ ~ (e.rec <= closed)
    BY <1>0, <1>1
  <1>5. \A p : Matching(p)' = Matching(p) /\ Matching(p) \subseteq DOMAIN elements
    BY <1>1, <1>2, <1>4 DEF Matching
  <1>6. /\ Current(p0)' = Current(p0) \cup {N}
        /\ \A p : p # p0 => Current(p)' = Current(p)
        /\ \A p : Current(p) \subseteq DOMAIN elements
    <2>1. \A p : Current(p) \subseteq DOMAIN elements
      BY DEF Current
    <2>2. ASSUME NEW p PROVE Current(p)' = Current(p) \cup (IF p = p0 THEN {N} ELSE {})
      BY <1>1, <1>2 DEF Current
    <2> QED
      BY <2>1, <2>2
  <1>7. \A p, a : With(Matching(p), a)' = With(Matching(p), a)
    BY <1>2, <1>5 DEF With
  <1>8. /\ Seen' = Seen
        /\ {elements[i].path : i \in {k \in DOMAIN elements : elements[k].rec = closed + 1}}'
             = {elements[i].path : i \in {k \in DOMAIN elements : elements[k].rec = closed + 1}} \cup {p0}
    BY <1>1, <1>2, <1>4 DEF Seen
  <1>9. Gathered'
    <2> PICK ra : ra = Lookup(perRec, p0, recAgg)
      OBVIOUS
    <2> PICK v : v = [count |-> ra.count + 1,
                      exTexts |-> AddExample(ra.exTexts, e.text, ExampleCap),
                      attrCounts |-> Plus(ra.attrCounts, AttrCounts(e.attrs))]
      OBVIOUS
    <2>1. perRec' = Store(perRec, p0, v)
      BY <1>1 DEF EndNode, RecordCap
    <2>2. Gathers(ra, p0)
      BY NoEntry
    <2>3. DOMAIN perRec' = DOMAIN perRec \cup {p0} /\ perRec'[p0] = v
          /\ \A p \in DOMAIN perRec : p # p0 => perRec'[p] = perRec[p]
      BY <2>1 DEF Store
    <2>4. /\ IsFiniteSet(Current(p0)) /\ N \notin Current(p0) /\ Cardinality(Current(p0)) \in Nat
          /\ Current(p0) \in SUBSET Nat /\ \A i \in Current(p0) : i < N /\ i \in DOMAIN elements
      BY <1>0, <1>6, Ordered
    <2>5. v.count = Cardinality(Current(p0)')
      <3>1. Cardinality(Current(p0) \cup {N}) = Cardinality(Current(p0)) + 1
        BY <2>4, FS_AddElement
      <3> QED
        BY <3>1, <1>6, <2>2 DEF Gathers
    <2>6. ASSUME NEW a \in Attr PROVE v.attrCounts[a] = Cardinality(With(Current(p0), a)')
      <3>1. With(Current(p0), a)' = With(Current(p0), a) \cup (IF a \in e.attrs THEN {N} ELSE {})
        BY <1>2, <1>6, <2>4 DEF With
      <3>2. IsFiniteSet(With(Current(p0), a)) /\ N \notin With(Current(p0), a)
            /\ Cardinality(With(Current(p0), a)) \in Nat
        <4>1. With(Current(p0), a) \in SUBSET (1..Len(elements))
          BY <2>4, <1>0 DEF With
        <4> QED
          BY <4>1, <1>0, Within
      <3>3. v.attrCounts[a] = Cardinality(With(Current(p0), a)) + (IF a \in e.attrs THEN 1 ELSE 0)
        BY <2>2 DEF Gathers, Plus, AttrCounts
      <3>4. CASE a \in e.attrs
        <4>1. Cardinality(With(Current(p0), a) \cup {N}) = Cardinality(With(Current(p0), a)) + 1
          BY <3>2, FS_AddElement
        <4> QED
          BY <4>1, <3>1, <3>3, <3>4
      <3>5. CASE a \notin e.attrs
        BY <3>1, <3>2, <3>3, <3>5
      <3> QED
        BY <3>4, <3>5
    <2>7. Listed(Texts, v.exTexts, Current(p0))'
      <3>1. Listed(Texts', ra.exTexts, Current(p0))
        <4>1. Listed(Texts, ra.exTexts, Current(p0))
          BY <2>2 DEF Gathers
        <4>2. \A i \in Current(p0) : Texts'[i] = Texts[i]
          BY <1>3, <2>4
        <4> QED
          BY <4>1, <4>2, ListedOver
      <3>2. Listed(Texts', AddExample(ra.exTexts, Texts'[N], ExampleCap), Current(p0) \cup {N})
        <4>1. Texts'[N] \in Seq(Chunk) /\ \A m \in Current(p0) : m < N
          BY <1>1, <1>3, <2>4
        <4> QED
          BY <4>1, <3>1, <2>4, <1>0, ListedAdd
      <3>3. v.exTexts = AddExample(ra.exTexts, Texts'[N], ExampleCap)
        BY <1>3
      <3> QED
        BY <3>2, <3>3, <1>6
    <2>8. Gathers(v, p0)'
      BY <2>5, <2>6, <2>7 DEF Gathers
    <2>9. ASSUME NEW p \in DOMAIN perRec, p # p0 PROVE Gathers(perRec[p], p)'
      <3> PICK w : w = perRec[p]
        OBVIOUS
      <3>1. Gathers(w, p)
        BY <2>9 DEF Gathered
      <3>2. Current(p)' = Current(p) /\ Current(p) \subseteq DOMAIN elements
        BY <1>6, <2>9
      <3>3. \A a : With(Current(p), a)' = With(Current(p), a)
        BY <3>2, <1>2 DEF With
      <3>4. Listed(Texts', w.exTexts, Current(p))
        <4>1. Listed(Texts, w.exTexts, Current(p))
          BY <3>1 DEF Gathers
        <4>2. \A i \in Current(p) : Texts'[i] = Texts[i]
          BY <1>3, <3>2
        <4> QED
          BY <4>1, <4>2, ListedOver
      <3>5. Gathers(w, p)'
        BY <3>1, <3>2, <3>3, <3>4 DEF Gathers
      <3>6. perRec'[p] = w
        BY <2>3, <2>9
      <3> QED
        BY <3>5, <3>6
    <2>10. (\A p \in DOMAIN perRec : Gathers(perRec[p], p))'
      <3> SUFFICES ASSUME NEW p \in DOMAIN perRec' PROVE Gathers(perRec[p], p)'
        OBVIOUS
      <3>1. p = p0 \/ (p \in DOMAIN perRec /\ p # p0)
        BY <2>3
      <3>2. ASSUME p = p0 PROVE Gathers(perRec[p], p)'
        BY <2>3, <2>8, <3>2
      <3> QED
        BY <2>9, <3>1, <3>2
    <2>11. (DOMAIN perRec = {elements[i].path : i \in {k \in DOMAIN elements : elements[k].rec = closed + 1}})'
      BY <1>8, <2>3 DEF Gathered
    <2> QED
      BY <2>10, <2>11, <1>1 DEF Gathered
  <1>10. Reported'
    <2>1. ASSUME NEW p \in Seen PROVE Sums(rep.Paths[p], p)'
      <3> PICK w : w = rep.Paths[p]
        OBVIOUS
      <3>1. Sums(w, p)
        BY <2>1 DEF Reported
      <3>2. Matching(p)' = Matching(p) /\ Matching(p) \subseteq DOMAIN elements
        BY <1>5
      <3>3. {elements[i].rec : i \in Matching(p)}' = {elements[i].rec : i \in Matching(p)}
        BY <3>2, <1>2
      <3>4. \A r : InRecord(p, r)' = InRecord(p, r)
        BY <3>2, <1>2 DEF InRecord
      <3>5. Listed(Texts', w.ExampleTexts, Matching(p))
        <4>1. Listed(Texts, w.ExampleTexts, Matching(p))
          BY <3>1 DEF Sums
        <4>2. \A i \in Matching(p) : Texts'[i] = Texts[i]
          BY <1>3, <3>2
        <4> QED
          BY <4>1, <4>2, ListedOver
      <3>6. Sums(w, p)'
        BY <3>1, <3>2, <3>3, <3>4, <3>5, <1>1, <1>7 DEF Sums
      <3> QED
        BY <3>6, <1>1
    <2> QED
      BY <2>1, <1>1, <1>8 DEF Reported
  <1> QED
    BY <1>9, <1>10

(* A record closes: what was gathered of it is added to the report. *)
LEMMA EndRecordStep ==
  ASSUME Located, Recorded, Gathered, Reported, EndRecord
  PROVE  Gathered' /\ Reported'
  <1>0. /\ closed \in Nat /\ closed' = closed + 1 /\ elements' = elements /\ Texts' = Texts
        /\ perRec' = Empty /\ rep'.TotalRecords = rep.TotalRecords + 1
        /\ DOMAIN elements \in SUBSET Nat
        /\ \A i \in DOMAIN elements : /\ elements[i].rec \in Nat \ {0}
                                      /\ elements[i].text \in Seq(Chunk)
                                      /\ elements[i].rec <= closed + 1
                                      /\ elements[i].rec <= closed \/ elements[i].rec = closed + 1
    BY Ordered, EndTags DEF EndRecord, mergeRecordIntoGlobal, Texts
  <1>1. rep'.Paths = [p \in DOMAIN rep.Paths \cup DOMAIN perRec |->
                        IF p \in DOMAIN perRec
                        THEN Merged(Lookup(rep.Paths, p, PathAgg), perRec[p])
                        ELSE rep.Paths[p]]
    BY DEF EndRecord, mergeRecordIntoGlobal
  <1>2. \A i \in DOMAIN elements :
          elements[i].rec <= closed' <=> elements[i].rec <= closed \/ elements[i].rec = closed + 1
    BY <1>0
  <1>3. \A p : Matching(p)' = Matching(p) \cup Current(p)
    BY <1>0, <1>2 DEF Matching, Current
  <1>4. Seen' = Seen \cup DOMAIN perRec
    <2>1. \A p : p \in Seen <=> Matching(p) # {}
      BY DEF Seen, Matching
    <2>2. \A p : p \in DOMAIN perRec <=> Current(p) # {}
      BY NoEntry
    <2>3. \A p : p \in Seen' <=> Matching(p)' # {}
      BY DEF Seen, Matching
    <2> QED
      BY <2>1, <2>2, <2>3, <1>3
  <1>5. \A p : Current(p) \subseteq DOMAIN elements /\ Matching(p) \subseteq DOMAIN elements
    BY DEF Current, Matching
  <1>6. Gathered'
    <2>1. \A i \in DOMAIN elements : elements[i].rec # closed' + 1
      BY <1>0
    <2>2. DOMAIN perRec' = {}
      BY <1>0 DEF Empty
    <2>3. {elements[i].path : i \in {k \in DOMAIN elements : elements[k].rec = closed + 1}}' = {}
      BY <2>1, <1>0
    <2> QED
      BY <2>2, <2>3, <1>0 DEF Gathered
  <1>7. ASSUME NEW p, p \notin DOMAIN perRec, p \in Seen
        PROVE  Sums(rep.Paths[p], p)'
    <2> PICK w : w = rep.Paths[p]
      OBVIOUS
    <2>1. Sums(w, p) /\ rep'.Paths[p] = w
      BY <1>1, <1>7 DEF Reported
    <2>2. Current(p) = {}
      BY <1>7, NoEntry
    <2>3. Matching(p)' = Matching(p)
      BY <2>2, <1>3
    <2>4. \A r : InRecord(p, r)' = InRecord(p, r)
      BY <2>3, <1>0 DEF InRecord
    <2>5. (\E r \in 1..closed : Cardinality(InRecord(p, r)) > 1)'
            <=> \E r \in 1..closed : Cardinality(InRecord(p, r)) > 1
      <3>1. InRecord(p, closed + 1) = {}
        BY <1>0 DEF InRecord, Matching
      <3>2. ~ (Cardinality(InRecord(p, closed + 1)) > 1)
        BY <3>1, FS_EmptySet
      <3>3. \A r : r \in 1..(closed + 1) <=> r \in 1..closed \/ r = closed + 1
        BY <1>0
      <3> QED
        BY <3>2, <3>3, <2>4, <1>0
    <2>6. {elements[i].rec : i \in Matching(p)}' = {elements[i].rec : i \in Matching(p)}
      BY <2>3, <1>0
    <2>7. \A a : With(Matching(p), a)' = With(Matching(p), a)
      BY <2>3, <1>0 DEF With
    <2>8. Sums(w, p)'
      BY <2>1, <2>3, <2>5, <2>6, <2>7, <1>0 DEF Sums
    <2> QED
      BY <2>1, <2>8
  <1>8. ASSUME NEW p, p \in DOMAIN perRec
        PROVE  Sums(rep.Paths[p], p)'
    <2> PICK ga : ga = Lookup(rep.Paths, p, PathAgg)
      OBVIOUS
    <2> PICK ra : ra = perRec[p]
      OBVIOUS
    <2> PICK w : w = Merged(ga, ra)
      OBVIOUS
    <2> DEFINE A == Matching(p)
               C == Current(p)
    <2>1. Sums(ga, p) /\ Gathers(ra, p) /\ rep'.Paths[p] = w
      BY <1>1, <1>8, NoEntry DEF Gathered
    <2>t. PICK texts : texts = FoldLeft(LAMBDA arr, ex : AddExample(arr, ex, ExampleCap),
                                      ga.ExampleTexts, ra.exTexts)
      OBVIOUS
    <2>m. /\ w.TotalCount = ga.TotalCount + ra.count
          /\ w.RecordsWith = ga.RecordsWith + 1
          /\ w.MaxPerRecord = LargerCount(ga.MaxPerRecord, ra.count)
          /\ w.ExampleTexts = texts
          /\ w.AttrExamples = Plus(ga.AttrExamples, ra.attrCounts)
      <3>1. w = [TotalCount |-> ga.TotalCount + ra.count,
                 RecordsWith |-> ga.RecordsWith + 1,
                 MaxPerRecord |-> LargerCount(ga.MaxPerRecord, ra.count),
                 ExampleTexts |-> texts,
                 AttrExamples |-> Plus(ga.AttrExamples, ra.attrCounts)]
        BY <2>t DEF Merged, MergedExamples
      <3> QED
        BY <3>1
    <2>2. /\ A \in SUBSET (1..Len(elements)) /\ C \in SUBSET (1..Len(elements))
          /\ IsFiniteSet(A) /\ IsFiniteSet(C)
          /\ Cardinality(A) \in Nat /\ Cardinality(C) \in Nat
          /\ A \cap C = {} /\ \A i \in A, j \in C : i < j
          /\ Len(elements) \in Nat
      BY Ordered
    <2>3. C # {} /\ A' = A \cup C
      BY <1>3, <1>8, NoEntry
    <2>4. w.TotalCount = Cardinality(A')
      <3>1. Cardinality(A \cup C) = Cardinality(A) + Cardinality(C)
        <4> HIDE DEF A, C
        <4> QED
          BY <2>2, DisjointSum
      <3> QED
        BY <3>1, <2>1, <2>3, <2>m DEF Sums, Gathers
    <2>5. w.RecordsWith = Cardinality({elements[i].rec : i \in A}')
      <3> DEFINE R == {elements[i].rec : i \in A}
      <3>1. {elements[i].rec : i \in A}' = R \cup {closed + 1}
        <4>1. \A i \in C : elements[i].rec = closed + 1
          BY DEF Current
        <4> QED
          BY <4>1, <2>3, <1>0
      <3>2. R \in SUBSET (1..closed) /\ closed + 1 \notin R
        <4>1. \A i \in A : elements[i].rec \in 1..closed
          BY <1>0 DEF Matching
        <4> QED
          BY <4>1, <1>0
      <3> HIDE DEF R
      <3>3. IsFiniteSet(R) /\ Cardinality(R) \in Nat
        BY <3>2, <1>0, Within
      <3>4. Cardinality(R \cup {closed + 1}) = Cardinality(R) + 1
        BY <3>2, <3>3, FS_AddElement
      <3>5. w.RecordsWith = Cardinality(R) + 1
        BY <2>1, <2>m DEF Sums, R
      <3> QED
        BY <3>1, <3>4, <3>5
    <2>6. ASSUME NEW a \in Attr PROVE w.AttrExamples[a] = Cardinality(With(A, a)')
      <3>1. With(A, a)' = With(A, a) \cup With(C, a)
        BY <2>3, <1>0 DEF With
      <3>2. With(A, a) \in SUBSET (1..Len(elements)) /\ With(C, a) \in SUBSET (1..Len(elements))
            /\ With(A, a) \cap With(C, a) = {}
        BY <2>2 DEF With
      <3>3. IsFiniteSet(With(A, a)) /\ IsFiniteSet(With(C, a))
        BY <3>2, <2>2, Within
      <3>4. Cardinality(With(A, a) \cup With(C, a)) = Cardinality(With(A, a)) + Cardinality(With(C, a))
        BY <3>2, <3>3, DisjointSum
      <3>5. w.AttrExamples[a] = Cardinality(With(A, a)) + Cardinality(With(C, a))
        BY <2>1, <2>m DEF Sums, Gathers, Plus
      <3> QED
        BY <3>1, <3>4, <3>5
    <2>7. w.MaxPerRecord \in Nat
          /\ (w.MaxPerRecord > 1 <=> (\E r \in 1..closed : Cardinality(InRecord(p, r)) > 1)')
      <3>1. ga.MaxPerRecord \in Nat /\ ra.count = Cardinality(C) /\ ra.count \in Nat
            /\ (ga.MaxPerRecord > 1 <=> \E r \in 1..closed : Cardinality(InRecord(p, r)) > 1)
        BY <2>1, <2>2 DEF Sums, Gathers
      <3>2. w.MaxPerRecord = IF ra.count > ga.MaxPerRecord THEN ra.count ELSE ga.MaxPerRecord
        BY <2>m DEF LargerCount
      <3> PICK c1 : c1 = closed + 1
        OBVIOUS
      <3>3. InRecord(p, c1)' = C
        <4>1. \A i \in A : elements[i].rec # c1
          BY <1>0 DEF Matching
        <4>2. \A i \in C : elements[i].rec = c1
          BY DEF Current
        <4>3. InRecord(p, c1)' = {i \in A \cup C : elements[i].rec = c1}
          BY <1>0, <2>3 DEF InRecord
        <4> QED
          BY <4>1, <4>2, <4>3
      <3>4. ASSUME NEW r \in 1..closed PROVE InRecord(p, r)' = InRecord(p, r)
        <4>1. \A i \in C : elements[i].rec # r
          BY <1>0 DEF Current
        <4>2. InRecord(p, r)' = {i \in A \cup C : elements[i].rec = r}
          BY <1>0, <2>3 DEF InRecord
        <4> QED
          BY <4>1, <4>2 DEF InRecord
      <3>5. \A r : r \in 1..closed' <=> r \in 1..closed \/ r = c1
        BY <1>0
      <3>6. (\E r \in 1..closed : Cardinality(InRecord(p, r)) > 1)'
              <=> ra.count > 1 \/ \E r \in 1..closed : Cardinality(InRecord(p, r)) > 1
        BY <3>1, <3>3, <3>4, <3>5
      <3> QED
        BY <3>1, <3>2, <3>6
    <2>8. Listed(Texts, w.ExampleTexts, A)'
      <3>1. Listed(Texts, ga.ExampleTexts, A) /\ Listed(Texts, ra.exTexts, C)
        BY <2>1 DEF Sums, Gathers
      <3>2. A \in SUBSET Nat /\ C \in SUBSET Nat /\ \A c \in C : Texts[c] \in Seq(Chunk)
        BY <2>2, <1>0, <1>5 DEF Texts
      <3>3. Listed(Texts, FoldLeft(LAMBDA arr, ex : AddExample(arr, ex, ExampleCap),
                                   ga.ExampleTexts, ra.exTexts), A \cup C)
        <4> HIDE DEF A, C
        <4> QED
          BY <3>1, <3>2, <2>2, ListedMerge
      <3>4. w.ExampleTexts = FoldLeft(LAMBDA arr, ex : AddExample(arr, ex, ExampleCap),
                                      ga.ExampleTexts, ra.exTexts)
        BY <2>m, <2>t
      <3> QED
        BY <3>3, <3>4, <2>3, <1>0
    <2>9. Sums(w, p)'
      BY <2>4, <2>5, <2>6, <2>7, <2>8 DEF Sums
    <2> QED
      BY <2>1, <2>9
  <1>9. Reported'
    <2>1. DOMAIN rep'.Paths = Seen'
      BY <1>1, <1>4 DEF Reported
    <2>2. rep'.TotalRecords = closed'
      BY <1>0 DEF Reported
    <2>3. (\A p \in Seen : Sums(rep.Paths[p], p))'
      BY <1>4, <1>7, <1>8
    <2> QED
      BY <2>1, <2>2, <2>3 DEF Reported
  <1> QED
    BY <1>6, <1>9

LEMMA RestInit == Init => Recorded /\ Gathered /\ Reported
  <1> SUFFICES ASSUME Init PROVE Recorded /\ Gathered /\ Reported
    OBVIOUS
  <1>1. /\ closed = 0 /\ elements = << >> /\ inRecord = FALSE /\ perRec = Empty
        /\ rep.TotalRecords = 0 /\ rep.Paths = Empty
    BY DEF Init, Empty
  <1>2. DOMAIN elements = {} /\ elements \in Seq(Element)
    BY <1>1
  <1>3. Recorded
    BY <1>1, <1>2 DEF Recorded
  <1>4. DOMAIN Empty = {}
    BY DEF Empty
  <1>5. Gathered
    BY <1>1, <1>2, <1>4 DEF Gathered
  <1>6. Reported
    BY <1>1, <1>2, <1>4 DEF Reported, Seen
  <1> QED
    BY <1>3, <1>5, <1>6

LEMMA RestStep == Located /\ Recorded /\ Gathered /\ Reported /\ [Next]_vars => Gathered' /\ Reported'
  <1> SUFFICES ASSUME Located, Recorded, Gathered, Reported, [Next]_vars
               PROVE  Gathered' /\ Reported'
    OBVIOUS
  <1>0. closed \in Nat
    BY DEF Recorded
  <1>1. ASSUME UNCHANGED <<closed, elements, perRec, rep>>, ~inRecord' => ~inRecord
        PROVE  Gathered' /\ Reported'
    <2>1. Texts' = Texts /\ (\A p : Current(p)' = Current(p)) /\ (\A p : Matching(p)' = Matching(p))
          /\ (\A p, r : InRecord(p, r)' = InRecord(p, r)) /\ Seen' = Seen
      BY <1>1 DEF Texts, Current, Matching, InRecord, Seen
    <2>2. (\A p, a : With(Current(p), a)' = With(Current(p), a))
          /\ \A p, a : With(Matching(p), a)' = With(Matching(p), a)
      BY <1>1, <2>1 DEF With
    <2>3. \A p \in DOMAIN perRec : Gathers(perRec[p], p)'
      BY <1>1, <2>1, <2>2 DEF Gathered, Gathers
    <2>4. Gathered'
      BY <1>1, <2>3 DEF Gathered
    <2>5. \A p \in Seen : Sums(rep.Paths[p], p)'
      BY <1>1, <2>1, <2>2 DEF Reported, Sums
    <2>6. Reported'
      BY <1>1, <2>1, <2>5 DEF Reported
    <2> QED
      BY <2>4, <2>6
  <1>2. ASSUME NEW n \in Name, StartOutside(n) PROVE Gathered' /\ Reported'
    BY <1>1, <1>2 DEF StartOutside, discoverVars
  <1>3. CASE StartRecord
    BY <1>1, <1>3 DEF StartRecord, Gathered
  <1>4. ASSUME NEW n \in Name, NEW attrs \in SUBSET Attr, StartNode(n, attrs)
        PROVE  Gathered' /\ Reported'
    BY <1>1, <1>4 DEF StartNode
  <1>5. ASSUME NEW c \in Chunk, CharData(c) PROVE Gathered' /\ Reported'
    BY <1>1, <1>5 DEF CharData
  <1>6. CASE EndOutside
    BY <1>0, <1>1, <1>6, EndTags DEF EndOutside, discoverVars
  <1>7. CASE Return \/ UNCHANGED vars
    BY <1>1, <1>7 DEF Return, vars, discoverVars
  <1> QED
    BY <1>2, <1>3, <1>4, <1>5, <1>6, <1>7, EndRecordStep, EndNodeStep DEF Next

LEMMA FirstTextsAre ==
  ASSUME Recorded, NEW p
  PROVE  FirstTexts(p) = Firsts(Texts, Matching(p))
  <1>1. Matching(p) \subseteq DOMAIN elements
    BY DEF Matching
  <1> QED
    BY <1>1 DEF FirstTexts, Firsts, Texts

(* The first k values of an increasing sequence are k. *)
LEMMA Ranks ==
  ASSUME NEW F \in SUBSET Nat, NEW L \in Nat, NEW at \in [1..L -> F],
         \A k, l \in 1..L : k < l => at[k] < at[l],
         NEW k \in 0..L
  PROVE  IsFiniteSet({at[l] : l \in 1..k}) /\ Cardinality({at[l] : l \in 1..k}) = k
  <1> DEFINE T == {at[l] : l \in 1..k}
             f == [l \in 1..k |-> at[l]]
  <1>1. k \in Nat /\ IsFiniteSet(1..k) /\ Cardinality(1..k) = k
    BY IntervalSize
  <1>2. f \in [1..k -> T] /\ \A t \in T : \E l \in 1..k : f[l] = t
    OBVIOUS
  <1>3. ASSUME NEW l \in 1..k, NEW m \in 1..k, f[l] = f[m] PROVE l = m
    <2>1. l \in 1..L /\ m \in 1..L /\ at[l] = at[m] /\ at[l] \in Nat
      <3>1. l \in 1..L /\ m \in 1..L
        BY <1>1
      <3>2. at[l] \in F /\ at[l] = at[m]
        BY <3>1, <1>3
      <3> QED
        BY <3>1, <3>2
    <2>2. ~ (l < m) /\ ~ (m < l)
      BY <2>1
    <2> QED
      BY <2>1, <2>2
  <1>4. f \in Bijection(1..k, T)
    <2> HIDE DEF f, T
    <2> QED
      BY <1>2, <1>3 DEF Bijection, Injection, Surjection, IsInjective
  <1>5. ExistsBijection(1..k, T)
    BY <1>4 DEF ExistsBijection
  <1> HIDE DEF T
  <1>6. IsFiniteSet(T) /\ Cardinality(T) = Cardinality(1..k)
    BY <1>1, <1>5, FS_Bijection
  <1> QED
    BY <1>1, <1>6 DEF T

(* ex holds the first texts of F, by their rank. *)
Ranked(txt, ex, F) ==
  /\ Len(ex) = IF Cardinality(F) < ExampleCap THEN Cardinality(F) ELSE ExampleCap
  /\ \A i \in F :
       LET k == Cardinality({j \in F : j <= i})
       IN  k <= ExampleCap => ex[k] = txt[i]

(* What Listed means *)
LEMMA ListedRanks ==
  ASSUME NEW txt, NEW ex, NEW M, NEW m \in Nat, M \in SUBSET (1..m), Listed(txt, ex, M)
  PROVE  Ranked(txt, ex, Firsts(txt, M))
  <1> DEFINE F == Firsts(txt, M)
             n == Cardinality(F)
             L == Len(ex)
  <1>1. PICK at \in [1..L -> F] : Placing(txt, ex, M, at)
    BY DEF Listed
  <1>2. L \in Nat /\ L <= ExampleCap /\ ExampleCap \in Nat
    BY CapAssumption DEF Listed
  <1>3. F \in SUBSET (1..m) /\ F \in SUBSET Nat
    <2>1. F \subseteq M /\ M \subseteq 1..m
      BY DEF Firsts
    <2> HIDE DEF F
    <2> QED
      BY <2>1
  <1>4. IsFiniteSet(F) /\ n \in Nat
    BY <1>3, Within
  <1>5. \A k, l \in 1..L : k < l => at[k] < at[l]
    BY <1>1 DEF Placing
  <1>6. \A i \in F : (\E k \in 1..L : at[k] = i) \/ (L = ExampleCap /\ \A k \in 1..L : at[k] < i)
    BY <1>1 DEF Placing
  <1> DEFINE Im(k) == {at[l] : l \in 1..k}
  <1>7. \A k \in 0..L : IsFiniteSet(Im(k)) /\ Cardinality(Im(k)) = k
    BY <1>2, <1>3, <1>5, Ranks
  <1>8. Im(L) \subseteq F
    BY <1>1
  <1>9. \A k \in 1..L : ex[k] = txt[at[k]]
    BY <1>1 DEF Placing
  <1> HIDE DEF F, L, n
  <1>10. L = IF n < ExampleCap THEN n ELSE ExampleCap
    <2>1. L <= n
      <3>1. L \in 0..L
        BY <1>2
      <3>2. Cardinality(Im(L)) <= Cardinality(F)
        <4> HIDE DEF Im
        <4> QED
          BY <1>4, <1>8, FS_Subset
      <3> QED
        BY <3>1, <3>2, <1>7 DEF n
    <2>2. L # ExampleCap => L = n
      <3>1. L # ExampleCap => Im(L) = F
        BY <1>6, <1>8
      <3>2. L \in 0..L
        BY <1>2
      <3>3. Cardinality(Im(L)) = L
        BY <3>2, <1>7
      <3> HIDE DEF Im
      <3> QED
        BY <3>1, <3>3 DEF n
    <2> QED
      BY <2>1, <2>2, <1>2, <1>4
  <1>11. ASSUME NEW i \in F, Cardinality({j \in F : j <= i}) <= ExampleCap
         PROVE  ex[Cardinality({j \in F : j <= i})] = txt[i]
    <2> DEFINE B == {j \in F : j <= i}
    <2>0. IsFiniteSet(B) /\ Cardinality(B) \in Nat
      <3>1. B \in SUBSET (1..m)
        BY <1>3
      <3> QED
        BY <3>1, Within
    <2>1. CASE \E k \in 1..L : at[k] = i
      <3>1. PICK k \in 1..L : at[k] = i
        BY <2>1
      <3>2. B = Im(k)
        <4>1. ASSUME NEW j \in B PROVE j \in Im(k)
          <5>1. j <= at[k] /\ j \in F /\ j \in Nat /\ at[k] \in Nat
            BY <3>1, <1>1, <1>3
          <5>2. PICK l \in 1..L : at[l] = j
            BY <5>1, <1>6
          <5>3. ~ (k < l)
            BY <5>1, <5>2, <1>5
          <5>4. l \in 1..k
            BY <5>3, <1>2
          <5> QED
            BY <5>2, <5>4
        <4>2. ASSUME NEW l \in 1..k PROVE at[l] \in B
          <5>1. l \in 1..L /\ (l = k \/ l < k)
            BY <1>2
          <5>2. at[l] \in F /\ at[l] \in Nat /\ at[k] \in Nat
            BY <5>1, <1>1, <1>3
          <5>3. at[l] <= at[k]
            BY <5>1, <5>2, <1>5
          <5> QED
            BY <5>2, <5>3, <3>1
        <4> QED
          BY <4>1, <4>2
      <3>3. k \in 0..L
        BY <1>2
      <3> HIDE DEF B, Im
      <3>4. Cardinality(B) = k
        BY <3>2, <3>3, <1>7
      <3> QED
        BY <3>1, <3>4, <1>9 DEF B
    <2>2. CASE L = ExampleCap /\ \A k \in 1..L : at[k] < i
      <3>1. Im(L) \cup {i} \subseteq B /\ i \notin Im(L)
        <4>1. \A l \in 1..L : at[l] \in F /\ at[l] \in Nat /\ at[l] < i
          BY <2>2, <1>1, <1>3
        <4>2. i \in Nat
          BY <1>3
        <4> QED
          BY <4>1, <4>2
      <3>2. L \in 0..L
        BY <1>2
      <3> HIDE DEF B, Im
      <3>3. Cardinality(Im(L) \cup {i}) = L + 1
        BY <3>1, <3>2, <1>7, FS_AddElement
      <3>4. L + 1 <= Cardinality(B)
        BY <3>1, <3>3, <2>0, FS_Subset
      <3>5. FALSE
        BY <3>4, <2>0, <2>2, <1>2, <1>11 DEF B
      <3> QED
        BY <3>5
    <2> QED
      BY <2>1, <2>2, <1>6
  <1> QED
    BY <1>10, <1>11 DEF F, L, n, Ranked

LEMMA TypesFollow == IInv /\ Located /\ Reported => TypeOK
  <1> SUFFICES ASSUME IInv, Located, Reported PROVE TypeOK
    OBVIOUS
  <1>1. \A p \in DOMAIN rep.Paths : Len(rep.Paths[p].ExampleTexts) <= ExampleCap
    BY DEF Reported, Sums, Listed
  <1> QED
    BY <1>1 DEF TypeOK, IInv, Located

LEMMA CountsFollow == Reported => CountsOfClosedRecords
  <1> SUFFICES ASSUME Reported PROVE CountsOfClosedRecords
    OBVIOUS
  <1>1. ASSUME NEW p \in Seen
        PROVE  /\ rep.Paths[p].TotalCount = Cardinality(Matching(p))
               /\ rep.Paths[p].RecordsWith = Cardinality({elements[i].rec : i \in Matching(p)})
               /\ \A a \in Attr : rep.Paths[p].AttrExamples[a] =
                    Cardinality({i \in Matching(p) : a \in elements[i].attrs})
    BY DEF Reported, Sums, With
  <1> QED
    BY <1>1 DEF Reported, CountsOfClosedRecords

LEMMA ExamplesFollow == Recorded /\ Reported => ExamplesAreFirst
  <1> SUFFICES ASSUME Recorded, Reported, NEW p \in Seen
               PROVE  LET ex == rep.Paths[p].ExampleTexts
                          n == Cardinality(FirstTexts(p))
                      IN  /\ Len(ex) = IF n < ExampleCap THEN n ELSE ExampleCap
                          /\ \A i \in FirstTexts(p) :
                               LET k == Cardinality({j \in FirstTexts(p) : j <= i})
                               IN  k <= ExampleCap => ex[k] = elements[i].text
    BY DEF ExamplesAreFirst
  <1> PICK ex : ex = rep.Paths[p].ExampleTexts
    OBVIOUS
  <1> DEFINE M == Matching(p)
             F == Firsts(Texts, M)
  <1>1. Listed(Texts, ex, M)
    BY DEF Reported, Sums
  <1>2. Len(elements) \in Nat /\ M \in SUBSET (1..Len(elements)) /\ DOMAIN elements = 1..Len(elements)
    BY Ordered
  <1>3. FirstTexts(p) = F /\ \A i \in F : Texts[i] = elements[i].text
    BY <1>2, FirstTextsAre DEF Firsts, Texts
  <1> HIDE DEF M
  <1>4. Ranked(Texts, ex, F)
    BY <1>1, <1>2, ListedRanks
  <1> HIDE DEF F
  <1> QED
    BY <1>3, <1>4 DEF Ranked

LEMMA StarterFollows == Recorded /\ Reported => StarterKeepsRepeats
  <1> SUFFICES ASSUME Recorded, Reported, NEW p \in Seen, FirstTexts(p) # {}
               PROVE  IF \E r \in 1..closed : Cardinality(InRecord(p, r)) > 1
                      THEN p \in Lists ELSE p \in Fields
    BY DEF StarterKeepsRepeats
  <1> PICK ex : ex = rep.Paths[p].ExampleTexts
    OBVIOUS
  <1>1. Listed(Texts, ex, Matching(p)) /\ Sums(rep.Paths[p], p)
    BY DEF Reported, Sums
  <1>2. PICK i \in Firsts(Texts, Matching(p)) : TRUE
    BY FirstTextsAre
  <1>3. Len(ex) # 0
    BY <1>1, <1>2, CapAssumption DEF Listed, Placing
  <1>4. p \in WithText
    BY <1>3 DEF WithText, Empty, Reported
  <1>5. /\ rep.Paths[p].MaxPerRecord \in Nat
        /\ rep.Paths[p].MaxPerRecord > 1 <=> \E r \in 1..closed : Cardinality(InRecord(p, r)) > 1
    BY <1>1 DEF Sums
  <1>6. rep.Paths[p].MaxPerRecord <= 1 <=> ~ (rep.Paths[p].MaxPerRecord > 1)
    BY <1>5
  <1> QED
    BY <1>4, <1>5, <1>6 DEF Lists, Fields

(* DiscoverInv is an invariant. *)
THEOREM DiscoverInvariance == Spec => []DiscoverInv
  <1>1. Init => DiscoverInv
    BY InitInv, LocatedInit, RestInit DEF DiscoverInv
  <1>2. DiscoverInv /\ [Next]_vars => DiscoverInv'
    BY Step, LocatedStep, RecordedStep, RestStep DEF DiscoverInv
  <1> QED
    BY <1>1, <1>2, PTL DEF Spec

(* Inside a record, at any depth, Discover's own stacks are the elements   *)
(* that are open in the document below the outermost record.               *)
THEOREM Types == Spec => []TypeOK
  <1>1. DiscoverInv => TypeOK
    BY TypesFollow DEF DiscoverInv
  <1> QED
    BY <1>1, DiscoverInvariance, PTL

(* "It only merges data for fully-closed records": wherever a stream of    *)
(* any length stops, the counts are those of the closed records' elements. *)
THEOREM CountsExact == Spec => []CountsOfClosedRecords
  <1>1. DiscoverInv => CountsOfClosedRecords
    BY CountsFollow DEF DiscoverInv
  <1> QED
    BY <1>1, DiscoverInvariance, PTL

(* Cut to the cap in every record and again in the report, the examples of *)
(* a path are its first different texts, in the order of the document, for *)
(* every cap.                                                              *)
THEOREM ExamplesInOrder == Spec => []ExamplesAreFirst
  <1>1. DiscoverInv => ExamplesAreFirst
    BY ExamplesFollow DEF DiscoverInv
  <1> QED
    BY <1>1, DiscoverInvariance, PTL

(* A path with text is in the starter configuration, as a list if any      *)
(* closed record held it twice.                                            *)
THEOREM StarterComplete == Spec => []StarterKeepsRepeats
  <1>1. DiscoverInv => StarterKeepsRepeats
    BY StarterFollows DEF DiscoverInv
  <1> QED
    BY <1>1, DiscoverInvariance, PTL
=============================================================================
