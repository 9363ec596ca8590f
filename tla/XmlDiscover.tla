----------------------------- MODULE XmlDiscover -----------------------------
(***************************************************************************)
(* Discover, StarterConfigFrom and GuessRecordTag of                       *)
(* internal/inspect/xml_discover.go, over one stream of tokens that may    *)
(* stop anywhere.  Discover keeps its own idea of where it is (inRecord,   *)
(* relStack, nodeStack), gathers each record apart, and adds it to the     *)
(* report when it closes; GuessRecordTag counts the children of the root.  *)
(*                                                                         *)
(* The tokens come from encoding/xml with Strict off, which closes what a  *)
(* stray end tag leaves open: they are always well nested.  A chunk of     *)
(* text is never blank (text is trimmed), an attribute is a name with its  *)
(* value, and an element carries a set of them.                            *)
(***************************************************************************)
EXTENDS Integers, SequencesExt

CONSTANTS
  Name,         \* element names
  RecordTag,    \* the one Discover is given
  Chunk,        \* pieces of text
  Attr,         \* attributes with their values
  ExampleCap,   \* examples kept of each path, 3 in the code
  MaxTokens,    \* bound: tokens of the stream
  MaxDepth,     \* bound: elements open at once
  MaxPieces     \* bound: pieces of text of one element

(* The empty string *)
NoName == "none"

ASSUME NameAssumption == RecordTag \in Name /\ NoName \notin Name
ASSUME CapAssumption == ExampleCap \in Nat \ {0}
ASSUME TokensAssumption == MaxTokens \in Nat /\ MaxDepth \in Nat /\ MaxPieces \in Nat

VARIABLES
  (* The document: its open elements, and the tokens read *)
  open, tokens,
  (* Discover *)
  inRecord, relStack, nodeStack, perRec, rep,
  (* GuessRecordTag *)
  stack, rootName, counts,
  (* History *)
  closed,       \* records closed
  elements      \* elements closed inside a record, in order

discoverVars == <<inRecord, relStack, nodeStack, perRec, rep>>
guessVars == <<stack, rootName, counts>>
vars == <<open, tokens, discoverVars, guessVars, closed, elements>>

Empty == << >>

NoAttrs == [a \in Attr |-> 0]

AttrCounts(attrs) == [a \in Attr |-> IF a \in attrs THEN 1 ELSE 0]

Plus(f, g) == [a \in Attr |-> f[a] + g[a]]

(* A map of Go: the zero value where there is no entry *)
Lookup(map, p, zero) == IF p \in DOMAIN map THEN map[p] ELSE zero

Store(map, p, v) ==
  [q \in DOMAIN map \cup {p} |-> IF q = p THEN v ELSE map[q]]

recAgg == [count |-> 0, exTexts |-> Empty, attrCounts |-> NoAttrs]

PathAgg == [TotalCount |-> 0, RecordsWith |-> 0, MaxPerRecord |-> 0,
            ExampleTexts |-> Empty, AttrExamples |-> NoAttrs]

Init ==
  /\ open = Empty /\ tokens = 0
  /\ inRecord = FALSE /\ relStack = Empty /\ nodeStack = Empty
  /\ perRec = Empty
  /\ rep = [TotalRecords |-> 0, Paths |-> Empty]
  /\ stack = Empty /\ rootName = NoName /\ counts = [n \in Name |-> 0]
  /\ closed = 0 /\ elements = Empty

-----------------------------------------------------------------------------
(* The decoder *)

Read == tokens < MaxTokens /\ tokens' = tokens + 1

Frame(n, attrs) == [name |-> n, attrs |-> attrs, text |-> Empty]

OpenElement(n, attrs) ==
  /\ Read /\ Len(open) < MaxDepth
  /\ open' = Append(open, Frame(n, attrs))

AddText(frames, c) ==
  [frames EXCEPT ![Len(frames)].text = Append(@, c)]

-----------------------------------------------------------------------------
(* GuessRecordTag *)

(* Fault: every descendant of the root is counted. *)
ChildOfAny(s) == Len(s) >= 2

ChildOfRoot(s) == Len(s) = 2

(* The root's own start is not counted; a second root of another name has  *)
(* children that are not, either. *)
GuessStart(n) ==
  /\ stack' = Append(stack, n)
  /\ rootName' = IF rootName = NoName THEN n ELSE rootName
  /\ counts' = IF rootName # NoName /\ ChildOfRoot(stack') /\ stack'[1] = rootName
               THEN [counts EXCEPT ![n] = @ + 1] ELSE counts

GuessEnd ==
  /\ stack' = IF stack = Empty THEN stack ELSE Front(stack)
  /\ UNCHANGED <<rootName, counts>>

(* What it may return: the range over the map meets its keys in any order, *)
(* and the first of the most frequent ones stays. *)
Guess ==
  IF \A n \in Name : counts[n] = 0 THEN {NoName}
  ELSE {n \in Name : \A m \in Name : counts[m] <= counts[n]}

-----------------------------------------------------------------------------
(* Discover: a start tag outside a record, of a record, and inside one *)

(* Attributes and text are looked at inside an element of a record only,   *)
(* so no others are read.                                                  *)
StartOutside(n) ==
  /\ OpenElement(n, {})
  /\ ~inRecord /\ n # RecordTag
  /\ GuessStart(n)
  /\ UNCHANGED <<discoverVars, closed, elements>>

StartRecord ==
  /\ OpenElement(RecordTag, {})
  /\ ~inRecord
  /\ inRecord' = TRUE
  /\ relStack' = Empty /\ nodeStack' = Empty /\ perRec' = Empty
  /\ GuessStart(RecordTag)
  /\ UNCHANGED <<rep, closed, elements>>

StartNode(n, attrs) ==
  /\ OpenElement(n, attrs)
  /\ inRecord
  /\ relStack' = Append(relStack, n)
  /\ nodeStack' = Append(nodeStack, Frame(n, attrs))
  /\ GuessStart(n)
  /\ UNCHANGED <<inRecord, perRec, rep, closed, elements>>

CharData(c) ==
  /\ Read
  /\ inRecord /\ nodeStack # Empty
  /\ Len(Last(open).text) < MaxPieces
  /\ open' = AddText(open, c)
  /\ nodeStack' = AddText(nodeStack, c)
  /\ UNCHANGED <<inRecord, relStack, perRec, rep, guessVars, closed, elements>>

-----------------------------------------------------------------------------
(* Discover: the end tags *)

(* addExample, and the merging of examples *)
AddExample(arr, val, capN) ==
  IF val = Empty \/ Contains(arr, val) \/ Len(arr) >= capN THEN arr ELSE Append(arr, val)

RecordCap == ExampleCap

(* Fault: the last record counts, not the largest. *)
LatestCount(max, count) == count

LargerCount(max, count) == IF count > max THEN count ELSE max

(* Fault: the lists are appended, and the result is cut to the cap. *)
AppendedExamples(ga, ra) ==
  LET all == ga.ExampleTexts \o ra.exTexts
  IN  IF Len(all) > ExampleCap THEN SubSeq(all, 1, ExampleCap) ELSE all

MergedExamples(ga, ra) ==
  FoldLeft(LAMBDA arr, ex : AddExample(arr, ex, ExampleCap), ga.ExampleTexts, ra.exTexts)

Merged(ga, ra) ==
  [TotalCount |-> ga.TotalCount + ra.count,
   RecordsWith |-> ga.RecordsWith + 1,
   MaxPerRecord |-> LargerCount(ga.MaxPerRecord, ra.count),
   ExampleTexts |-> MergedExamples(ga, ra),
   AttrExamples |-> Plus(ga.AttrExamples, ra.attrCounts)]

mergeRecordIntoGlobal ==
  /\ rep' = [TotalRecords |-> rep.TotalRecords + 1,
             Paths |-> [p \in DOMAIN rep.Paths \cup DOMAIN perRec |->
                         IF p \in DOMAIN perRec
                         THEN Merged(Lookup(rep.Paths, p, PathAgg), perRec[p])
                         ELSE rep.Paths[p]]]
  /\ perRec' = Empty

(* Fault: any end of the tag ends the record, a nested one too. *)
AnyRecordEnd(n) == n = RecordTag

RecordEnd(n) == n = RecordTag /\ relStack = Empty

(* The document's side of an end tag: the element goes; a record closes,   *)
(* or an element under one, whose path starts below the outermost record.  *)
Outermost == CHOOSE i \in DOMAIN open :
  open[i].name = RecordTag /\ \A j \in 1..(i - 1) : open[j].name # RecordTag

UnderRecord == \E i \in DOMAIN open : open[i].name = RecordTag

CloseElement ==
  /\ Read
  /\ open # Empty
  /\ open' = Front(open)
  /\ IF ~UnderRecord THEN UNCHANGED <<closed, elements>>
     ELSE IF Outermost = Len(open) THEN closed' = closed + 1 /\ UNCHANGED elements
     ELSE /\ elements' = Append(elements,
               [rec |-> closed + 1,
                path |-> [i \in 1..(Len(open) - Outermost) |-> open[Outermost + i].name],
                attrs |-> Last(open).attrs,
                text |-> Last(open).text])
          /\ UNCHANGED closed
  /\ GuessEnd

EndOutside ==
  /\ CloseElement
  /\ ~inRecord
  /\ UNCHANGED discoverVars

EndRecord ==
  /\ CloseElement
  /\ inRecord /\ RecordEnd(Last(open).name)
  /\ mergeRecordIntoGlobal
  /\ inRecord' = FALSE
  /\ UNCHANGED <<relStack, nodeStack>>

EndNode ==
  /\ CloseElement
  /\ inRecord /\ ~RecordEnd(Last(open).name)
  /\ relStack # Empty /\ nodeStack # Empty /\ Last(relStack) = Last(open).name
  /\ LET fr == Last(nodeStack)
         ra == Lookup(perRec, relStack, recAgg)
     IN  perRec' = Store(perRec, relStack,
           [count |-> ra.count + 1,
            exTexts |-> AddExample(ra.exTexts, fr.text, RecordCap),
            attrCounts |-> Plus(ra.attrCounts, AttrCounts(fr.attrs))])
  /\ relStack' = Front(relStack)
  /\ nodeStack' = Front(nodeStack)
  /\ UNCHANGED <<inRecord, rep>>

-----------------------------------------------------------------------------
(* io.EOF, a truncation and every syntax error, which isTruncErr takes for *)
(* one, return the report or the guess so far, and the stream may stop     *)
(* anywhere.  After another error of the reader, Discover returns the      *)
(* report so far all the same, beside the error, but GuessRecordTag the    *)
(* empty string: what follows says of Guess is not meant for that return.  *)
Return == UNCHANGED vars

Next ==
  \/ \E n \in Name : StartOutside(n)
  \/ StartRecord
  \/ \E n \in Name, attrs \in SUBSET Attr : StartNode(n, attrs)
  \/ \E c \in Chunk : CharData(c)
  \/ EndOutside
  \/ EndRecord
  \/ EndNode
  \/ Return

Spec == Init /\ [][Next]_vars

-----------------------------------------------------------------------------
(* StarterConfigFrom *)

WithText == {p \in DOMAIN rep.Paths : rep.Paths[p].ExampleTexts # Empty}

Fields == {p \in WithText : rep.Paths[p].MaxPerRecord <= 1}

Lists == WithText \ Fields

-----------------------------------------------------------------------------
(* Properties *)

(* The type invariant, with Discover's place in the document: inside a     *)
(* record it knows the elements that are open below the outermost one.     *)
TypeOK ==
  /\ tokens \in 0..MaxTokens
  /\ inRecord = UnderRecord
  /\ inRecord =>
       /\ nodeStack = SubSeq(open, Outermost + 1, Len(open))
       /\ relStack = [i \in DOMAIN nodeStack |-> nodeStack[i].name]
  /\ stack = [i \in DOMAIN open |-> open[i].name]
  /\ rep.TotalRecords \in Nat
  /\ \A p \in DOMAIN rep.Paths : Len(rep.Paths[p].ExampleTexts) <= ExampleCap
  /\ rootName \in Name \cup {NoName} /\ counts \in [Name -> Nat]

(* The elements of closed records that have this path *)
Matching(p) == {i \in DOMAIN elements : elements[i].path = p /\ elements[i].rec <= closed}

InRecord(p, r) == {i \in Matching(p) : elements[i].rec = r}

Seen == {elements[i].path : i \in {k \in DOMAIN elements : elements[k].rec <= closed}}

(* "It only merges data for fully-closed records; truncated tails do not   *)
(* affect counts": wherever the stream stops, the counts are those of the  *)
(* elements of the closed records and of nothing else, records nested in   *)
(* records included.                                                       *)
CountsOfClosedRecords ==
  /\ rep.TotalRecords = closed
  /\ DOMAIN rep.Paths = Seen
  /\ \A p \in Seen :
       /\ rep.Paths[p].TotalCount = Cardinality(Matching(p))
       /\ rep.Paths[p].RecordsWith = Cardinality({elements[i].rec : i \in Matching(p)})
       /\ \A a \in Attr : rep.Paths[p].AttrExamples[a] =
            Cardinality({i \in Matching(p) : a \in elements[i].attrs})

(* The examples of a path are its first different texts in the order of    *)
(* the document, although they were cut to the cap twice: in the record    *)
(* and in the report.                                                      *)
FirstTexts(p) ==
  {i \in Matching(p) : elements[i].text # Empty /\
     \A j \in Matching(p) : j < i => elements[j].text # elements[i].text}

ExamplesAreFirst ==
  \A p \in Seen :
    LET ex == rep.Paths[p].ExampleTexts
        n == Cardinality(FirstTexts(p))
    IN  /\ Len(ex) = IF n < ExampleCap THEN n ELSE ExampleCap
        /\ \A i \in FirstTexts(p) :
             LET k == Cardinality({j \in FirstTexts(p) : j <= i})
             IN  k <= ExampleCap => ex[k] = elements[i].text

(* The starter configuration loses no text: a path that any closed record  *)
(* holds twice is a list, however the later records look.                  *)
StarterKeepsRepeats ==
  \A p \in Seen : FirstTexts(p) # {} =>
    IF \E r \in 1..closed : Cardinality(InRecord(p, r)) > 1 THEN p \in Lists ELSE p \in Fields

(* The guess is worth giving to Discover: the child of the root counted    *)
(* most often has as many records in the report, but for one that is still *)
(* open, unless the root itself has the name.                              *)
GuessIsDiscovered ==
  RecordTag \in Guess /\ rootName # RecordTag =>
    /\ counts[RecordTag] <= rep.TotalRecords + (IF inRecord THEN 1 ELSE 0)
    /\ \A n \in Name : counts[n] <= counts[RecordTag]
-----------------------------------------------------------------------------
(* The inductive invariant behind GuessIsDiscovered; module                *)
(* XmlDiscoverProofs shows that it is one.                                 *)

(* Inside a record, the record is on GuessRecordTag's stack, with the path *)
(* that Discover is on above it. *)
Placed ==
  inRecord => \E i \in DOMAIN stack :
    stack[i] = RecordTag /\ Len(stack) = i + Len(relStack)

GuessKeepsUp ==
  rootName # RecordTag =>
    counts[RecordTag] <= rep.TotalRecords + (IF inRecord THEN 1 ELSE 0)

IInv ==
  /\ inRecord \in BOOLEAN /\ rootName \in Name \cup {NoName}
  /\ stack \in Seq(Name) /\ relStack \in Seq(Name)
  /\ counts \in [Name -> Nat] /\ rep.TotalRecords \in Nat
  /\ Placed
  /\ GuessKeepsUp

-----------------------------------------------------------------------------
(* The inductive invariant behind the counts, the examples and the starter *)
(* configuration: where Discover is, what it gathered of the open record,  *)
(* and what it reports of the closed ones.                                 *)

Node == [name : Name, attrs : SUBSET Attr, text : Seq(Chunk)]

Element == [rec : Nat \ {0}, path : Seq(Name), attrs : SUBSET Attr, text : Seq(Chunk)]

Located ==
  /\ open \in Seq(Node)
  /\ tokens \in 0..MaxTokens
  /\ stack = [i \in DOMAIN open |-> open[i].name]
  /\ inRecord = UnderRecord
  /\ inRecord =>
       /\ nodeStack = SubSeq(open, Outermost + 1, Len(open))
       /\ relStack = [i \in DOMAIN nodeStack |-> nodeStack[i].name]

(* Elements are recorded in the order of the document, the open record's   *)
(* last. *)
Recorded ==
  /\ closed \in Nat
  /\ elements \in Seq(Element)
  /\ \A i \in DOMAIN elements : elements[i].rec <= closed + (IF inRecord THEN 1 ELSE 0)
  /\ \A i, j \in DOMAIN elements : i < j => elements[i].rec <= elements[j].rec

Texts == [i \in DOMAIN elements |-> elements[i].text]

(* The positions of M whose text no earlier one of M has *)
Firsts(txt, M) ==
  {i \in M : txt[i] # Empty /\ \A j \in M : j < i => txt[j] # txt[i]}

(* The examples are taken at these positions, in order; a first text that  *)
(* is not among them came after the list was full. *)
Placing(txt, ex, M, at) ==
  /\ \A k \in 1..Len(ex) : ex[k] = txt[at[k]]
  /\ \A k, l \in 1..Len(ex) : k < l => at[k] < at[l]
  /\ \A i \in Firsts(txt, M) :
       \/ \E k \in 1..Len(ex) : at[k] = i
       \/ Len(ex) = ExampleCap /\ \A k \in 1..Len(ex) : at[k] < i

Listed(txt, ex, M) ==
  /\ ex \in Seq(Seq(Chunk)) /\ Len(ex) <= ExampleCap
  /\ \E at \in [1..Len(ex) -> Firsts(txt, M)] : Placing(txt, ex, M, at)

(* The elements of the open record *)
Current(p) == {i \in DOMAIN elements : elements[i].path = p /\ elements[i].rec = closed + 1}

With(M, a) == {i \in M : a \in elements[i].attrs}

Gathers(ra, p) ==
  /\ ra.count = Cardinality(Current(p))
  /\ \A a \in Attr : ra.attrCounts[a] = Cardinality(With(Current(p), a))
  /\ Listed(Texts, ra.exTexts, Current(p))

Gathered ==
  /\ ~inRecord => perRec = Empty
  /\ DOMAIN perRec = {elements[i].path : i \in {k \in DOMAIN elements : elements[k].rec = closed + 1}}
  /\ \A p \in DOMAIN perRec : Gathers(perRec[p], p)

Sums(ga, p) ==
  /\ ga.TotalCount = Cardinality(Matching(p))
  /\ ga.RecordsWith = Cardinality({elements[i].rec : i \in Matching(p)})
  /\ \A a \in Attr : ga.AttrExamples[a] = Cardinality(With(Matching(p), a))
  /\ ga.MaxPerRecord \in Nat
  /\ ga.MaxPerRecord > 1 <=> \E r \in 1..closed : Cardinality(InRecord(p, r)) > 1
  /\ Listed(Texts, ga.ExampleTexts, Matching(p))

Reported ==
  /\ rep.TotalRecords = closed
  /\ DOMAIN rep.Paths = Seen
  /\ \A p \in Seen : Sums(rep.Paths[p], p)

DiscoverInv == IInv /\ Located /\ Recorded /\ Gathered /\ Reported
=============================================================================
