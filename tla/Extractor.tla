----------------------------- MODULE Extractor ------------------------------
(***************************************************************************)
(* internal/extracthtml/extractor.go: mappings applied to a document, or   *)
(* to each of its records.                                                 *)
(*                                                                         *)
(* A document is the sequence of its records, a record the sequence of its *)
(* nodes; a node has the selector that finds it, a text, the attribute     *)
(* "href" (<<>> for none) and what js_email sees of it.  Values are texts, *)
(* sequences of symbols; the blanks around them are left out.              *)
(***************************************************************************)
EXTENDS EmailDecoder

NoValue == <<>>

Find(root, selector) == SelectSeq(root, LAMBDA node : node.sel = selector)

(* Mapping.Match: nothing, a pattern that does not compile, or "([keep]+)",*)
(* whose group is the first run of symbols in keep.                        *)
Compiles(match) == match.kind # "bad"

FirstRun(value, keep) ==
  LET in(i) == value[i] \in keep
      first == CHOOSE i \in DOMAIN value : in(i) /\ \A j \in 1..i - 1 : ~in(j)
      stop  == {i \in first..Len(value) : ~in(i)} \cup {Len(value) + 1}
  IN IF \E i \in DOMAIN value : in(i)
     THEN SubSeq(value, first, (CHOOSE i \in stop : \A j \in stop : i <= j) - 1)
     ELSE NoValue

applyRegexFilter(value, match) ==
  IF match.kind = "none" THEN value ELSE FirstRun(value, match.keep)

extractOne(node, mapping) ==
  CASE mapping.extract = "text" -> node.text
    [] mapping.extract = "attr" -> IF mapping.attr = "href" THEN node.href ELSE NoValue
    [] mapping.extract = "js_email" -> DecodeEmailFromScript(node.script)
    [] OTHER -> NoValue

Filtered(node, mapping) == applyRegexFilter(extractOne(node, mapping), mapping.match)

(* What a mapping finds under a root: the values of all the nodes, or that *)
(* of the first one; nodes without a value are left out.                   *)
Values(root, mapping) ==
  LET nodes == Find(root, mapping.selector)
      taken == IF mapping.all \/ nodes = <<>> THEN nodes ELSE <<Head(nodes)>>
  IN SelectSeq([i \in DOMAIN taken |-> Filtered(taken[i], mapping)], LAMBDA v : v # NoValue)

-----------------------------------------------------------------------------
(* An object is a function from its keys to [list, values]. *)

Empty == <<>>

(* obj[key] = value *)
Put(obj, key, value) == [k \in DOMAIN obj \cup {key} |-> IF k = key THEN value ELSE obj[k]]

(* Fault: the first mapping of a key decides. *)
FirstKept(obj, path, list, values) ==
  IF values = <<>> \/ path \in DOMAIN obj THEN obj
  ELSE Put(obj, path, [list |-> list, values |-> values])

IfValued(obj, path, list, values) ==
  IF values = <<>> THEN obj ELSE Put(obj, path, [list |-> list, values |-> values])

MappingsCompile(mappings) == \A i \in DOMAIN mappings : Compiles(mappings[i].match)

(* parseSelection, when every pattern compiles; otherwise it returns an    *)
(* error, and nothing of the object.                                       *)
parseSelection(root, mappings) ==
  FoldLeft(LAMBDA obj, m : IfValued(obj, m.path, m.all, Values(root, m)), Empty, mappings)

(* extractRecords: a record that fails or is empty is skipped. *)
extractRecords(doc, mappings) ==
  LET objects == [i \in DOMAIN doc |-> parseSelection(doc[i], mappings)]
  IN IF MappingsCompile(mappings)
     THEN Kept(objects, {i \in DOMAIN doc : objects[i] # Empty})
     ELSE <<>>

(* The document as a root of its own: every node of every record. *)
DocumentRoot(doc) == FlattenSeq(doc)
=============================================================================
