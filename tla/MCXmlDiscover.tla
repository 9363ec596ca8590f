---------------------------- MODULE MCXmlDiscover ----------------------------
(***************************************************************************)
(* XmlDiscover for TLC: nested streams with one piece of text, of which    *)
(* two in a row are another text, and flat ones, of records under records  *)
(* only, which are long enough for the examples of several records.        *)
(* Nothing but its identity tells one piece of text from another.          *)
(***************************************************************************)
EXTENDS XmlDiscover, TLC

NestedTokens == 11

TextsMet == {open[i].text : i \in DOMAIN open} \cup {elements[i].text : i \in DOMAIN elements}

Nested ==
  /\ tokens <= NestedTokens
  /\ \E c \in Chunk : \A text \in TextsMet : ToSet(text) \subseteq {c}

Flat ==
  /\ rootName \in {NoName, RecordTag} /\ Len(open) <= 2
  /\ \A i \in DOMAIN open : open[i].name = RecordTag /\ open[i].attrs = {}
  /\ \A i \in DOMAIN elements : elements[i].path = <<RecordTag>> /\ elements[i].attrs = {}
  /\ \A text \in TextsMet : Len(text) <= 1

Bounded == Nested \/ Flat

Pieces == Permutations(Chunk)
=============================================================================
