---------------------------- MODULE EmailDecoder ----------------------------
(***************************************************************************)
(* DecodeEmailFromScript, internal/emailparser/js_email.go: an address     *)
(* hidden in a script, with directives in the class attributes that say    *)
(* how it was hidden.                                                      *)
(*                                                                         *)
(* A text is a sequence of symbols: letters, the marks of an address, and  *)
(* "&#64;" and "mailto:" taken as one symbol each, with their rot13.  A    *)
(* script is what the expressions find in it: the value of "var a", if     *)
(* there is one, and the class attributes.                                 *)
(***************************************************************************)
EXTENDS Naturals, Sequences, SequencesExt, TLC

(* The letters and what rot13 makes of them; it leaves marks alone. *)
Partner == [e |-> "r", r |-> "e", h |-> "u", u |-> "h"]

Letter == DOMAIN Partner

Rot13Of(symbol) ==
  CASE symbol \in Letter -> Partner[symbol]
    [] symbol = "mailto:" -> "znvygb:"
    [] symbol = "znvygb:" -> "mailto:"
    [] OTHER -> symbol

rot13(text) == [i \in DOMAIN text |-> Rot13Of(text[i])]

UnescapeString(text) == [i \in DOMAIN text |-> IF text[i] = "&#64;" THEN "@" ELSE text[i]]

TrimMailto(text) == IF text # <<>> /\ Head(text) = "mailto:" THEN Tail(text) ELSE text

(* strings.ReplaceAll(text, noise, ""): from the left, without overlap. *)
RemoveAll(text, noise) ==
  LET n == Len(noise)
      from[i \in 1..Len(text) + 1] ==
        IF i > Len(text) THEN <<>>
        ELSE IF i + n - 1 <= Len(text) /\ SubSeq(text, i, i + n - 1) = noise THEN from[i + n]
        ELSE <<text[i]>> \o from[i + 1]
  IN IF noise = <<>> THEN text ELSE from[1]

-----------------------------------------------------------------------------
(* A token of a class attribute: its length and, when it is the Base64 of  *)
(* a JSON object of strings, the object: whether "rot" is "it", the text   *)
(* of "rmv", <<>> if there is none, and the substitutions, hidden to real. *)
(* An object that hides two letters behind one is left out: the order of a *)
(* map would decide.                                                       *)
NoSubst == <<>>

(* The elements of a sequence at some of its places, in their order. *)
Kept(seq, places) ==
  FlattenSeq([i \in DOMAIN seq |-> IF i \in places THEN <<seq[i]>> ELSE <<>>])

(* The tokens that carry directives. *)
Carries(token) == token.json /\ token.length \in 8..80

Tokens(script) ==
  FlattenSeq([i \in DOMAIN script.classes |->
    LET class == script.classes[i]
    IN Kept(class.tokens, {k \in DOMAIN class.tokens : class.email /\ Carries(class.tokens[k])})])

Removals(script) ==
  LET rmvs == [i \in DOMAIN Tokens(script) |-> Tokens(script)[i].object.rmv]
  IN Kept(rmvs, {i \in DOMAIN rmvs : rmvs[i] # <<>>})

(* A later token replaces the substitution of an earlier one. *)
AddSubst(map, token) ==
  LET subst == token.object.subst
  IN [hid \in DOMAIN map \cup DOMAIN subst |-> IF hid \in DOMAIN subst THEN subst[hid] ELSE map[hid]]

SubstObfToReal(script) == FoldLeft(AddSubst, NoSubst, Tokens(script))

applyCharSubst(text, map) ==
  [i \in DOMAIN text |-> IF text[i] \in DOMAIN map THEN map[text[i]] ELSE text[i]]

Rot13Asked(script) == \E i \in DOMAIN Tokens(script) : Tokens(script)[i].object.rot

(* ^[a-zA-Z0-9._%+\-]+@[a-zA-Z0-9.\-]+\.[a-zA-Z]{2,}$ *)
looksLikeEmail(text) ==
  \E at, dot \in DOMAIN text :
    /\ text[at] = "@" /\ text[dot] = "."
    /\ 1 < at /\ at + 1 < dot /\ dot + 2 <= Len(text)
    /\ \A i \in DOMAIN text \ {at} : text[i] \in Letter \cup (IF i > dot THEN {} ELSE {"."})

-----------------------------------------------------------------------------
(* Fault: rot13 is undone before the substitutions. *)
RotFirst(text, script) ==
  applyCharSubst(IF Rot13Asked(script) THEN rot13(text) ELSE text, SubstObfToReal(script))

SubstFirst(text, script) ==
  LET substituted == applyCharSubst(text, SubstObfToReal(script))
  IN IF Rot13Asked(script) THEN rot13(substituted) ELSE substituted

(* The address in the script, <<>> for none. *)
DecodeEmailFromScript(script) ==
  LET clear   == TrimMailto(UnescapeString(script.a))
      cleaned == FoldLeft(RemoveAll, clear, Removals(script))
      email   == TrimMailto(SubstFirst(cleaned, script))
  IN IF script.found /\ looksLikeEmail(email) THEN email ELSE <<>>
=============================================================================
