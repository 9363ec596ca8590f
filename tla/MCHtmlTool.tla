----------------------------- MODULE MCHtmlTool -----------------------------
(***************************************************************************)
(* HtmlTool for TLC: small documents, mappings and hidden addresses.       *)
(***************************************************************************)
EXTENDS HtmlTool

NoScript == [found |-> FALSE, a |-> <<>>, classes |-> <<>>]

Address == <<"e", "@", "h", ".", "e", "r">>

Plain(rot) == [rot |-> rot, subst |-> NoSubst, noise |-> <<>>, place |-> 0,
               mailto |-> TRUE, entity |-> TRUE]

TextNode(sel, text) == [sel |-> sel, text |-> text, href |-> <<>>, script |-> NoScript]

LinkNode(text, href) == [sel |-> "link", text |-> text, href |-> href, script |-> NoScript]

ScriptNode(rot) == [sel |-> "script", text |-> <<"j">>, href |-> <<>>,
                    script |-> Script(Address, Plain(rot))]

Mapping(sel, extract, path, match, all) ==
  [selector |-> sel, extract |-> extract, attr |-> "href", path |-> path, match |-> match, all |-> all]

NoMatch == [kind |-> "none", keep |-> {}]

Bad == [kind |-> "bad", keep |-> {}]

Run(keep) == [kind |-> "run", keep |-> keep]

-----------------------------------------------------------------------------
(* Directories *)

RecA == <<TextNode("b", <<"x">>), TextNode("b", <<"y", "x">>)>>
RecB == <<TextNode("b", <<>>), ScriptNode(TRUE)>>
RecC == <<TextNode("c", <<"z">>)>>

StreamMappings == {
  <<Mapping("b", "text", "t", NoMatch, FALSE)>>,
  <<Mapping("c", "text", "t", NoMatch, FALSE), Mapping("b", "text", "t", Run({"x"}), FALSE)>>,
  <<Mapping("b", "text", "t", Run({"y"}), TRUE), Mapping("script", "js_email", "source_file", NoMatch, FALSE)>>,
  <<Mapping("b", "text", "t", NoMatch, TRUE), Mapping("c", "text", "u", Bad, FALSE)>>}

StreamDocs == {<<>>, <<RecA>>, <<RecC, RecA>>, <<RecA, RecB>>, <<RecB, RecC>>}

Entries == {[isDir |-> TRUE, doc |-> <<>>]} \cup {[isDir |-> FALSE, doc |-> d] : d \in StreamDocs}

StreamInputs ==
  {[op |-> "stream", dir |-> d, mf |-> [records |-> r, mappings |-> m]] :
     d \in UNION {[1..n -> Entries] : n \in {0, 2, 3}}, r \in BOOLEAN, m \in StreamMappings}

-----------------------------------------------------------------------------
(* Listings *)

CountTexts == {<<>>, <<"(", ")">>, <<"0">>, <<"2", "5">>, <<"2", " ", "5">>, <<"5", "1">>,
               <<"1", " ", "0", "3">>, <<"1", "0", "4">>, <<"2", "0", "0">>}

Category(count, href) == <<TextNode("count", count), LinkNode(<<"x">>, href)>>

Categories == {Category(c, h) : c \in CountTexts, h \in {<<>>, <<"cat">>}}

PagingMappings == {
  <<Mapping("count", "text", "count", m, all), Mapping("link", e, "href", NoMatch, FALSE)>> :
    m \in {NoMatch, Bad, Run({"0", "1", "2", "5"})}, e \in {"attr", "html"}, all \in BOOLEAN}

PagingInputs ==
  {[op |-> "paging", doc |-> <<a, b>>, mf |-> [records |-> r, mappings |-> m]] :
     a \in Categories, b \in Categories, r \in BOOLEAN, m \in PagingMappings}

-----------------------------------------------------------------------------
(* Hidden addresses *)

Hows == [rot : BOOLEAN, mailto : BOOLEAN, entity : BOOLEAN, place : {0, 1, 4},
         noise : {<<>>, <<"-">>, <<"-", "r">>, <<"u", "h">>, <<"u", "u">>},
         subst : {NoSubst, [u |-> "h"], [e |-> "h", h |-> "e"], [u |-> "e", r |-> "u", e |-> "r"]}]

DecodeInputs ==
  {[op |-> "decode", address |-> a, how |-> h] :
     a \in {Address, <<"h", "u", "@", "e", ".", "u", "h", ".", "e", "e">>}, h \in Hows}

MCInputs == StreamInputs \cup PagingInputs \cup DecodeInputs
=============================================================================
