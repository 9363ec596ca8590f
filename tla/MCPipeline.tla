----------------------------- MODULE MCPipeline ------------------------------
(***************************************************************************)
(* Pipeline for TLC: the sections of a pipeline are checked apart, so two  *)
(* of them vary at a time, and the others are as blank as they can be or   *)
(* without a fault.  Floats of two binary digits hold the integers up to   *)
(* four: 5 is none of them, 6 is.                                          *)
(***************************************************************************)
EXTENDS Pipeline

Texts == {<<>>, <<"a">>, <<"b", "a">>}

(* An int64, a []byte, a nil map, a schema.Contract, and the like inside.  *)
Others ==
  {[other |-> j] : j \in {[float |-> 4], [str |-> <<"a">>], [null |-> 0],
                          [object |-> "fields" :> [array |-> <<[object |-> <<>>]>>]]}}
  \cup {[array |-> <<[other |-> [str |-> <<"a">>]], [str |-> <<"b">>]>>],
        [array |-> <<[chan |-> 0]>>], [object |-> "a" :> [other |-> [str |-> <<"a">>]]]}

Values ==
  {[str |-> t] : t \in Texts} \cup {[bool |-> b] : b \in BOOLEAN} \cup {[int |-> n] : n \in {-5, -4, -1, 0, 2, 5, 6}}
  \cup {[float |-> h] : h \in {-3, -1, 0, 1, 4}}
  \cup {[object |-> <<>>], [object |-> "a" :> [str |-> <<"a">>] @@ "b" :> [float |-> 2]]}
  \cup {[array |-> <<>>], [array |-> <<[float |-> 2], [str |-> <<"a">>], [null |-> 0]>>]}
  \cup {[strings |-> <<<<"b">>, <<>>>>], [stringmap |-> "a" :> <<"a">>]}
  \cup {[null |-> 0], [chan |-> 0]} \cup Others

Bags(key) == {<<>>} \cup {key :> v : v \in Values}

Contracts ==
  Bags("contract")
  \cup {"contract" :> [object |-> "fields" :> f] :
          f \in {[null |-> 0], [array |-> <<[object |-> <<>>]>>], [str |-> <<"a">>],
                 [other |-> [array |-> <<[object |-> <<>>]>>]], [chan |-> 0]}}

Sources == [kind : {"", " ", "file", " file"}, path : {"", " ", "f"}]

Parsers ==
  [kind : {"", "csv", "xml", " csv"},
   options : Bags("header_map") \cup {h @@ f : h \in {<<>>, "header_map" :> [null |-> 0]}, f \in Bags("expected_fields")}]

Steps == [kind : {"", "validate"}, options : Contracts] \cup [kind : {" ", "dedup", "dedupe"}, options : {<<>>}]

Transforms == UNION {[1..n -> Steps] : n \in 0..1} \cup (Steps \X {[kind |-> "", options |-> "contract" :> [chan |-> 0]]})

Storages ==
  [kind : {"", "sqlite", " sqlite"},
   db : [dsn : {"", "d"}, table : {" ", "t"}, columns : {<<>>, <<"c">>}, auto_create_table : BOOLEAN]]

Runtimes ==
  [reader_workers : {-1, 1}, transform_workers : {-1}, loader_workers : {1}, channel_buffer : {-1, 0},
   batch_size : {-1, 0, 1}]

Good ==
  [job |-> "j", source |-> [kind |-> "file", path |-> "f"],
   parser |-> [kind |-> "csv", options |-> "expected_fields" :> [int |-> 2]],
   transform |-> <<[kind |-> "dedup", options |-> <<>>]>>,
   storage |-> [kind |-> "sqlite", db |-> [dsn |-> "d", table |-> "t", columns |-> <<"c">>, auto_create_table |-> TRUE]],
   runtime |-> [f \in NonNegative \cup {"batch_size"} |-> 1]]

Blanks ==
  [job |-> " ", source |-> [kind |-> "", path |-> ""], parser |-> [kind |-> "", options |-> <<>>],
   transform |-> <<[kind |-> "", options |-> "contract" :> [str |-> <<"a">>]]>>,
   storage |-> [kind |-> "", db |-> [dsn |-> "", table |-> "", columns |-> <<>>, auto_create_table |-> TRUE]],
   runtime |-> Good.runtime]

MCPipelines ==
  {Blanks}
  \cup {[Good EXCEPT !.source = s, !.parser = p] : s \in Sources, p \in Parsers}
  \cup {[Good EXCEPT !.job = j, !.transform = t] : j \in {"", "j"}, t \in Transforms}
  \cup {[Good EXCEPT !.storage = s, !.runtime = r] : s \in Storages, r \in Runtimes}
=============================================================================
