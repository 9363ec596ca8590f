------------------------------ MODULE Pipeline -------------------------------
(***************************************************************************)
(* internal/config: the checks of ValidatePipeline and the typed reads of  *)
(* Options, seen by an author who validates a pipeline, repairs what the   *)
(* report calls an error, in any order, stores the pipeline as JSON, loads *)
(* it again, and validates it once more.                                   *)
(*                                                                         *)
(* A name is a string.  A value of Options is a record with one field, its *)
(* Go type: [str] (valid UTF-8, as runes), [bool], [int], [float] (finite, *)
(* in halves), [object], [array], [strings] and [stringmap] (a []string or *)
(* map[string]string set by a Go caller, not nil), [null], [chan] for what *)
(* json.Marshal refuses, or [other] for every other type it takes (int64,  *)
(* uint, []byte, a nil slice, a schema.Contract): no read knows these, and *)
(* nothing but the JSON they become tells them apart.                      *)
(***************************************************************************)
EXTENDS Integers, Sequences, SequencesExt, FiniteSets, TLC

CONSTANTS
  Pipelines,   \* the pipelines an author may begin with
  MaxExact     \* the integers up to this one are float64s, 2^53 in Go

ASSUME ExactAssumption == MaxExact \in Nat \ {0}

JSONTypes == {"str", "bool", "float", "object", "array", "null"}

GoTypes == JSONTypes \cup {"int", "strings", "stringmap", "other", "chan"}

OneField(value, types) ==
  \E type \in types \cap DOMAIN value : value = [t \in {type} |-> value[type]]

(* What an object or an array holds. *)
Inside(value) ==
  {value.object[k] : k \in IF "object" \in DOMAIN value THEN DOMAIN value.object ELSE {}}
  \cup {value.array[i] : i \in IF "array" \in DOMAIN value THEN DOMAIN value.array ELSE {}}

AreMaps(value) ==
  /\ "object" \in DOMAIN value => value.object = [k \in DOMAIN value.object |-> value.object[k]]
  /\ "array" \in DOMAIN value => value.array = [i \in DOMAIN value.array |-> value.array[i]]

(* A value json.Unmarshal makes. *)
IsJSON(value) ==
  /\ OneField(value, JSONTypes) /\ AreMaps(value)
  /\ \A v \in Inside(value) : DOMAIN v \cap {"other", "chan"} = {}

(* Inside an object or an array only strings are read: what is no string,  *)
(* and no JSON of its own, is [other] or [chan] there.                     *)
IsValue(value) ==
  /\ OneField(value, GoTypes) /\ AreMaps(value)
  /\ "int" \in DOMAIN value => value.int \in Int
  /\ "strings" \in DOMAIN value => value.strings \in Seq(Seq(STRING))
  /\ \A v \in Inside(value) \cup {value} : "other" \in DOMAIN v => IsJSON(v.other)

IsOptions(options) ==
  /\ options = [key \in DOMAIN options |-> options[key]]
  /\ \A key \in DOMAIN options : IsValue(options[key])

NonNegative == {"reader_workers", "transform_workers", "loader_workers", "channel_buffer"}

(* config.Pipeline, as far as the checks read it. *)
IsPipeline(p) ==
  LET s == p.source  ts == p.transform  db == p.storage.db
  IN /\ p = [job |-> p.job, source |-> [kind |-> s.kind, path |-> s.path],
             parser |-> [kind |-> p.parser.kind, options |-> p.parser.options],
             transform |-> ts,
             storage |-> [kind |-> p.storage.kind,
                          db |-> [dsn |-> db.dsn, table |-> db.table, columns |-> db.columns,
                                  auto_create_table |-> db.auto_create_table]],
             runtime |-> p.runtime]
     /\ Len(ts) \in Nat /\ ts = [i \in 1..Len(ts) |-> [kind |-> ts[i].kind, options |-> ts[i].options]]
     /\ \A options \in {p.parser.options} \cup {ts[i].options : i \in DOMAIN ts} : IsOptions(options)
     /\ db.auto_create_table \in BOOLEAN
     /\ p.runtime \in [NonNegative \cup {"batch_size"} -> Int]

ASSUME PipelinesAssumption == \A p \in Pipelines : IsPipeline(p)

VARIABLES
  pipeline,
  report,    \* what ValidatePipeline returned last, as a set
  todo,      \* the errors of the report that are not repaired yet
  edited,    \* the pipeline is not the one of the report
  (* History *)
  repaired,  \* the places of the errors repaired so far
  rounds     \* the reports repaired to the last error

vars == <<pipeline, report, todo, edited, repaired, rounds>>

-----------------------------------------------------------------------------
(* Options *)

Has(options, key, type) == key \in DOMAIN options /\ type \in DOMAIN options[key]

String(options, key, default) ==
  IF Has(options, key, "str") THEN options[key].str ELSE default

Bool(options, key, default) ==
  IF Has(options, key, "bool") THEN options[key].bool ELSE default

(* int(n) drops the fraction, towards zero; of a float64 that is no int it *)
(* is what the build makes of it, the same at every read.                  *)
Truncated(halves) == IF halves >= 0 THEN halves \div 2 ELSE -((-halves) \div 2)

(* Fault: the numbers of encoding/json are forgotten. *)
IntOnly(options, key, default) ==
  IF Has(options, key, "int") THEN options[key].int ELSE default

IntOption(options, key, default) ==
  CASE Has(options, key, "float") -> Truncated(options[key].float)
    [] Has(options, key, "int") -> options[key].int
    [] OTHER -> default

Rune(options, key, default) ==
  IF Has(options, key, "str") /\ options[key].str # <<>> THEN Head(options[key].str) ELSE default

(* The members of an object that are strings, as pairs. *)
StringMap(options, key) ==
  IF ~Has(options, key, "object") THEN {}
  ELSE LET object == options[key].object
       IN {<<k, object[k].str>> : k \in {k \in DOMAIN object : "str" \in DOMAIN object[k]}}

WithText(texts, x) == IF "str" \in DOMAIN x THEN Append(texts, x.str) ELSE texts

(* At most one slice: none for nil. *)
StringSlice(options, key) ==
  CASE Has(options, key, "array") ->
         {FoldLeft(WithText, <<>>, options[key].array)}
    [] Has(options, key, "strings") -> {options[key].strings}
    [] OTHER -> {}

AnyIsNil(options, key) == key \in DOMAIN options => Has(options, key, "null")

(* The float64 next to an integer, the even one of two: up to MaxExact     *)
(* every integer is one, up to its double every second, and so on, as far  *)
(* as the ints of 64 bits go.                                              *)
Unit(m) == Min({u \in {1, 2, 4, 8, 16, 32, 64, 128, 256, 512, 1024} : m <= MaxExact * u})

Nearest(m) ==
  LET u == Unit(m)
      q == m \div u
      up == 2 * (m % u) > u \/ (2 * (m % u) = u /\ q % 2 = 1)
  IN  u * (IF up THEN q + 1 ELSE q)

Float64(n) == IF n >= 0 THEN Nearest(n) ELSE -Nearest(-n)

Member(value) == IF "other" \in DOMAIN value THEN value.other ELSE value

(* encoding/json, there and back. *)
ThroughJSON(value) ==
  CASE "int" \in DOMAIN value -> [float |-> 2 * Float64(value.int)]
    [] "strings" \in DOMAIN value ->
         [array |-> [i \in DOMAIN value.strings |-> [str |-> value.strings[i]]]]
    [] "stringmap" \in DOMAIN value ->
         [object |-> [k \in DOMAIN value.stringmap |-> [str |-> value.stringmap[k]]]]
    [] "object" \in DOMAIN value -> [object |-> [k \in DOMAIN value.object |-> Member(value.object[k])]]
    [] "array" \in DOMAIN value -> [array |-> [i \in DOMAIN value.array |-> Member(value.array[i])]]
    [] OTHER -> Member(value)

(* json.Marshal takes it. *)
Marshals(value) == \A v \in Inside(value) \cup {value} : "chan" \notin DOMAIN v

AllMarshal(options) == \A key \in DOMAIN options : Marshals(options[key])

(* No options, and null, come back as an empty map. *)
UnmarshalJSON(options) == [key \in DOMAIN options |-> ThroughJSON(options[key])]

-----------------------------------------------------------------------------
(* ValidatePipeline *)

Blank(name) == name \in {"", " "}

Issue(severity, path, at) == [severity |-> severity, path |-> path, at |-> at]

When(condition, severity, path) ==
  IF condition THEN {Issue(severity, path, 0)} ELSE {}

validateSource(s) ==
  IF Blank(s.kind) THEN {Issue("error", "source.kind", 0)}
  ELSE When(s.kind # "file", "warning", "source.kind")
       \cup When(s.kind = "file" /\ Blank(s.path), "error", "source.file.path")

validateParser(p) ==
  IF Blank(p.kind) THEN {Issue("error", "parser.kind", 0)}
  ELSE When(p.kind \notin {"csv", "xml", "json"}, "warning", "parser.kind")
       \cup When(/\ p.kind = "csv"
                 /\ IntOption(p.options, "expected_fields", 0) = 0
                 /\ AnyIsNil(p.options, "header_map"), "warning", "parser.options")

(* json.Unmarshal into a schema.Contract, whose Fields are structures;     *)
(* null leaves it as it is.                                                *)
IsContract(c) ==
  \/ "null" \in DOMAIN c
  \/ /\ "object" \in DOMAIN c
     /\ \/ AnyIsNil(c.object, "fields")
        \/ /\ Has(c.object, "fields", "array")
           /\ \A i \in DOMAIN c.object["fields"].array :
                DOMAIN c.object["fields"].array[i] \subseteq {"object", "null"}

NoFields(c) ==
  "null" \in DOMAIN c \/ AnyIsNil(c.object, "fields") \/ c.object["fields"].array = <<>>

contractIssues(options, i) ==
  LET contract == ThroughJSON(options["contract"])
      issue(severity) == Issue(severity, "transform.options.contract", i)
  IN IF AnyIsNil(options, "contract") THEN {issue("warning")}
     ELSE IF ~Marshals(options["contract"]) \/ ~IsContract(contract) THEN {issue("error")}
     ELSE IF NoFields(contract) THEN {issue("warning")} ELSE {}

knownKinds == {"normalize", "coerce", "dedup", "require", "validate", "hash"}

validateTransform(t, i) ==
  IF Blank(t.kind) THEN {Issue("error", "transform.kind", i)}
  ELSE {Issue("warning", "transform.kind", i) : unknown \in {t.kind} \ knownKinds}
       \cup UNION {contractIssues(t.options, i) : k \in {t.kind} \cap {"validate"}}

validateTransforms(ts) ==
  IF ts = <<>> THEN {Issue("warning", "transform", 0)}
  ELSE UNION {validateTransform(ts[i], i) : i \in DOMAIN ts}

(* Fault: || for &&. *)
TableOrColumns(db) == db.auto_create_table \/ db.columns = <<>>

NothingToInfer(db) == db.auto_create_table /\ db.columns = <<>>

dbIssues(db) ==
  When(Blank(db.dsn), "error", "storage.db.dsn")
  \cup When(Blank(db.table), "error", "storage.db.table")
  \cup When(db.columns = <<>>, "error", "storage.db.columns")
  \cup When(NothingToInfer(db), "error", "storage.db.auto_create_table")

(* Fault: the first error ends the checks. *)
StorageToFirst(s) ==
  CASE Blank(s.kind) -> {Issue("error", "storage.kind", 0)}
    [] ~Blank(s.kind) /\ Blank(s.db.dsn) -> {Issue("error", "storage.db.dsn", 0)}
    [] OTHER -> dbIssues(s.db)

validateStorage(s) ==
  IF Blank(s.kind) THEN {Issue("error", "storage.kind", 0)}
  ELSE When(s.kind \notin {"postgres", "mysql", "mssql", "sqlite"}, "warning", "storage.kind")
       \cup dbIssues(s.db)

validateRuntime(r) ==
  When(r.batch_size <= 0, "warning", "batch_size")
  \cup UNION {When(r[field] < 0, "error", field) : field \in NonNegative}

ValidatePipeline(p) ==
  When(Blank(p.job), "error", "job")
  \cup validateSource(p.source) \cup validateParser(p.parser)
  \cup validateTransforms(p.transform) \cup validateStorage(p.storage)
  \cup validateRuntime(p.runtime)

Errors(issues) == {issue \in issues : issue.severity = "error"}

-----------------------------------------------------------------------------
(* The author *)

WithContract(options, contract) ==
  [key \in DOMAIN options \cup {"contract"} |->
     IF key = "contract" THEN contract ELSE options[key]]

(* Another value for the place an error names, one the error does not hold *)
(* of; a kind may be one the checks do not know.                           *)
Repairs(p, path, i) ==
  CASE path = "job" -> {[p EXCEPT !.job = "j"]}
    [] path = "source.kind" -> {[p EXCEPT !.source.kind = k] : k \in {"file", "s3"}}
    [] path = "source.file.path" -> {[p EXCEPT !.source.path = "f"]}
    [] path = "parser.kind" -> {[p EXCEPT !.parser.kind = k] : k \in {"csv", "tsv"}}
    [] path = "transform.kind" -> {[p EXCEPT !.transform[i].kind = k] : k \in {"validate", "trim"}}
    [] path = "transform.options.contract" ->
         {[p EXCEPT !.transform[i].options = WithContract(@, c)] :
            c \in {[null |-> 0], [object |-> [fields |-> [array |-> <<>>]]]}}
    [] path = "storage.kind" -> {[p EXCEPT !.storage.kind = k] : k \in {"sqlite", "redis"}}
    [] path = "storage.db.dsn" -> {[p EXCEPT !.storage.db.dsn = "d"]}
    [] path = "storage.db.table" -> {[p EXCEPT !.storage.db.table = "t"]}
    [] path = "storage.db.columns" -> {[p EXCEPT !.storage.db.columns = <<"c">>]}
    [] path = "storage.db.auto_create_table" -> {[p EXCEPT !.storage.db.auto_create_table = FALSE]}
    [] path \in NonNegative -> {[p EXCEPT !.runtime[path] = 0]}

Init ==
  /\ pipeline \in Pipelines
  /\ report = {} /\ todo = {} /\ edited = TRUE /\ repaired = {} /\ rounds = 0

Validate ==
  /\ edited
  /\ report' = ValidatePipeline(pipeline)
  /\ todo' = Errors(report')
  /\ edited' = FALSE
  /\ rounds' = IF report # {} /\ todo = {} THEN rounds + 1 ELSE rounds
  /\ UNCHANGED <<pipeline, repaired>>

Repair ==
  /\ \E issue \in todo :
       /\ pipeline' \in Repairs(pipeline, issue.path, issue.at)
       /\ todo' = todo \ {issue}
       /\ repaired' = repaired \cup {<<issue.path, issue.at>>}
  /\ edited' = TRUE
  /\ UNCHANGED <<report, rounds>>

OptionsOf(p) == {p.parser.options} \cup {p.transform[i].options : i \in DOMAIN p.transform}

Loaded(part) == [part EXCEPT !.options = UnmarshalJSON(@)]

Reloaded(p) ==
  [p EXCEPT !.parser = Loaded(@), !.transform = [i \in DOMAIN @ |-> Loaded(@[i])]]

(* The pipeline is stored and loaded, when json.Marshal takes it. *)
Stored(p) == \A options \in OptionsOf(p) : AllMarshal(options)

Reload ==
  /\ Stored(pipeline)
  /\ pipeline' = Reloaded(pipeline) /\ pipeline' # pipeline
  /\ edited' = TRUE
  /\ UNCHANGED <<report, todo, repaired, rounds>>

Accepted == ~edited /\ todo = {} /\ UNCHANGED vars

Next == Validate \/ Repair \/ Reload \/ Accepted

Spec == Init /\ [][Next]_vars

-----------------------------------------------------------------------------
(* Properties *)

(* A blank kind hides the errors of its section, and nothing else hides    *)
(* one: an author who repairs every error of two reports, some of a report *)
(* in between perhaps, gets a third one without errors.                    *)
RepairsConverge == rounds >= 2 /\ ~edited => Errors(report) = {}

(* What was repaired is not reported again, whichever other errors the     *)
(* author left for later: no repair of one place depends on another.       *)
RepairedStays ==
  \A issue \in Errors(report) : ~edited => <<issue.path, issue.at>> \notin repaired

ReadsAlike(before, after, key) ==
  /\ String(before, key, <<"d">>) = String(after, key, <<"d">>)
  /\ Bool(before, key, TRUE) = Bool(after, key, TRUE)
  /\ IntOption(before, key, -7) = IntOption(after, key, -7)
  /\ Rune(before, key, "d") = Rune(after, key, "d")
  /\ StringSlice(before, key) = StringSlice(after, key)
  /\ StringMap(before, key) \subseteq StringMap(after, key)
  /\ AnyIsNil(before, key) <=> AnyIsNil(after, key)

(* Of a type the reads know, and a number float64 has. *)
Portable(value) ==
  \/ "int" \in DOMAIN value /\ value.int \in -MaxExact..MaxExact
  \/ DOMAIN value \cap {"strings", "stringmap"} # {}
  \/ IsJSON(value)

(* The only options whose reads the report depends on. *)
CheckedKeys(p) == DOMAIN p.parser.options \cap {"expected_fields", "header_map"}

(* A pipeline built by a Go caller means the same once it is stored and    *)
(* loaded: the typed reads of an option give the same answers (StringMap   *)
(* may find more, for a map[string]string is none of its objects before),  *)
(* if the option is of a type the reads know and an int is within 2^53;    *)
(* the report stays what it was if the two options it reads are such; and  *)
(* no storing, whatever the options are, makes or takes back an error.     *)
ReloadMeansTheSame ==
  Stored(pipeline) =>
    /\ \A options \in OptionsOf(pipeline) : \A key \in DOMAIN options :
         Portable(options[key]) => ReadsAlike(options, UnmarshalJSON(options), key)
    /\ (\A key \in CheckedKeys(pipeline) : Portable(pipeline.parser.options[key])) =>
         ValidatePipeline(Reloaded(pipeline)) = ValidatePipeline(pipeline)
    /\ Errors(ValidatePipeline(Reloaded(pipeline))) = Errors(ValidatePipeline(pipeline))

-----------------------------------------------------------------------------
(* The inductive invariant behind RepairsConverge and RepairedStays.       *)

(* Errors no other error hides. *)
Open == {"job", "source.kind", "parser.kind", "transform.kind", "storage.kind"} \cup NonNegative

InTransform == {"transform.kind", "transform.options.contract"}

Paths ==
  Open \cup {"source.file.path", "transform.options.contract", "storage.db.dsn", "storage.db.table",
             "storage.db.columns", "storage.db.auto_create_table"}

Places(p) == {place \in Paths \X (0..Len(p.transform)) : place[2] > 0 <=> place[1] \in InTransform}

(* The contract of a transform is one the checks call an error. *)
BadContract(options) ==
  Issue("error", "transform.options.contract", 1) \in contractIssues(options, 1)

(* The value at a place is at fault, *)
Fault(p, place) ==
  LET path == place[1]  i == place[2]  db == p.storage.db
  IN \/ path = "job" /\ Blank(p.job)
     \/ path = "source.kind" /\ Blank(p.source.kind)
     \/ path = "source.file.path" /\ Blank(p.source.path)
     \/ path = "parser.kind" /\ Blank(p.parser.kind)
     \/ path = "transform.kind" /\ Blank(p.transform[i].kind)
     \/ path = "transform.options.contract" /\ BadContract(p.transform[i].options)
     \/ path = "storage.kind" /\ Blank(p.storage.kind)
     \/ path = "storage.db.dsn" /\ Blank(db.dsn)
     \/ path = "storage.db.table" /\ Blank(db.table)
     \/ path = "storage.db.columns" /\ db.columns = <<>>
     \/ path = "storage.db.auto_create_table" /\ NothingToInfer(db)
     \/ path \in NonNegative /\ p.runtime[path] < 0

(* and its section is of a kind that has the place. *)
Checked(p, place) ==
  LET path == place[1]  i == place[2]
  IN /\ path = "source.file.path" => p.source.kind = "file"
     /\ path = "transform.options.contract" => p.transform[i].kind = "validate"
     /\ path \in {"storage.db.dsn", "storage.db.table", "storage.db.columns",
                  "storage.db.auto_create_table"} => ~Blank(p.storage.kind)

Wrong(p) == {place \in Places(p) : Fault(p, place) /\ Checked(p, place)}

IsOpen(place) == place[1] \in Open

Due == {<<issue.path, issue.at>> : issue \in todo}

AuthorInv ==
  /\ IsPipeline(pipeline) /\ rounds \in Nat
  /\ todo \subseteq {Issue("error", place[1], place[2]) : place \in Places(pipeline)}
  /\ repaired \subseteq Places(pipeline)
  /\ ~edited => report = ValidatePipeline(pipeline)
  /\ \A place \in Due : IsOpen(place) => place \in Wrong(pipeline)
  /\ report # {} => \A place \in Wrong(pipeline) : IsOpen(place) => place \in Due
  /\ rounds >= 1 => \A place \in Wrong(pipeline) : ~IsOpen(place) /\ place \in Due
  /\ rounds >= 2 => Wrong(pipeline) = {}
  /\ \A place \in repaired : ~Fault(pipeline, place)
=============================================================================
