------------------------------ MODULE HtmlTool ------------------------------
(***************************************************************************)
(* The calls of internal/extracthtml that write: StreamFromDir             *)
(* (dir_stream.go), which turns a directory of pages into one JSON array,  *)
(* and PrintPagingURLs (paging.go), which lists the pages of categories;   *)
(* and DecodeEmailFromScript on the scripts of a page that hides an        *)
(* address.  Every write and every read of a file may fail.                *)
(***************************************************************************)
EXTENDS Extractor, Durations, FiniteSets

CONSTANTS
  Inputs        \* the calls: records with an op and what it is given

VARIABLES
  input,        \* the call
  started,      \* the call is past its first step
  files,        \* names of the files not looked at yet, in their order
  recs,         \* objects of the current file or page not written yet
  comma,        \* an object was written: the next one needs a comma
  url,          \* the category whose pages are printed, and its count
  page,         \* the page to print next, 0 for none
  out,          \* what was written
  result,       \* "none", "ok" or "error"
  (* History *)
  skipped       \* the files that could not be read

vars == <<input, started, files, recs, comma, url, page, out, result, skipped>>

-----------------------------------------------------------------------------
(* What a call may be given *)

IsSequence(s) == Len(s) \in Nat /\ s = [i \in 1..Len(s) |-> s[i]]

IsMappingFile(mf) == mf.records \in BOOLEAN /\ IsSequence(mf.mappings)

(* Names are numbers, in the order of the names; a file has a document,    *)
(* the sequence of its records.                                            *)
IsDirectory(dir) ==
  /\ DOMAIN dir \subseteq Nat /\ IsFiniteSet(DOMAIN dir)
  /\ \A name \in DOMAIN dir : dir[name].isDir \in BOOLEAN /\ IsSequence(dir[name].doc)

(* What the page does to an address: letters stand for letters, and the    *)
(* noise has no symbol that decoding would change or trim before it looks  *)
(* for the noise.                                                          *)
Hides(how) ==
  /\ how.rot \in BOOLEAN /\ how.mailto \in BOOLEAN /\ how.entity \in BOOLEAN
  /\ how.place \in Nat
  /\ DOMAIN how.subst \subseteq Letter /\ how.subst \in [DOMAIN how.subst -> Letter]
  /\ IsSequence(how.noise)
  /\ \A i \in DOMAIN how.noise : how.noise[i] \notin {"&#64;", "mailto:"}

IsInput(i) ==
  \/ i.op = "stream" /\ IsDirectory(i.dir) /\ IsMappingFile(i.mf)
  \/ i.op = "paging" /\ IsSequence(i.doc) /\ IsMappingFile(i.mf)
  \/ i.op = "decode" /\ IsSequence(i.address) /\ looksLikeEmail(i.address) /\ Hides(i.how)

ASSUME InputsAssumption == \A i \in Inputs : IsInput(i)

-----------------------------------------------------------------------------
(* sort.Slice, by name *)
SortedNames(dir) ==
  CHOOSE names \in [1..Cardinality(DOMAIN dir) -> DOMAIN dir] :
    \A i, j \in DOMAIN names : i < j => names[i] < names[j]

Init ==
  /\ input \in Inputs
  /\ started = FALSE /\ files = <<>> /\ recs = <<>> /\ url = [of |-> <<>>, count |-> 0]
  /\ comma = FALSE /\ page = 0
  /\ out = <<>> /\ result = "none" /\ skipped = {}

Running(op) == input.op = op /\ result = "none"

Piece(text, what) == [text |-> text, what |-> what, whole |-> TRUE]

CommaWritten == out[Len(out)].text = ","

(* emit: a comma, unless it is there or the object is the first. *)
Emitted == IF comma /\ ~CommaWritten THEN Piece(",", <<>>) ELSE Piece("object", Head(recs))

(* The piece the call writes next, if it is about to write.                *)
Due ==
  CASE input.op = "stream" /\ ~started -> {Piece("[", <<>>)}
    [] input.op = "stream" /\ recs # <<>> -> {Emitted}
    [] input.op = "stream" /\ files = <<>> /\ started /\ recs = <<>> -> {Piece("]", <<>>)}
    [] page > 0 -> {Piece("line", <<url.of, page>>)}
    [] OTHER -> {}

Write(text) == \E piece \in Due : piece.text = text /\ out' = Append(out, piece)

(* Every error of a write ends the call; a part may have been written.     *)
WriteFails ==
  /\ result = "none"
  /\ \E piece \in Due : out' \in {out, Append(out, [piece EXCEPT !.whole = FALSE])}
  /\ result' = "error"
  /\ UNCHANGED <<input, started, files, recs, comma, url, page, skipped>>

-----------------------------------------------------------------------------
(* StreamFromDir *)

ReadDirFails ==
  /\ Running("stream") /\ ~started
  /\ result' = "error"
  /\ UNCHANGED <<input, started, files, recs, comma, url, page, out, skipped>>

Open ==
  /\ Running("stream") /\ Write("[")
  /\ started' = TRUE
  /\ files' = SortedNames(input.dir)
  /\ UNCHANGED <<input, recs, comma, url, page, result, skipped>>

WithSource(obj, name) == Put(obj, "source_file", [list |-> FALSE, values |-> <<<<name>>>>])

(* The objects of a document: one for each record, or one of the whole. *)
Objects(doc, mf) ==
  extractRecords(IF mf.records THEN doc ELSE <<DocumentRoot(doc)>>, mf.mappings)

(* Fault: "first" is declared inside the loop over the files. *)
FirstOfFile == FALSE

SomeWritten == comma

NextFile ==
  /\ Running("stream") /\ started /\ recs = <<>> /\ files # <<>>
  /\ files' = Tail(files)

(* A subdirectory has no document. *)
ReadFile ==
  /\ NextFile
  /\ LET entry == input.dir[Head(files)]
         objs == IF entry.isDir THEN <<>> ELSE Objects(entry.doc, input.mf)
     IN recs' = [i \in DOMAIN objs |-> WithSource(objs[i], Head(files))]
  /\ comma' = SomeWritten
  /\ UNCHANGED <<input, started, url, page, out, result, skipped>>

(* os.ReadFile or the parser failed *)
SkipFile ==
  /\ NextFile
  /\ ~input.dir[Head(files)].isDir
  /\ skipped' = skipped \cup {Head(files)}
  /\ UNCHANGED <<input, started, recs, comma, url, page, out, result>>

EmitComma ==
  /\ Running("stream") /\ Write(",")
  /\ UNCHANGED <<input, started, files, recs, comma, url, page, result, skipped>>

Encode ==
  /\ Running("stream") /\ Write("object")
  /\ comma' = TRUE
  /\ recs' = Tail(recs)
  /\ UNCHANGED <<input, started, files, url, page, result, skipped>>

Close ==
  /\ Running("stream") /\ Write("]")
  /\ result' = "ok"
  /\ UNCHANGED <<input, started, files, recs, comma, url, page, skipped>>

StreamFromDir ==
  ReadDirFails \/ Open \/ ReadFile \/ SkipFile \/ EmitComma \/ Encode \/ Close

-----------------------------------------------------------------------------
(* PrintPagingURLs *)

PerPage == 25

DigitOf == "0" :> 0 @@ "1" :> 1 @@ "2" :> 2 @@ "3" :> 3 @@ "4" :> 4 @@ "5" :> 5

(* A field that is a list counts as missing. *)
TextAt(obj, key) ==
  IF key \in DOMAIN obj /\ ~obj[key].list THEN Head(obj[key].values) ELSE NoValue

(* ParseCountAny: all the digits are joined, -1 for none of them. *)
Count(obj) ==
  LET digits == SelectSeq(TextAt(obj, "count"), LAMBDA d : d \in DOMAIN DigitOf)
  IN IF digits = <<>> THEN -1 ELSE FoldLeft(LAMBDA n, d : 10 * n + DigitOf[d], 0, digits)

(* strconv.Atoi has room for it. *)
CountFits(obj) == Count(obj) <= MaxDuration

Countable(obj) == Count(obj) \in 1..MaxDuration

(* Fault: a page that is not full is not counted. *)
FullPages(count) == count \div PerPage

TotalPages(count) == Wrap(count + PerPage - 1) \div PerPage

(* Without a record selector the page is the only record, and its errors   *)
(* are returned.                                                           *)
StartPaging ==
  /\ Running("paging") /\ ~started
  /\ started' = TRUE
  /\ recs' = Objects(input.doc, input.mf)
  /\ result' = IF input.mf.records \/ MappingsCompile(input.mf.mappings) THEN "none" ELSE "error"
  /\ UNCHANGED <<input, files, comma, url, page, out, skipped>>

Paging == Running("paging") /\ started /\ page = 0

(* The record has a URL: "href", or the page's own. *)
HasURL(obj) == ~input.mf.records \/ TextAt(obj, "href") # NoValue

URLOf(obj) == IF input.mf.records THEN TextAt(obj, "href") ELSE <<"list">>

TakeRecord ==
  /\ Paging /\ recs # <<>>
  /\ HasURL(Head(recs)) /\ Countable(Head(recs))
  /\ url' = [of |-> URLOf(Head(recs)), count |-> Count(Head(recs))]
  /\ page' = 1
  /\ recs' = Tail(recs)
  /\ UNCHANGED <<input, started, files, comma, out, result, skipped>>

PassRecord ==
  /\ Paging /\ recs # <<>>
  /\ ~(HasURL(Head(recs)) /\ Countable(Head(recs)))
  /\ recs' = Tail(recs)
  /\ result' = IF input.mf.records \/ CountFits(Head(recs)) THEN "none" ELSE "error"
  /\ UNCHANGED <<input, started, files, comma, url, page, out, skipped>>

(* The first line is the URL itself, the others end in "/page". *)
PrintPage ==
  /\ Running("paging") /\ Write("line")
  /\ page' = IF page < TotalPages(url.count) THEN page + 1 ELSE 0
  /\ UNCHANGED <<input, started, files, recs, comma, url, result, skipped>>

PagingDone ==
  /\ Paging /\ recs = <<>>
  /\ result' = "ok"
  /\ UNCHANGED <<input, started, files, recs, comma, url, page, out, skipped>>

PrintPagingURLs ==
  StartPaging \/ TakeRecord \/ PassRecord \/ PrintPage \/ PagingDone

-----------------------------------------------------------------------------
(* DecodeEmailFromScript, given the script of a page that hides            *)
(* input.address in the manner of input.how: rot13, letters put for        *)
(* others, noise at a place, in this order, each undone by a directive.    *)

Replaced(text, subst) ==
  [i \in DOMAIN text |-> IF \E hid \in DOMAIN subst : subst[hid] = text[i]
                         THEN CHOOSE hid \in DOMAIN subst : subst[hid] = text[i]
                         ELSE text[i]]

Rotated(address, how) ==
  LET text == IF how.mailto THEN <<"mailto:">> \o address ELSE address
  IN IF how.rot THEN rot13(text) ELSE text

Hidden(address, how) ==
  LET text == Replaced(Rotated(address, how), how.subst)
      cut  == IF how.place <= Len(text) THEN how.place ELSE Len(text)
      full == SubSeq(text, 1, cut) \o how.noise \o SubSeq(text, cut + 1, Len(text))
  IN [i \in DOMAIN full |-> IF full[i] = "@" /\ how.entity THEN "&#64;" ELSE full[i]]

Token(rot, rmv, subst) ==
  [length |-> 16, json |-> TRUE, object |-> [rot |-> rot, rmv |-> rmv, subst |-> subst]]

(* Among the classes of the element, and of others, are some that are no   *)
(* directives of the address.                                              *)
Script(address, how) ==
  [found |-> TRUE, a |-> Hidden(address, how),
   classes |-> << [email |-> FALSE, tokens |-> <<Token(TRUE, <<"e">>, [h |-> "e"])>>],
                  [email |-> TRUE, tokens |-> << [Token(TRUE, <<".">>, NoSubst) EXCEPT !.length = 5],
                                                 Token(FALSE, how.noise, how.subst),
                                                 Token(how.rot, <<>>, NoSubst) >>] >>]

Decode ==
  /\ Running("decode")
  /\ out' = <<Piece("email", DecodeEmailFromScript(Script(input.address, input.how)))>>
  /\ result' = "ok"
  /\ UNCHANGED <<input, started, files, recs, comma, url, page, skipped>>

-----------------------------------------------------------------------------
Returned == result # "none" /\ UNCHANGED vars

Next == StreamFromDir \/ PrintPagingURLs \/ Decode \/ WriteFails \/ Returned

Spec == Init /\ [][Next]_vars

-----------------------------------------------------------------------------
(* Properties *)

(* What the mappings say of a root, read off them: a key has the value of  *)
(* the last mapping that finds one, and "source_file" is the name.         *)
Valued(root, mappings) == {i \in DOMAIN mappings : Values(root, mappings[i]) # <<>>}

LastFor(root, mappings, path) ==
  CHOOSE i \in Valued(root, mappings) :
    mappings[i].path = path /\ \A j \in Valued(root, mappings) : mappings[j].path = path => j <= i

ObjectOf(root, mappings, name) ==
  [key \in {mappings[i].path : i \in Valued(root, mappings)} \cup {"source_file"} |->
     IF key = "source_file" THEN [list |-> FALSE, values |-> <<<<name>>>>]
     ELSE LET m == mappings[LastFor(root, mappings, key)]
          IN [list |-> m.all, values |-> Values(root, m)]]

(* The objects StreamFromDir owes for a file: of the roots that have       *)
(* something to say.                                                       *)
OwedFor(name) ==
  LET mappings == input.mf.mappings
      entry    == input.dir[name]
      roots    == IF entry.isDir \/ name \in skipped \/ ~MappingsCompile(mappings) THEN <<>>
                  ELSE IF input.mf.records THEN entry.doc ELSE <<DocumentRoot(entry.doc)>>
  IN Kept([r \in DOMAIN roots |-> ObjectOf(roots[r], mappings, name)],
          {r \in DOMAIN roots : Valued(roots[r], mappings) # {}})

(* Those of the files, in the order of their names. *)
OwedObjects ==
  LET names == SortedNames(input.dir) IN FlattenSeq([n \in DOMAIN names |-> OwedFor(names[n])])

(* The array of some objects: a bracket, the objects with a comma between  *)
(* any two, and a bracket.                                                 *)
Array(objects) ==
  LET last == IF objects = <<>> THEN 2 ELSE 2 * Len(objects) + 1
  IN [i \in 1..last |->
        IF i = 1 THEN Piece("[", <<>>)
        ELSE IF i = last THEN Piece("]", <<>>)
        ELSE IF i % 2 = 0 THEN Piece("object", objects[i \div 2])
        ELSE Piece(",", <<>>)]

WholeArray == Array(OwedObjects)

(* "A single JSON array, stable ordering by filename, unreadable files     *)
(* skipped": when StreamFromDir returns no error, every object of every    *)
(* file it could read is in the output, whole, in order, and the output is *)
(* one array.                                                              *)
StreamComplete == input.op = "stream" /\ result = "ok" => out = WholeArray

(* At every moment, and after an error, the output is a beginning of that  *)
(* array: no piece is written after one that failed, so a reader can tell  *)
(* a cut array from a finished one.                                        *)
OutputIsPrefix ==
  input.op = "stream" =>
    LET cut    == out # <<>> /\ ~out[Len(out)].whole
        intact == IF cut THEN Front(out) ELSE out
    IN /\ \A i \in DOMAIN intact : intact[i].whole
       /\ IsPrefix(intact, WholeArray)
       /\ result = "error" => intact # WholeArray

(* Item i of a category is on page (i - 1) div 25 + 1. *)
PagesWithItems(count) == {(i - 1) \div PerPage + 1 : i \in 1..count}

(* The pages printed for a category are those that hold its items, each    *)
(* once and in order, for every record with a URL and a count; unless      *)
(* rounding the count up overflows: then the first page only.              *)
PagesCover ==
  input.op = "paging" /\ result = "ok" =>
    LET records == Objects(input.doc, input.mf)
        last(count) == IF count + PerPage - 1 > MaxDuration THEN 1
                       ELSE Cardinality(PagesWithItems(count))
    IN out = FlattenSeq([k \in DOMAIN records |->
                [p \in 1..(IF HasURL(records[k]) /\ Countable(records[k])
                           THEN last(Count(records[k])) ELSE 0) |->
                   Piece("line", <<URLOf(records[k]), p>>)]])

(* What hides an address leaves it recoverable: no symbol that stands for  *)
(* another one stands for itself elsewhere, and the noise is foreign.      *)
Recoverable(address, how) ==
  LET shown == Rotated(address, how)
  IN /\ \A hid \in DOMAIN how.subst :
          hid \in {shown[i] : i \in DOMAIN shown} =>
            \E other \in DOMAIN how.subst : how.subst[other] = hid
     /\ \A i \in DOMAIN how.noise, j \in DOMAIN shown :
          how.noise[i] # Replaced(shown, how.subst)[j]

(* The directives are undone in the reverse of the order they hid the      *)
(* address in, whatever other classes the page has: the address comes out, *)
(* without "mailto:".                                                      *)
EmailRecovered ==
  input.op = "decode" /\ result = "ok" /\ Recoverable(input.address, input.how) =>
    out = <<Piece("email", input.address)>>
=============================================================================
