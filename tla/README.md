# A verification of jget

jget is a concurrent URL downloader with retries, per-attempt JSON log lines and
Datadog metrics, shipped in one Go repository with the helpers of the ETL tool
it grew out of.  This directory holds TLA+ models of its parts, TLC
configurations that check them on small instances, and TLAPS proofs of the
properties that matter most for instances of any size.

## 1. Inventory

| component | state | operations | depends on |
|---|---|---|---|
| **crawler** `cmd/jget/main.go` `run`, `runWorker`, `processURL`, `doAttempt`, `sleepContext`, `writeJSONLines` | the `jobs` and `logCh` channels, the shared context, `fatal`, each worker's URL and attempt | start, hand over a URL, attempt, log, back off, fail fast, drain, exit | HTTP server, output files, metrics backend |
| **output files** `writeBodyToFile` | temporary files and output files of one directory | create, copy, close, rename, remove | the file system, the crawler (several workers, several attempts, repeated URLs) |
| **retry delay** `nextRetryDelay`, `parseRetryAfter`, and `backoffDuration` in `datasource/httpds/client.go` | none (pure) | compute a wait from attempt, base, cap, status | - |
| **metrics facade** `internal/metrics/metrics.go` | the installed backend | `RecordHTTP`, `RecordStep`, `Flush`, ... | a backend |
| **Datadog backend** `internal/metrics/datadog/datadog.go` | buffers behind a mutex, the flush loop, stop/done channels | observe, set a gauge, flush (snapshot, read the clock, v2 submit, v1 submit), loop, close | the Datadog API, its clock, the context of `run` |
| **HTTP data source** `internal/datasource/httpds` | attempt counter, the open response | `Do` with retries, `FetchFirstBytes`, file names | HTTP server, caller's context |
| **bitmap** `internal/bitmap` | the words | `Add`, `Has` | - |
| **HTML extraction** `internal/extracthtml` | what was written, whether a comma is due | apply mappings, stream a directory as one array, print the pages of categories | file system, a writer, the e-mail decoder |
| **e-mail decoding** `internal/emailparser` | none (pure) | undo noise, substitutions and rot13 | - |
| **XML discovery** `internal/inspect/xml_discover.go` | per-path counters | `Discover`, `GuessRecordTag`, starter config | an XML stream that may be cut |
| **pipeline config** `internal/config` | the parsed pipeline | typed option access, JSON there and back, `ValidatePipeline` | - |
| **DDL** `internal/ddl` | - | build `CREATE TABLE` | - |
| **file sources** `internal/datasource/file` | - | list, open | file system |
| disabled code (`*.disabled`), the benchmark of packages that are not in the repository | - | - | - |

How they interact.  `run` creates the context that everything shares, the
Datadog backend (whose submissions carry that same context), one producer
goroutine, `--workers` worker goroutines, one logger goroutine.  The backend
has a goroutine of its own, the flush loop.  Workers receive URLs on the
unbuffered channel `jobs`, record metrics into the backend under its mutex,
send log records on the bounded channel `logCh`, and write output files in a
directory they all share.  The first worker whose URL fails sets `fatal` and
cancels the context; `run` turns `fatal` into the exit code.

What is hard: the first failure races with every other goroutine (a handover,
a request, a wait, a full log channel); the shutdown order of workers, log
channel, logger, metrics and context; flushes that overlap; a crash or an error
between two steps of a file write; attempt counters and shifted durations at
their limits; a gauge that overwrites its own value while an older one is being
submitted; a JSON array written piece by piece, any of which may fail; checks
that hide each other's errors.

Correctness, component by component: the exit code agrees with what happened to
every URL, the log is complete and ordered, the run ends (crawler); an output
file is never partial and temporary files do not accumulate (output files);
waits stay within the configured bounds (retry delay); every sample is
submitted at most once, none is lost while submissions succeed, close ends the
loop (backend); every response body is closed and the attempt budget is kept
(HTTP data source); aggregates are those of the records read before a cut (XML
discovery); the array is whole and in order, or visibly cut, and every page with
an item is printed (HTML extraction); what was hidden comes out (e-mail
decoding); a pipeline repaired as reported ends up without errors and means the
same after a reload (pipeline config).


## 2. Plan

Order: what jget does for its user comes first (exit code, log, files), then
what it reports of itself (metrics), then the arithmetic both rest on, then the
helpers of the ETL tool.

| step | module | models | composed with | status |
|---|---|---|---|---|
| 1 | `CrawlOutcome` | abstract: outcomes of the URLs and the exit code | - | done |
| 2 | `Crawler` | `run` and its goroutines | implements 1 | done, proved |
| 3 | `OutputStore`, `OutputFiles` | abstract directory; `writeBodyToFile` with faults and kills | second implements first | done, proved |
| 4 | `MetricsBackend` | the Datadog backend: counters, histograms, distributions | - | done, proved |
| 5 | `Jget` | crawler and backend in one process | 2 and 4 | done, proved |
| 6 | `Durations`, `Backoff` | the waits between attempts | justifies one action of 2 | done, proved |
| 7 | `HttpClient` | `Do`, `FetchFirstBytes` | uses 6's arithmetic | done, proved |
| 8 | `Gauges` | the gauges of the backend, the clock, what Datadog shows | extends and implements 4 | done, proved |
| 9 | `XmlDiscover` | `Discover`, `GuessRecordTag`, `StarterConfigFrom` over a stream that is cut | - | done, proved |
| 10 | `EmailDecoder`, `Extractor` | `DecodeEmailFromScript`; the mappings of `extractor.go` | second uses first | done, proved with 11 |
| 11 | `HtmlTool` | `StreamFromDir`, `PrintPagingURLs`, a write or a read failing anywhere | uses 10 and 6's arithmetic | done, proved |
| 12 | `Pipeline` | `ValidatePipeline`, `Options`, and an author who repairs and reloads | - | done, proved |

Every safety property of the runs is proved; the liveness properties are checked.
What would come next is outside the modules that exist: the hazards without a
property (a server or an intake that never answers), and the parts of section 8.

## 3. The modules and the code

**`CrawlOutcome`** is the promise: each URL gets one of four outcomes once
(`loaded`, `missing`, `failed`, `aborted`); nothing is abandoned before some URL
failed; exit code 0 needs all loaded or missing, 1 needs a failure, 2 needs that
nothing was attempted.

**`Crawler`** has one program counter per goroutine.
- main goes `start` (everything before the goroutines, or exit 2), `wait`
  (`wg.Wait`), `drain` (`close(logCh)`, `logWG.Wait`), `flush`, `defer`
  (the deferred calls), `exited`.
- a worker goes `select` (`runWorker`'s select), `sleep` (`sleeper.Sleep`),
  `request` (`client.Do` is under way), `report` (about to send the record and
  act on the status), `backoff` (`sleepContext`), `fatal` and `cancel` (the two
  calls after a failed URL), `done`.
- `Take` is the rendezvous on the unbuffered `jobs`, so producer and worker move
  together; it stays enabled after the cancellation, because a Go select with
  two ready cases picks either.  `SendLog` is a send on the bounded channel: it
  waits while the channel is full, and nothing cancels it.
- the logger takes a record from the channel and prints it (`LogWrite`), or the
  write fails (`LogLost`): `writeJSONLines` drops the error (`main.go:611`), and
  `json.Encoder` keeps it, so this record and all later ones are lost while
  everything else, the exit code included, goes on as before.  `encoder` is that
  kept error; `StdoutMayFail` says whether writes can fail.
- Status codes become `ok`, `notFound`, `other`, `none`; bodies, headers and
  times are left out.  `ReportRetryAtOnce` is the wait that is not positive,
  possible only after an answered attempt (`HotLoopNeedsOverflow` of
  `Backoff` is why).
- A job is a line of the list, so a URL listed twice is two jobs.

**`OutputStore`** and **`OutputFiles`**: `writeBodyToFile` as create, copy (piece
by piece), close, rename, remove, each able to fail; a kill at any point leaves
the directory as it is and starts jget again on it.  A body is a model value and
a file's contents the sequence of pieces written to it, so that a mix of two
bodies would be visible.  Writes that a power failure undoes are not modelled:
the code never calls `fsync`, and kills of the process keep what was written.

**`MetricsBackend`**: the buffers are two counters, `series` (what goes to v2) and
`points` (what goes to v1).  A flusher (the loop, or the owner) goes `out`,
`snapshot`, `v2`, `v2 sent`, `v1`, `v1 sent`.  A submission is two steps, so that
a cancellation may fall between them, and a failed one may have been taken in
all the same.  The owner goes `open`, `stopping`, `final`, `closed`.

**`Gauges`** extends `MetricsBackend`: `SetGauge` overwrites the value in the
buffers (and is a series of the snapshot once per window), `TakeSnapshot` takes
it along, `ReadClock` is `b.now()` outside the mutex, and a submission that is
taken in writes the value at the second it is dated with, where the last one
stays.  One gauge is modelled, whose n-th value is n, so that older and newer can
be told apart.  Counters, histograms and distributions have their samples
counted and not added up, which is all that losing or doubling one needs.

**`Jget`** extends `Crawler` and instantiates `MetricsBackend` with the crawler's
context for that of the backend.  An attempt's last step also records its sample
(`RecordHTTP` before the log record is sent), `main` at `flush` and `defer` drives
the backend: Flush, return, deferred Flush, Close, exit.

**`Durations`** is `time.Duration` with `Width` bits in place of 64; **`Backoff`**
computes `nextRetryDelay` (and `backoffDuration` for comparison) for each attempt
of a URL that keeps failing.  One tick is one second: the log record holds a Retry-After in whole
milliseconds, and what that cuts off the time until a date is below a tick.

**`HttpClient`** is a single call: a client is never written after `NewClient`, so
calls do not interact.  `Config` is chosen in `Init`; the server, the transport
and the caller's context act at any moment.  `FetchFirstBytes` refuses a size
that is not positive before any request, as it refuses an empty URL: both are
the one call that makes none.

**`XmlDiscover`** reads one stream of tokens with both `Discover` and
`GuessRecordTag`.  A token is an action, split by what `Discover` does with it:
`StartOutside`, `StartRecord`, `StartNode`, `CharData`, `EndOutside`,
`EndRecord`, `EndNode`.  `open` is the document (the elements that are open);
next to it stands the code's own idea of its place (`inRecord`, `relStack`,
`nodeStack`; `stack`, `rootName`).  The history variables `closed` and `elements`
are what the properties compare the report with.  A path is the sequence of its
names, a text the sequence of its pieces, and an attribute and its value are one
model value with a count.  The decoder runs with `Strict` off, so what it
delivers is well nested.  The stream may stop after any token: the end of the
input, a cut and every syntax error return what was gathered, so the properties,
which hold after every token, are properties of what is returned.  After an error
of the reader that is no cut, `Discover` returns its report with the error, and
`GuessRecordTag` the empty string: `Return` stops there as well, and what the
properties say of the guess is not meant for it.  `NoName` stands for the empty
string.

**`EmailDecoder`** and **`Extractor`** are functions.  A text is a sequence of
symbols, few enough to enumerate: four letters in two pairs of rot13, the marks
of an address, `&#64;` and `mailto:` as one symbol each.  What the regular
expressions of `js_email.go` find in a script, the value of `var a` and the class
tokens, is the decoder's input.  A document is a sequence of records, a record a
sequence of nodes, each with the selector that finds it: the choice of nodes is a
library's, what the mappings do with them is the code's.  A mapping's pattern is
none, one that does not compile, or a run of symbols.

**`HtmlTool`** is one call of `StreamFromDir`, `PrintPagingURLs` or
`DecodeEmailFromScript`, chosen in `Init` with its input.  `StreamFromDir` goes
`Open` (the bracket), `ReadFile` or `SkipFile` for each name in order,
`EmitComma` and `Encode` for each object, `Close`; `comma` is the code's `first`,
negated.  `WriteFails` may strike at every piece, which is then absent or cut.
`Width` bits stand for the 64 of `int`, so that rounding a count up can overflow
as it would next to the largest one.  What a call may be given is `IsInput`: names
are numbers in the order of the names, and the noise of a hidden address has none
of the two marks that decoding replaces or trims before it looks for the noise.

**`Pipeline`** has the checks of `validate.go` as functions to sets of issues, the
typed reads of `config.go` on values that carry their Go type, and `ThroughJSON`
for what `encoding/json` makes of them.  Its actions are those of an author:
`Validate`, `Repair` (any error of the last report, in any order), `Reload`.
`schema.Contract` is modelled from its use, its package is not in the repository.
A value of a type the reads do not know (`int64`, `uint`, `[]byte`, a nil slice, a
`schema.Contract` struct) is `other`, with the JSON it becomes; an `int` becomes
the `float64` next to it (`Float64`, exact up to `MaxExact`, which is 2^53 in Go).
So a reload may change what such an option reads as, as it does in the code:
`Options.Int` gives its default for `int64(5)` and 5 after the reload, `[]byte` is no
string before and one in base64 after, 2^53 + 1 becomes 2^53.
`ReloadMeansTheSame` claims the reads only for `Portable` options, and the warnings
only if the two options the checks read are portable; that errors neither appear
nor go away it claims for any.  Texts are valid UTF-8 (`json.Marshal` would
replace what is not) and floats finite.

Bounds that no code has: `MaxTokens`, `MaxDepth` and `MaxPieces`, the pieces of text
an element has (`XmlDiscover`), `MaxCalls`
and `MaxKills` (`OutputFiles`), `MaxSamples`
(`MetricsBackend`; `Jget` gives it the number of attempts that can be made, so it
never binds there), `MaxSets` and `MaxClock` (`Gauges`).  Names that stand for a plausible bug (`Fault:` in their
comments) are unused: each is what a property must be able to detect.

## 4. What the runs check

| run | instance | distinct states | shows |
|---|---|---|---|
| `crawler` | 2 workers, 3 URLs, 2 attempts, channel of 1, writes to standard output that may fail | 1,199,188 | the invariants of `Crawler`, that it ends, the order of the log, that it implements `CrawlOutcome` |
| `output_files` | 2 workers, 2 files, 2 bodies of 2 pieces, 3 temporary names, 3 calls, 1 kill | 175,216 | no partial file, no forgotten temporary file, `OutputStore` implemented |
| `backend` | 2 samples of each kind, 2 values of a gauge, 2 seconds | 536,572 | conservation of samples, Close delivers, ends and leaves nobody behind; the last value of a gauge is delivered, and hidden only when two flushes overlapped |
| `jget` | 2 workers, 2 URLs, 1 attempt, no failing writes | 116,706 | nothing left in the backend at exit, everything delivered by a run that exits 0, the process ends, its flushes and Close included |
| `backoff` | 8 bits, 5 bases, 4 caps, 12 attempts, Retry-After up to 200 | 2,640 | the waits double up to the cap, are a 429's own, and are skipped only after an overflow or by flags that are not positive |
| `http` | 4 bits, 4 retry counts, 3 backoffs, 2 timeouts | 7,716 | bodies, budget, cancellation, that a call ends |
| `xml` | nested streams: 2 names, 1 piece of text, texts of up to 2, 1 attribute, 11 tokens, depth 3; flat streams: records of 1 name, 3 texts (symmetric), 22 tokens; 2 examples of each path | 1,213,141 | the report is that of the closed records wherever the stream stops, the starter configuration keeps repeated texts, the guessed tag is found, the examples of a path are its first different texts in order |
| `html` | directories of up to 3 entries, 2 categories per listing, 2 addresses hidden in 480 ways, 8 bits | 125,588 | the array is whole or visibly cut, pages cover the items, addresses come out |
| `pipeline` | 5,550 pipelines, two sections varied at a time, integers exact up to 4 and present up to 6 | 486,093 | repairs converge and stay; a reload keeps the errors, and what portable options read as and the report of them |
| `crawler_saved`, `jget_tail`, `backoff_flag` | small | counterexamples | section 6 |

Why the bounds are enough to be interesting.  Two workers and three URLs make
one URL fail while another is in hand and a third is still offered; two attempts
give a first, a retried and a last one; a channel of one record is full as soon
as two workers report.  Two samples suffice for one in each of two overlapping
snapshots, and so do two values of a gauge; two seconds let two flushes share one
or be dated the wrong way round.  In `jget` one attempt per URL is enough: the
retries are `crawler`'s, and what only the whole can answer is how the first
failure, the tail flush and Close interleave.  Two writers of one path, with a temporary file left by a kill, make
every collision of names.  With 8 bits the shift overflows at the seventh or
eighth attempt, as it does at the 34th for 2 s in 64 bits; `max_attempts` of 12
goes well past it.  In `http` five retries overflow the 4-bit shift, so waits
with and without a timer both happen.  In `xml` eleven tokens hold a root with
two records of a repeated element, a record inside a record, a second root, and
a cut anywhere in them.  The flat streams (the constraint `Bounded` of `MCXmlDiscover` admits
the two kinds) are long enough that one record has three texts for two places, and that such a list,
already cut, meets that of another record: order, repetition and both cuts show.
The code keeps three examples; the theorem has any number.  In `html` a directory
of three has an empty, an unreadable or a foreign entry before, between and after
two with objects, which is where a comma goes wrong; the counts include 25, 51 and
the ones on both sides of the overflow; the substitutions include a chain and a
swap, and noise that overlaps itself or is made of letters.  In `pipeline` the
sections are validated apart from each other, so two that vary at a time
show every interplay there is, and one pipeline has them all blank at once; options
of each type the reads know, of others, and integers on both sides of `MaxExact`
go through a reload.  In `jget` writes to standard output do not fail: nothing the
backend does depends on one, and `crawler` has them.

## 5. Fairness

Goroutines that can run do (Go's scheduler is preemptive and fair), so each
worker, the producer, the logger and `main` have weak fairness, once each and not
per action: nothing says which case of a ready select is taken.
- A request ends: `--timeout` is positive by default and `http.Client.Timeout`
  covers the reading of the body.  With `-t 0` this is false, and so is
  `Terminates`; that is listed as a hazard without a property.
- Standard output is read: the logger would block otherwise, and then everyone.
  A write may fail at any record, but nothing obliges one to (`LogLost` has no
  fairness of its own; the logger as a whole has, and either step is progress).  A
  reader that closes its end of a pipe is no failed write but the end of the
  process (SIGPIPE), like a kill.
- A submission to Datadog ends: its client sets no timeout of its own; assumed,
  and listed as a hazard.
- `LoopStop` has strong fairness: after `stopCh` is closed the loop can go
  through its ticker case any finite number of times, and Go picks among ready
  cases at random, so it does not do so for ever.
- `Gauges` asks the same of the flushes with what they now also do, and nothing of
  the clock.
- In `HttpClient` nobody is obliged to answer or to cancel; only the client's
  own timeout, its timers and the reading of a body that is covered by the same
  timeout are.

## 6. Where code and comments disagree

Each is a run that must find its property violated.
- `crawler_saved`: exit code 0 although a body could not be written
  (`main.go:383` looks at the status only).
- `jget_tail`: on exit code 1 the context is already cancelled when the tail
  flush submits under it (`main.go:346`), so the samples since the last tick,
  the failure's own among them, are lost.
- `backoff_flag`: `--log_headers_on_429=false` also turns Retry-After off
  (`main.go:462`).

Met while modelling, and plain enough not to need a run: `main.go:26` promises a
line of JSON "for each URL attempt", while after a failed write there is none any
more and the exit code does not tell (`main.go:611`); an error of the v2
submission drops the distribution points of the same snapshot without a try
(`datadog.go:478`); `isTruncErr` (`xml_discover.go:277`) takes every syntax error
for a truncation, and `Discover` returns no error for one; `Flush` prints its
status lines to standard output (`datadog.go:476`, `488`) among the lines that
`main.go:26-31` promises to be JSONL; the comment of `Do` (`client.go:121-122`)
says an error means no response or a non-retryable status, while `client.go:178`
returns one for a retryable status; "clamped" (`main.go:509`) is not true of a
shift that overflows (`main.go:510`; 2 s do at the 34th attempt), which
`HotLoopNeedsOverflow` spells out; the zero value of `MaxRetries` is
documented as 3 (`client.go:26-29`) and taken as 0 (`client.go:77`, which agrees
with the field's own comment); `client.go:232` overflows as `main.go:510` does;
`bitmap.go:22` rounds the words up from `maxID` where ids up to and including
`maxID` are meant; `config.go:91` names the transform `dedupe`, `validate.go:182`
knows `dedup`, so the documented kind draws a warning; the example at
`config.go:23` has the storage under `postgres`, where the field is `db`;
`config.go:241-243` promises a non-nil map for a missing `options`, but
`encoding/json` does not call `UnmarshalJSON` for a key that is missing;
`StringMap` does not see a `map[string]string` set by a Go caller, while
`StringSlice` does see a `[]string` (the reason why `ReadsAlike` asks for inclusion
there); a mapping whose pattern does not compile makes `StreamFromDir` skip every
document and report success (`dir_stream.go:84`); `ParseCountAny` joins the groups
of digits it finds, so "1 of 25" counts 125 (`paging.go:147`); `IncCounter` writes the
status into the caller's map before it takes the mutex (`datadog.go:295-299`).

## 7. What is proved

For every value of the constants, under the named assumptions of each module
(finitely many workers and at least one, at least one URL, one attempt and one
slot in the channel; `Chunks` positive; `Absent` and `NoCall` unlike any value;
`MaxSamples` natural; `StdoutMayFail` a truth value, `MaxExact` positive; configurations of integers, at least two bits; pipelines that
have the fields and types of `config.Pipeline`; calls of the HTML tools whose
directories have finitely many entries, whose documents and lists of mappings are
sequences, and whose hidden addresses are addresses: `IsInput`).

| module | theorem | states |
|---|---|---|
| `JgetProofs` | `TypeCorrect`, `ExitCodes`, `NoSendOnClosed`, `Budget` | `TypeOK`, `ExitCodeContract`, `NoSendOnClosedLog`, `RetryBudget` of `Crawler` |
| | `LogWhole`, `LogOrdered`, `FailsFast` | `LogComplete`, `LogInOrder`, `FailFast` |
| | `Refinement` | `Spec => Outer!Spec`: `Crawler` implements `CrawlOutcome` |
| | `CrawlerPart`, `BackendPart` | `Jget` is a `Crawler` and a `MetricsBackend`: their theorems carry over |
| | `Delivered`, `NothingLeft` | `DeliveredOnSuccess`, `NothingLeftBehind` |
| `OutputFilesProofs` | `Atomic`, `NoForgottenTemps`, `Refinement` | no partial file, no forgotten temporary file, `OutputStore` implemented |
| `GaugesProofs` | `NothingLostOrDoubled`, `TailFlush`, `Quiet` | `Conservation`, `CloseDelivers`, `QuietAfterClose` of `MetricsBackend` |
| | `GaugesRefine` | with gauges the backend is still a `MetricsBackend`: its theorems carry over |
| | `LastValueDelivered`, `NewestIsShown` | `GaugeDelivered`, `NewestShown` |
| `HttpClientProofs` | `NoBodyLeak`, `Budget`, `PromptCancel` | `BodiesClosed`, `AttemptBudget`, `OneLateRequest` |
| `BackoffProofs` | `RetryAfterIsTheDelay`, `NoHotLoop`, `DelaysDouble` | `RetryAfterRespected`, `HotLoopNeedsOverflow`, `Doubling` |
| `XmlDiscoverProofs` | `GuessUseful` | `GuessIsDiscovered` |
| | `Types`, `CountsExact` | `TypeOK`, `CountsOfClosedRecords` |
| | `ExamplesInOrder`, `StarterComplete` | `ExamplesAreFirst`, `StarterKeepsRepeats` |
| `PipelineProofs` | `Converge`, `RepairsStay`, `ReloadsMeanTheSame` | `RepairsConverge`, `RepairedStays`, `ReloadMeansTheSame` |
| `HtmlToolProofs` | `StreamIsComplete`, `OutputIsAlwaysPrefix` | `StreamComplete`, `OutputIsPrefix` |
| | `PagesAlwaysCover`, `EmailIsRecovered` | `PagesCover`, `EmailRecovered` |

The arguments.
- *Crawler.*  The exit code is decided from `fatal` alone, so `IInv` ties that
  flag to the URLs.  `Ownership`: a URL is untouched, held by one worker, or has
  its outcome.  `Blame`: a cancellation, a set flag or an abandoned URL goes back
  to a failed one, and a failed URL has its flag set or a worker about to set
  it; it holds because `setFatal` comes before `cancel`.  `Supply`: without a
  cancellation the producer closes only after the last URL, and a worker leaves
  only after that.  `Progress`: what `main` has waited for at each point.
  `Counting`: the loop variable is the number of tries.  When the workers are
  done and the flag is not set, `Supply` and `Ownership` leave no URL without an
  outcome, and `Blame` no failed or abandoned one (lemma `CleanEnd`).  None of
  the parts is inductive alone.
- *The log and the race with the cancellation.*  `LogComplete` and `LogInOrder`
  need to know what the channel holds.  `Lined`: for each URL records that were sent
  and not printed, in order.  `Complete`: all of those.  A send puts the next one at
  the end, the logger takes the first, which is therefore the next to print; when
  the logger has ended the channel is empty and closed, so all that was sent is
  printed.  A failed write leaves `Lined` alone, but ends `Complete`; nothing is
  printed after it, so the order holds either way, and completeness while no write
  has failed.  For `FailFast`, `Spent` collects the
  workers that hold a URL picked up late or have left: each late URL adds one, and
  none ever leaves the set.  The worker that cancelled is in it from the start, so
  there are fewer late URLs than workers.
- *OutputFiles.*  `OwnTemp` (no two calls write one temporary file, by `O_EXCL`)
  and `Drafts` (its contents are pieces of the call's own body, and all of them
  from the close on) make the rename put a whole body in place.
- *MetricsBackend.*  `Conservation` is inductive with the types; `CloseDelivers`
  needs `Closing` (Close makes its last flush after the loop has ended) and
  `Taken` (what was observed before Close is out of the buffers once that flush
  has its snapshot).
- *Gauges.*  `GaugeIInv`: while nothing failed, the value last set is in the
  buffers, or it or a later one is in a snapshot or taken in (`Underway`); a
  snapshot with a value still has its series to submit; and once Close's own
  flush has its snapshot, the value due is out of the buffers.  Close returns when
  no flusher is left, so by then it was taken in.  `NewestShown` needs an order of
  values and of dates at once (`ShownIInv`): a flush reads the clock after it took
  its value, so what Datadog holds is dated no later than a flush under way, and
  while no two have a value at once (`InOrder`) the value in the buffers is newer
  than the one on its way, which is newer than all that were delivered.
- *Backoff.*  The powers of two are a recursive function here (`Pow2`), because the
  prover has no laws of `^`: that the function exists, doubles and grows is proved,
  and from it that a shift by a number of bits that fits is a product, that its
  wrapping leaves it alone, and that twice the product is the next one.  For
  `HotLoopNeedsOverflow` it is the other way round: a wait of nothing is neither
  the clamped product nor the minimum after a network error.
- *HttpClient.*  `Counting` ties the requests to the loop variable, and says that
  a late request was the last.
- *XmlDiscover.*  Two readers of one stream, each with its own stack.  `Placed`:
  inside a record, the record is on `GuessRecordTag`'s stack with `Discover`'s path
  above it.  So a child of the root that is counted inside a record has the root
  for that record, which `rootName # RecordTag` excludes; one counted outside
  opens a record, and `GuessKeepsUp` adds them up.  The report is proved against the
  history: `Located` says that Discover's stacks are the open elements below the
  outermost record, `Recorded` that elements come in the order of their records,
  `Gathered` what the open record's counters hold and `Reported` what the report
  does.  Counts are cardinalities of sets that grow by one element, or, when a
  record closes, by the disjoint set of its own.  Examples are harder, as they are
  cut to the cap twice: `Listed` has a position for each example, in order, and
  says that a first text without an example came after the list was full; merging a
  record's list into the report's is a fold, followed one example at a time.
- *Pipeline.*  Each section's errors are shown to be the places that are at fault
  (`Fault`) in a section of a kind that has them (`Checked`).  A repair takes the
  fault from its place and gives none to another, and it changes what is checked
  only where it repairs a kind; a reload changes neither, whatever the options are, as the one fault
  among them, a contract, is checked in the JSON it has.  So (`AuthorInv`) the
  errors no other hides (`Open`) are all due from the first report on, after one
  report repaired to the last error none of them is left and the rest is due, and
  after two nothing is.  `ReloadsMeanTheSame` goes through the Go types of a portable value:
  what JSON made comes back as itself, an `int` within `MaxExact` as exactly its
  float, and a `[]string` through the fold that reads it.
- *HtmlTool.*  What is owed is computed from the whole input at once, what is
  written one piece at a time, so each invariant says how far the call is.
  `StreamInv`: with `d` files behind the call and `w` objects written, `files` has
  the names after the first `d`, `recs` the objects after the first `w` of those
  the `d` files owe, `comma` is `w > 0`, and what is written whole is the first
  `2w` pieces of their array (or `2w + 1`, with the comma of the next object).  A file
  that turns out unreadable owed nothing before, because no name comes twice; what
  the files so far owe is a beginning of what all of them owe, so their pieces are
  a beginning of the whole array.  That a file yields what it owes (`FileObjects`)
  is a fold over the mappings, of which the last that finds something stays.
  `PagingInv` does the same for records and pages; that the pages are
  `TotalPages` many needs that a count which fits is wrapped by nothing, which are
  lemmas of `BackoffProofs`.  For `EmailRecovered`, the places of the noise are the
  only ones where `RemoveAll` finds it, as no symbol of it is in the address;
  `SubstObfToReal` inverts what was put for others, and the letters it leaves alone
  stand for themselves; rot13 undoes itself.
- *Jget.*  Each step is shown to be a step or a stutter of both parts; `Join` adds
  that `main` and the owner of the backend move together, that without `fatal`
  the context lives until the exit, and that every failed submission is a
  foreign one or a refused one.  `Counted`, that the samples recorded are the sum of
  the attempts over the URLs, is kept by the step that makes an attempt: the sum is
  a fold over the set of URLs, and one more at one URL is one more in the sum.

Where a definition is recursive, a function or a fold, its value is proved by the
least counterexample: if the set of lengths at which the claim fails is not empty,
it has a least element, which is not zero, and the claim at the length before it
gives the claim there.  The induction theorems of the library are not needed.

Only model-checked: liveness (`Terminates`, `CloseEnds`, `JgetTerminates`,
`CallEnds`), which needs reasoning about `ENABLED` that the prover does not have.
The inductive invariants (`IInv`, `LogInv`, `Counted`, `GaugeIInv`, `ShownIInv`,
`DiscoverInv`, `AuthorInv`, and `StreamInv` with `d` and `w` computed) were model-checked on the instances of section 4 before
they were proved; the runs have what they imply.

## 8. What is not modelled

- File names (`SafeFilenameFromURL`) and DDL are string formatting; file sources
  list a directory and open a file: conversions or I/O without a state to get
  wrong.
- The bitmap is two operations on an array of words that nothing in the repository
  uses.  Its one trap, the boundary at a multiple of 64, contradicts its comment
  in the open (section 6): a model would restate that line.
- In HTML extraction: loading a document or a file of mappings, and the debug
  dump.
- In the metrics facade: the recorders `jget` does not call.
- The `.disabled` files are not compiled; `internal/schema` and
  `internal/parser/xml` are imported by name and are not in the repository.
- In the modules that exist: the contents of log records and metrics (names,
  labels, percentiles), the politeness sleep's length, DNS and connection reuse,
  and signals other than a kill (the code installs no handler).

## 9. Running it

`tlc -config <run>.cfg <module>` with the module PROJECT.json names for the run;
`tlapm <Module>Proofs.tla` for the proofs.
