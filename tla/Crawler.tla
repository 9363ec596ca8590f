------------------------------- MODULE Crawler -------------------------------
(***************************************************************************)
(* The concurrent core of cmd/jget/main.go: run() and the goroutines it    *)
(* starts.  A producer hands the URLs, one by one and over an unbuffered   *)
(* channel, to a fixed set of workers; a worker fetches its URL until it   *)
(* is answered or its attempts are spent, sending a log record per attempt *)
(* over a bounded channel to a logger; the first worker whose URL fails    *)
(* sets `fatal' and cancels the context all of them share; main waits for  *)
(* the workers, closes the log channel, waits for the logger, and turns    *)
(* `fatal' into the exit code.                                             *)
(*                                                                         *)
(* A URL is its index in the list, so two equal lines of the file are two  *)
(* jobs, as they are for the code.  Time is abstracted: any timer may fire *)
(* whenever it is armed.  The flags are NumURLs and MaxAttempts; the       *)
(* channel's capacity, 512 in the code, is LogCap.                         *)
(***************************************************************************)
EXTENDS Naturals, Sequences, FiniteSets

CONSTANTS
  Worker,         \* the worker goroutines, one per --workers
  NumURLs,        \* how many URLs readURLs returned
  MaxAttempts,    \* --max-attempts
  LogCap,         \* capacity of logCh
  StdoutMayFail   \* whether a write to standard output can fail

ASSUME WorkerAssumption == IsFiniteSet(Worker) /\ Worker # {}
ASSUME NumURLsAssumption == NumURLs \in Nat \ {0}
ASSUME MaxAttemptsAssumption == MaxAttempts \in Nat \ {0}
ASSUME LogCapAssumption == LogCap \in Nat \ {0}
ASSUME StdoutAssumption == StdoutMayFail \in BOOLEAN

Job == 1..NumURLs
NoJob == 0

(* What an attempt came back with: a 2xx, a 404, any other status code, or *)
(* no response at all (StatusCode 0: refused, cancelled, timed out).       *)
Status == {"ok", "notFound", "other", "none"}

Outcome == {"pending", "loaded", "missing", "failed", "aborted"}

MainPC == {"start", "wait", "drain", "flush", "defer", "exited"}

EncoderState == {"ok", "failed"}

WorkerPC == {"idle", "select", "sleep", "request", "report", "backoff",
             "fatal", "cancel", "done"}

(* Where a worker is inside processURL. *)
Busy == {"sleep", "request", "report", "backoff"}

VARIABLES
  main,        \* where main is in run()
  code,        \* the value run() returns, "running" before its return statement
  producer,    \* "idle", "sending" or "closed" (it has run its close(jobs))
  next,        \* the URL the producer offers next
  pc,          \* where each worker is
  cur,         \* the URL each worker is processing
  attempt,     \* the loop variable of processURL
  status,      \* rec.StatusCode of the attempt a worker is about to report
  fatal,       \* the flag behind fatalMu
  cancelled,   \* ctx.Done() is closed
  logCh,       \* the log records in the channel
  logClosed,   \* main has closed the channel
  logger,      \* "idle", "running" or "ended"
  encoder,     \* the error json.Encoder keeps once a write has failed
  (* History: what the properties below look back on. *)
  result,      \* how each URL ended
  tries,       \* how many times doAttempt was called for each URL
  printed,     \* the attempt number on the last line printed for each URL
  saved,       \* the URLs whose body is in its output file
  late         \* the URLs handed to a worker after the cancellation

mainVars == <<main, code>>
logVars  == <<logCh, logClosed, logger, encoder, printed>>
jobVars  == <<cur, attempt, status, result, tries, saved, late>>
vars     == <<main, code, producer, next, pc, cur, attempt, status, fatal,
              cancelled, logCh, logClosed, logger, encoder, result, tries,
              printed, saved, late>>

-----------------------------------------------------------------------------
Init ==
  /\ main = "start" /\ code = "running"
  /\ producer = "idle" /\ next = 1
  /\ pc = [w \in Worker |-> "idle"]
  /\ cur = [w \in Worker |-> NoJob]
  /\ attempt = [w \in Worker |-> 1]
  /\ status = [w \in Worker |-> "none"]
  /\ fatal = FALSE /\ cancelled = FALSE
  /\ logCh = << >> /\ logClosed = FALSE /\ logger = "idle"
  /\ encoder = "ok"
  /\ result = [j \in Job |-> "pending"]
  /\ tries = [j \in Job |-> 0]
  /\ printed = [j \in Job |-> 0]
  /\ saved = {} /\ late = {}

GoTo(w, to) == pc' = [pc EXCEPT ![w] = to]

-----------------------------------------------------------------------------
(* main, before the goroutines *)

(* Bad flags, no output directory, an unreadable or empty list, no metrics *)
(* backend: run returns 2 and nothing has been started.                    *)
StartFail ==
  /\ main = "start"
  /\ main' = "exited" /\ code' = "2"
  /\ UNCHANGED <<producer, next, pc, fatal, cancelled, logVars, jobVars>>

(* The logger, the workers and the producer are started. *)
Start ==
  /\ main = "start"
  /\ main' = "wait"
  /\ producer' = "sending"
  /\ logger' = "running"
  /\ pc' = [w \in Worker |-> "select"]
  /\ UNCHANGED <<code, next, fatal, cancelled, logCh, logClosed, encoder, printed,
                 jobVars>>

-----------------------------------------------------------------------------
(* The producer, and the worker's select on ctx.Done() and jobs *)

(* Fault: the loop variable outlives the URL. *)
FirstAttemptKept(w) == attempt[w]

(* `for attempt := 1' at the top of processURL *)
FirstAttempt(w) == 1

(* The rendezvous on the unbuffered channel.  It stays possible after the  *)
(* cancellation: both selects then have two ready cases, and Go picks any. *)
Take(w) ==
  /\ main = "wait"
  /\ pc[w] = "select"
  /\ producer = "sending" /\ next \in Job
  /\ next' = next + 1
  /\ cur' = [cur EXCEPT ![w] = next]
  /\ attempt' = [attempt EXCEPT ![w] = FirstAttempt(w)]
  /\ late' = IF cancelled THEN late \cup {next} ELSE late
  /\ GoTo(w, "sleep")
  /\ UNCHANGED <<mainVars, producer, fatal, cancelled, logVars, status, result,
                 tries, saved>>

(* The producer ran out of URLs or saw ctx.Done(); either way it closes.   *)
(* Nothing waits for it: it can outlive the workers, not the process.      *)
ProducerDone ==
  /\ main # "exited"
  /\ producer = "sending"
  /\ next \notin Job \/ cancelled
  /\ producer' = "closed"
  /\ UNCHANGED <<mainVars, next, pc, fatal, cancelled, logVars, jobVars>>

(* case <-ctx.Done() *)
QuitCancelled(w) ==
  /\ pc[w] = "select" /\ cancelled
  /\ GoTo(w, "done")
  /\ UNCHANGED <<mainVars, producer, next, fatal, cancelled, logVars, jobVars>>

(* Fault: !ok continues the loop instead of leaving it. *)
QuitClosedSpin(w) ==
  /\ pc[w] = "select" /\ producer = "closed"
  /\ UNCHANGED vars

(* case rawURL, ok := <-jobs with !ok *)
QuitClosed(w) ==
  /\ pc[w] = "select" /\ producer = "closed"
  /\ GoTo(w, "done")
  /\ UNCHANGED <<mainVars, producer, next, fatal, cancelled, logVars, jobVars>>

-----------------------------------------------------------------------------
(* processURL: one attempt *)

(* Fault: the request is built without the context. *)
RequestAlwaysAllowed == TRUE

(* The request carries ctx, and the transport refuses one whose context is *)
(* done; a request already under way may still be answered.                *)
RequestAllowed == ~cancelled

(* sleeper.Sleep() is over and the request goes out. *)
StartRequest(w) ==
  /\ pc[w] = "sleep" /\ RequestAllowed
  /\ GoTo(w, "request")
  /\ UNCHANGED <<mainVars, producer, next, fatal, cancelled, logVars, jobVars>>

CountTry(w) == tries' = [tries EXCEPT ![cur[w]] = @ + 1]

(* sleeper.Sleep() is over and client.Do returns an error at once. *)
RequestRefused(w) ==
  /\ pc[w] = "sleep" /\ cancelled
  /\ status' = [status EXCEPT ![w] = "none"]
  /\ CountTry(w)
  /\ GoTo(w, "report")
  /\ UNCHANGED <<mainVars, producer, next, fatal, cancelled, logVars, cur,
                 attempt, result, saved, late>>

(* The attempt ends with status s.  The body of a 2xx is copied to its     *)
(* file, and `written' says whether that worked: the connection, the disk  *)
(* or the cancellation may cut it short.                                   *)
RequestDone(w, s, written) ==
  /\ pc[w] = "request"
  /\ status' = [status EXCEPT ![w] = s]
  /\ saved' = IF s = "ok" /\ written THEN saved \cup {cur[w]} ELSE saved
  /\ CountTry(w)
  /\ GoTo(w, "report")
  /\ UNCHANGED <<mainVars, producer, next, fatal, cancelled, logVars, cur,
                 attempt, result, late>>

-----------------------------------------------------------------------------
(* processURL: the log record, and what follows from the status.  The send *)
(* blocks while the channel is full, and panics once it is closed.         *)

SendLog(w) ==
  /\ Len(logCh) < LogCap /\ ~logClosed
  /\ logCh' = Append(logCh, [job |-> cur[w], attempt |-> attempt[w]])
  /\ UNCHANGED <<logClosed, logger, encoder, printed>>

(* processURL returns for this URL *)
Finish(w, r, to) ==
  /\ result' = [result EXCEPT ![cur[w]] = r]
  /\ cur' = [cur EXCEPT ![w] = NoJob]
  /\ GoTo(w, to)

(* Fault: one attempt too many. *)
LastAttemptOffByOne(w) == attempt[w] > MaxAttempts

(* Fault: one attempt too few. *)
LastAttemptEarly(w) == attempt[w] + 1 >= MaxAttempts

LastAttempt(w) == attempt[w] = MaxAttempts

(* 2xx, whatever rec.Error says of the body, and 404 are both fine. *)
ReportAnswered(w) ==
  /\ pc[w] = "report" /\ status[w] \in {"ok", "notFound"}
  /\ SendLog(w)
  /\ Finish(w, IF status[w] = "ok" THEN "loaded" ELSE "missing", "select")
  /\ UNCHANGED <<mainVars, producer, next, fatal, cancelled, attempt, status,
                 tries, saved, late>>

ReportExhausted(w) ==
  /\ pc[w] = "report" /\ status[w] \in {"other", "none"} /\ LastAttempt(w)
  /\ SendLog(w)
  /\ Finish(w, "failed", "fatal")
  /\ UNCHANGED <<mainVars, producer, next, fatal, cancelled, attempt, status,
                 tries, saved, late>>

NextAttempt(w) == attempt' = [attempt EXCEPT ![w] = @ + 1]

ReportRetry(w) ==
  /\ pc[w] = "report" /\ status[w] \in {"other", "none"} /\ ~LastAttempt(w)
  /\ SendLog(w)
  /\ GoTo(w, "backoff")
  /\ UNCHANGED <<mainVars, producer, next, fatal, cancelled, jobVars>>

(* nextRetryDelay may come out at or below zero (a zero base, or a shift   *)
(* that overflows) unless there was no response, for which it is at least  *)
(* ten seconds.  sleepContext then returns true without looking at ctx.    *)
ReportRetryAtOnce(w) ==
  /\ pc[w] = "report" /\ status[w] = "other" /\ ~LastAttempt(w)
  /\ SendLog(w)
  /\ NextAttempt(w)
  /\ GoTo(w, "sleep")
  /\ UNCHANGED <<mainVars, producer, next, fatal, cancelled, cur, status, result,
                 tries, saved, late>>

(* sleepContext: the timer, or the context; both may be ready. *)
BackoffOver(w) ==
  /\ pc[w] = "backoff"
  /\ NextAttempt(w)
  /\ GoTo(w, "sleep")
  /\ UNCHANGED <<mainVars, producer, next, fatal, cancelled, logVars, cur, status,
                 result, tries, saved, late>>

(* Fault: a cut-short wait is reported without a cancellation. *)
CutAlways == TRUE

BackoffCut == cancelled

BackoffAborted(w) ==
  /\ pc[w] = "backoff" /\ BackoffCut
  /\ Finish(w, "aborted", "fatal")
  /\ UNCHANGED <<mainVars, producer, next, fatal, cancelled, logVars, attempt,
                 status, tries, saved, late>>

-----------------------------------------------------------------------------
(* runWorker after processURL returned false: setFatal(), then cancel() *)

SetFatal(w) ==
  /\ pc[w] = "fatal"
  /\ fatal' = TRUE
  /\ GoTo(w, "cancel")
  /\ UNCHANGED <<mainVars, producer, next, cancelled, logVars, jobVars>>

Cancel(w) ==
  /\ pc[w] = "cancel"
  /\ cancelled' = TRUE
  /\ GoTo(w, "done")
  /\ UNCHANGED <<mainVars, producer, next, fatal, logVars, jobVars>>

-----------------------------------------------------------------------------
(* The logger: writeJSONLines ranges over the channel and drops the error  *)
(* of Encode, which json.Encoder keeps: it writes nothing after it.        *)

LogWrite ==
  /\ logger = "running" /\ logCh # << >>
  /\ encoder = "ok"
  /\ printed' = [printed EXCEPT ![Head(logCh).job] = Head(logCh).attempt]
  /\ logCh' = Tail(logCh)
  /\ UNCHANGED <<mainVars, producer, next, pc, fatal, cancelled, logClosed,
                 logger, encoder, jobVars>>

(* The write fails (no space where standard output goes), or one failed    *)
(* before: the record is taken from the channel all the same.              *)
LogLost ==
  /\ StdoutMayFail
  /\ logger = "running" /\ logCh # << >>
  /\ encoder' = "failed"
  /\ logCh' = Tail(logCh)
  /\ UNCHANGED <<mainVars, producer, next, pc, fatal, cancelled, logClosed,
                 logger, printed, jobVars>>

LogEnd ==
  /\ logger = "running" /\ logCh = << >> /\ logClosed
  /\ logger' = "ended"
  /\ UNCHANGED <<mainVars, producer, next, pc, fatal, cancelled, logCh, logClosed,
                 encoder, printed, jobVars>>

-----------------------------------------------------------------------------
(* main, after the goroutines *)

(* Fault: main waits for the producer only. *)
ProducerWaited == producer = "closed"

(* Fault: main waits for one worker only. *)
SomeWorkerDone == \E w \in Worker : pc[w] = "done"

(* wg.Wait() *)
WorkersDone == \A w \in Worker : pc[w] = "done"

(* wg.Wait(), close(logCh) *)
MainJoin ==
  /\ main = "wait" /\ WorkersDone
  /\ main' = "drain"
  /\ logClosed' = TRUE
  /\ UNCHANGED <<code, producer, next, pc, fatal, cancelled, logCh, logger, encoder,
                 printed, jobVars>>

(* Fault: main does not wait for the logger. *)
LogNotAwaited == TRUE

(* logWG.Wait() *)
LogDrained == logger = "ended"

MainDrained ==
  /\ main = "drain" /\ LogDrained
  /\ main' = "flush"
  /\ UNCHANGED <<code, producer, next, pc, fatal, cancelled, logVars, jobVars>>

(* The last metrics.Flush() is over; isFatal() decides the return value. *)
MainReturn ==
  /\ main = "flush"
  /\ main' = "defer"
  /\ code' = IF fatal THEN "1" ELSE "0"
  /\ UNCHANGED <<producer, next, pc, fatal, cancelled, logVars, jobVars>>

(* The deferred Flush and Close, then the deferred cancel(), then os.Exit. *)
MainExit ==
  /\ main = "defer"
  /\ main' = "exited"
  /\ cancelled' = TRUE
  /\ UNCHANGED <<code, producer, next, pc, fatal, logVars, jobVars>>

(* The process is gone. *)
Terminated == main = "exited" /\ UNCHANGED vars

-----------------------------------------------------------------------------
WorkerStep(w) ==
  \/ Take(w)
  \/ QuitCancelled(w)
  \/ QuitClosed(w)
  \/ StartRequest(w)
  \/ RequestRefused(w)
  \/ \E s \in Status, written \in BOOLEAN : RequestDone(w, s, written)
  \/ ReportAnswered(w)
  \/ ReportExhausted(w)
  \/ ReportRetry(w)
  \/ ReportRetryAtOnce(w)
  \/ BackoffOver(w)
  \/ BackoffAborted(w)
  \/ SetFatal(w)
  \/ Cancel(w)

LoggerStep == LogWrite \/ LogLost \/ LogEnd

MainStep == StartFail \/ Start \/ MainJoin \/ MainDrained \/ MainReturn \/ MainExit

Next ==
  \/ \E w \in Worker : WorkerStep(w)
  \/ ProducerDone
  \/ LoggerStep
  \/ MainStep
  \/ Terminated

Spec == Init /\ [][Next]_vars

(* Every goroutine that can run does: the Go scheduler is fair, a request  *)
(* ends by http.Client.Timeout (positive by default), and standard output  *)
(* is read.  Nothing is assumed of which case of a select is taken.        *)
Fairness ==
  /\ \A w \in Worker : WF_vars(WorkerStep(w))
  /\ WF_vars(ProducerDone)
  /\ WF_vars(LoggerStep)
  /\ WF_vars(MainStep)

FairSpec == Spec /\ Fairness

-----------------------------------------------------------------------------
(* Properties *)

LogTypeOK ==
  /\ logCh \in Seq([job : Job, attempt : 1..MaxAttempts])
  /\ Len(logCh) <= LogCap
  /\ logClosed \in BOOLEAN
  /\ logger \in {"idle", "running", "ended"}
  /\ encoder \in EncoderState
  /\ printed \in [Job -> 0..MaxAttempts]

(* The type invariant. *)
TypeOK ==
  /\ main \in MainPC
  /\ code \in {"running", "0", "1", "2"}
  /\ producer \in {"idle", "sending", "closed"}
  /\ next \in 1..(NumURLs + 1)
  /\ pc \in [Worker -> WorkerPC]
  /\ cur \in [Worker -> Job \cup {NoJob}]
  /\ \A w \in Worker : pc[w] \in Busy <=> cur[w] # NoJob
  /\ attempt \in [Worker -> 1..MaxAttempts]
  /\ status \in [Worker -> Status]
  /\ fatal \in BOOLEAN /\ cancelled \in BOOLEAN
  /\ LogTypeOK
  /\ result \in [Job -> Outcome]
  /\ tries \in [Job -> Nat]
  /\ saved \in SUBSET Job /\ late \in SUBSET Job

(* The exit codes documented above run(): 0 when every URL was answered    *)
(* with a 2xx or a 404, 1 when one spent its attempts, 2 when none was     *)
(* tried; whatever the workers, the cancellation and the producer were     *)
(* doing when the first URL failed.                                        *)
ExitCodeContract ==
  main = "exited" =>
    /\ code \in {"0", "1", "2"}
    /\ code = "0" => \A j \in Job : result[j] \in {"loaded", "missing"}
    /\ code = "1" => \E j \in Job : result[j] = "failed"
    /\ code = "2" => \A j \in Job : result[j] = "pending" /\ tries[j] = 0

(* main closes logCh only when no worker can still send on it (the send    *)
(* would panic), however late the worker reached processURL.               *)
NoSendOnClosedLog ==
  logClosed => \A w \in Worker : pc[w] \notin Busy

(* Every attempt has its line on standard output before the exit code of a *)
(* started run is decided, unless a write to standard output failed: the   *)
(* bounded channel, the closing and the logger that drains it lose none.   *)
(* After a failed write there is no line any more, whatever the exit code. *)
LogComplete ==
  main \in {"flush", "defer"} /\ encoder = "ok" => printed = tries

(* The lines of one URL come out as attempt 1, 2, 3, ..., none twice, none *)
(* missing in between, although the workers share the channel and a write  *)
(* may fail.                                                               *)
LogInOrder ==
  [][\A j \in Job : printed'[j] \in {printed[j], printed[j] + 1}]_vars

(* A URL is given up as failed only after MaxAttempts attempts, and never  *)
(* tried more often; one that was answered was tried at least once.        *)
RetryBudget ==
  \A j \in Job :
    /\ tries[j] <= MaxAttempts
    /\ result[j] = "failed" => tries[j] = MaxAttempts
    /\ result[j] \in {"loaded", "missing"} => tries[j] >= 1

(* "Fail fast": a URL handed over in the race with the cancellation never  *)
(* gets through, and there are fewer of them than workers, as each uses up *)
(* a worker and the one that cancelled takes none.                         *)
FailFast ==
  /\ \A j \in late : result[j] \notin {"loaded", "missing"}
  /\ Cardinality(late) < Cardinality(Worker)

(* "0: success", of URLs whose bodies are streamed to their output files:  *)
(* when the exit code is 0, every URL answered with a 2xx has its file.    *)
SuccessMeansSaved ==
  main = "exited" /\ code = "0" =>
    \A j \in Job : result[j] = "loaded" => j \in saved

(* The run ends, whatever the servers answer and wherever the cancellation *)
(* finds the workers, the producer and the logger.                         *)
Terminates == <>(main = "exited")

(* Seen from outside, a run is one of CrawlOutcome. *)
Outer == INSTANCE CrawlOutcome
           WITH exit <- IF main = "exited" THEN code ELSE "running"

(* Each URL gets one outcome and keeps it, abandons follow a failure, and  *)
(* the exit code agrees with the outcomes.                                 *)
ImplementsOutcome == Outer!Spec
-----------------------------------------------------------------------------
(* The inductive invariant behind ExitCodeContract, NoSendOnClosedLog,     *)
(* RetryBudget and ImplementsOutcome; module JgetProofs shows that it is    *)
(* one.                                                                    *)

AnyFailed == \E j \in Job : result[j] = "failed"

AllLoaded == \A j \in Job : result[j] \in {"loaded", "missing"}

(* Each URL is untouched, or held by one worker, or has its outcome. *)
Ownership ==
  /\ \A w \in Worker : cur[w] # NoJob => cur[w] < next /\ result[cur[w]] = "pending"
  /\ \A v, w \in Worker : cur[v] = cur[w] /\ cur[v] # NoJob => v = w
  /\ \A j \in Job : j >= next => result[j] = "pending" /\ tries[j] = 0
  /\ \A j \in Job : j < next /\ result[j] = "pending" => \E w \in Worker : cur[w] = j

(* A cancellation goes back to a URL that spent its attempts, and no URL   *)
(* is given up without `fatal' being set or about to be.                   *)
Blame ==
  /\ fatal => AnyFailed
  /\ cancelled /\ main # "exited" => fatal
  /\ \A w \in Worker : pc[w] \in {"fatal", "cancel"} => AnyFailed
  /\ \A w \in Worker : pc[w] = "cancel" => fatal
  /\ \A j \in Job : result[j] = "aborted" => AnyFailed
  /\ AnyFailed => fatal \/ \E w \in Worker : pc[w] = "fatal"

(* Without a cancellation the producer closes, and the workers leave, only *)
(* after the last URL was handed over.                                     *)
Supply ==
  main # "exited" /\ ~cancelled =>
    /\ \A w \in Worker : pc[w] = "done" => producer = "closed"
    /\ producer = "closed" => next = NumURLs + 1

(* What main has waited for at each point of run(). *)
Progress ==
  /\ main \in {"start", "wait", "drain", "flush"} => code = "running"
  /\ main = "start" => next = 1 /\ producer = "idle"
  /\ main \in {"start", "wait"} => ~logClosed
  /\ main \in {"drain", "flush", "defer"} => WorkersDone
  /\ main = "defer" => code \in {"0", "1"}
  /\ main \in {"defer", "exited"} /\ code = "0" => WorkersDone /\ AllLoaded
  /\ main \in {"defer", "exited"} /\ code = "1" => WorkersDone /\ AnyFailed
  /\ main = "exited" /\ code = "2" =>
       next = 1 /\ ~logClosed /\ \A w \in Worker : pc[w] = "idle"
  /\ main = "start" => \A w \in Worker : pc[w] = "idle"
  /\ main = "exited" => code # "running"

(* The attempts made agree with the loop variable. *)
Counting ==
  /\ RetryBudget
  /\ \A w \in Worker :
       /\ pc[w] \in {"sleep", "request"} => tries[cur[w]] = attempt[w] - 1
       /\ pc[w] \in {"report", "backoff"} => tries[cur[w]] = attempt[w]
       /\ pc[w] = "backoff" => attempt[w] < MaxAttempts

IInv ==
  /\ TypeOK
  /\ Counting
  /\ Ownership
  /\ Blame
  /\ Supply
  /\ Progress

-----------------------------------------------------------------------------
(* The inductive invariants behind LogComplete, LogInOrder and FailFast,   *)
(* on top of IInv.                                                         *)

(* The records a URL has sent so far. *)
Sent ==
  [j \in Job |-> IF \E w \in Worker : cur[w] = j /\ pc[w] = "report"
                 THEN tries[j] - 1 ELSE tries[j]]

(* The records of each URL that are in the channel were sent and not       *)
(* printed, and are in order.                                              *)
Lined(channel, out, sent) ==
  /\ \A i \in 1..Len(channel) :
       LET r == channel[i] IN out[r.job] < r.attempt /\ r.attempt <= sent[r.job]
  /\ \A i, k \in 1..Len(channel) :
       i < k /\ channel[i].job = channel[k].job => channel[i].attempt < channel[k].attempt
  /\ \A j \in Job : out[j] <= sent[j]

(* All that were sent and not printed are in the channel. *)
Complete(channel, out, sent) ==
  \A j \in Job, n \in 0..MaxAttempts :
    out[j] < n /\ n <= sent[j] =>
      \E i \in 1..Len(channel) : channel[i].job = j /\ channel[i].attempt = n

LogInv ==
  /\ Lined(logCh, printed, Sent)
  /\ encoder = "ok" => Complete(logCh, printed, Sent)
  /\ logger = "ended" => logCh = << >> /\ logClosed
  /\ main \in {"flush", "defer"} => logger = "ended"

(* The workers that hold a late URL, or left after a failed one. *)
Spent == {w \in Worker : pc[w] \in {"fatal", "cancel", "done"} \/ cur[w] \in late}

(* A late URL gets no answer, and its worker takes no other one. *)
LateInv ==
  /\ late # {} => cancelled
  /\ \A j \in late : j < next /\ result[j] \notin {"loaded", "missing"}
  /\ \A w \in Worker : cur[w] \in late =>
       pc[w] # "request" /\ (pc[w] = "report" => status[w] = "none")
  /\ cancelled => Cardinality(late) < Cardinality(Spent)
=============================================================================
