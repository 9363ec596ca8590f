-------------------------------- MODULE Jget --------------------------------
(***************************************************************************)
(* The whole of jget: the crawler and the Datadog backend it records into. *)
(* They share the context of run(), which the first failing worker cancels *)
(* and which the backend submits under; and main drives the backend to its *)
(* end: Flush, then the deferred Flush and Close, and only after them the  *)
(* deferred cancel().                                                      *)
(***************************************************************************)
EXTENDS Crawler, FiniteSetsExt

VARIABLES
  (* The backend; its context is `cancelled'. *)
  buf, snap, at, stopped, loopDone, owner, recorded, accepted, lost, failed, due,
  flushes,     \* calls of metrics.Flush main has begun
  (* History *)
  apiFailed    \* a submission the context allowed ended in an error

backendVars == <<buf, snap, at, stopped, loopDone, owner, recorded, accepted,
                 lost, failed, due>>
ownVars == <<flushes, apiFailed>>
jgetVars == <<vars, backendVars, ownVars>>

Backend == INSTANCE MetricsBackend
             WITH ctxDone <- cancelled, MaxSamples <- NumURLs * MaxAttempts

JgetInit ==
  /\ Init /\ Backend!Init
  /\ flushes = 0 /\ apiFailed = FALSE

(* The backend is made before the goroutines start and dies with run(). *)
Up == main \notin {"start", "exited"}

-----------------------------------------------------------------------------
(* Workers: an attempt is recorded before its log record is sent. *)

RecordHTTP == Backend!Observe("series")

Attempt(w) ==
  /\ \/ RequestRefused(w)
     \/ \E s \in Status, written \in BOOLEAN : RequestDone(w, s, written)
  /\ RecordHTTP
  /\ UNCHANGED ownVars

OtherWorkerStep(w) ==
  /\ \/ Take(w) \/ QuitCancelled(w) \/ QuitClosed(w) \/ StartRequest(w)
     \/ ReportAnswered(w) \/ ReportExhausted(w) \/ ReportRetry(w) \/ ReportRetryAtOnce(w)
     \/ BackoffOver(w) \/ BackoffAborted(w) \/ SetFatal(w) \/ Cancel(w)
  /\ UNCHANGED <<backendVars, ownVars>>

OtherStep ==
  /\ ProducerDone \/ LoggerStep \/ StartFail \/ Start \/ MainJoin \/ MainDrained
  /\ UNCHANGED <<backendVars, ownVars>>

-----------------------------------------------------------------------------
(* The backend's own steps, by its loop or on behalf of main *)

SubmissionFailed(f, took) ==
  /\ Up
  /\ Backend!SeriesFailed(f, took)
  /\ apiFailed' = TRUE
  /\ UNCHANGED <<vars, flushes>>

QuietBackendStep ==
  /\ Up
  /\ \/ \E f \in Backend!Flusher :
          \/ Backend!Snapshot(f) \/ Backend!Refused(f) \/ Backend!Send(f)
          \/ Backend!SeriesAccepted(f)
     \/ Backend!Tick \/ Backend!LoopStop
     \/ Backend!AwaitLoop \/ Backend!CloseReturns
  /\ UNCHANGED <<vars, ownVars>>

BackendStep ==
  \/ QuietBackendStep
  \/ \E f \in Backend!Flusher, took \in BOOLEAN : SubmissionFailed(f, took)

-----------------------------------------------------------------------------
(* main and the backend: Flush, return, Flush, Close, exit *)

OwnerIdle == at["owner"] = "out"

(* metrics.Flush() in the body of run, and in its deferred function *)
MainFlush ==
  /\ (main = "flush" /\ flushes = 0) \/ (main = "defer" /\ flushes = 1)
  /\ Backend!CallFlush
  /\ flushes' = flushes + 1
  /\ UNCHANGED <<vars, apiFailed>>

ReturnAfterFlush ==
  /\ flushes = 1 /\ OwnerIdle
  /\ MainReturn
  /\ UNCHANGED <<backendVars, ownVars>>

MainClose ==
  /\ main = "defer" /\ flushes = 2
  /\ Backend!CallClose
  /\ UNCHANGED <<vars, ownVars>>

(* Fault: the process exits without waiting for Close. *)
ExitAtOnce == flushes = 2

ExitAfterClose == owner = "closed"

ExitStep ==
  /\ ExitAfterClose
  /\ MainExit
  /\ UNCHANGED <<backendVars, ownVars>>

JgetMain == MainFlush \/ ReturnAfterFlush \/ MainClose \/ ExitStep

JgetDone == Terminated /\ UNCHANGED <<backendVars, ownVars>>

JgetNext ==
  \/ \E w \in Worker : Attempt(w) \/ OtherWorkerStep(w)
  \/ OtherStep
  \/ BackendStep
  \/ JgetMain
  \/ JgetDone

JgetSpec == JgetInit /\ [][JgetNext]_jgetVars

(* As in the two parts: goroutines that can run do, submissions end, and   *)
(* the loop's select does not pass over stopCh for ever.                   *)
JgetFairness ==
  /\ \A w \in Worker : WF_jgetVars(Attempt(w) \/ OtherWorkerStep(w))
  /\ WF_jgetVars(OtherStep /\ ProducerDone)
  /\ WF_jgetVars(OtherStep /\ LoggerStep)
  /\ WF_jgetVars(OtherStep /\ MainStep)
  /\ WF_jgetVars(JgetMain)
  /\ \A f \in Backend!Flusher : WF_jgetVars(BackendStep /\ Backend!FlushStep(f))
  /\ SF_jgetVars(QuietBackendStep /\ Backend!LoopStop)
  /\ WF_jgetVars(QuietBackendStep /\ Backend!AwaitLoop)
  /\ WF_jgetVars(QuietBackendStep /\ Backend!CloseReturns)

FairJgetSpec == JgetSpec /\ JgetFairness

-----------------------------------------------------------------------------
(* Properties *)

Samples(count) == count["series"]

Total(t, J) == MapThenSumSet(LAMBDA j : t[j], J)

Attempts == Total(tries, Job)

(* When the process exits nothing is left in the backend, and every        *)
(* attempt was recorded: no worker can record after the last snapshot, and *)
(* no flush, of the loop or of main, is cut off by the exit.               *)
NothingLeftBehind ==
  main = "exited" /\ code # "2" =>
    /\ buf = Backend!None
    /\ Samples(recorded) = Attempts
    /\ Samples(recorded) = Samples(accepted) + Samples(lost)

(* After a run that exits with 0 every attempt is in the metrics, unless a *)
(* submission failed for a reason of its own.                              *)
DeliveredOnSuccess ==
  main = "exited" /\ code = "0" /\ ~apiFailed => accepted = recorded

(* The same for every run that got as far as its tail flush: "a final tail *)
(* flush at shutdown".                                                     *)
TailDelivered ==
  main = "exited" /\ ~apiFailed => accepted = recorded

(* The whole process ends, its tail flushes and Close included. *)
JgetTerminates == <>(main = "exited")

-----------------------------------------------------------------------------
(* What NothingLeftBehind rests on, at every moment: each attempt has been *)
(* recorded, once.                                                         *)
Counted == Samples(recorded) = Attempts
=============================================================================
