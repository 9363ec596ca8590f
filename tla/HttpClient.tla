----------------------------- MODULE HttpClient -----------------------------
(***************************************************************************)
(* One call of the HTTP data source: NewClient, Do and FetchFirstBytes of  *)
(* internal/datasource/httpds, with the context that may be cancelled at   *)
(* any moment.  Do retries a 429, a 5xx and a failed request, closing the  *)
(* body of every answer it does not return; its caller, FetchFirstBytes,   *)
(* reads and closes the body of the one it returns.  A client is never     *)
(* written after NewClient, so calls do not touch each other.              *)
(***************************************************************************)
EXTENDS Durations

CONSTANTS
  Retries,        \* values tried for Config.MaxRetries
  Backoffs,       \* values tried for InitialBackoff and MaxBackoff
  Timeouts        \* values tried for Config.Timeout

ASSUME ConfigAssumption == Retries \cup Backoffs \cup Timeouts \subseteq Int

(* The arguments of a call: usable, some that are refused at once (an      *)
(* empty method or URL by Do, n <= 0 by FetchFirstBytes), a URL that       *)
(* NewRequestWithContext refuses. *)
Requests == {"good", "empty", "malformed"}

(* What a request comes back with: a status that isRetryableStatus accepts *)
(* or one that it does not, or an error of the transport. *)
Answers == {"retryable", "final", "error"}

Errors == {"invalid", "cancelled", "transport", "status"}

VARIABLES
  config,         \* the Config given to NewClient
  request,        \* the arguments of the call
  ctxDone,        \* the context of the call is cancelled
  pc,             \* where the call is
  attempt,        \* Do's loop variable
  answer,         \* resp and err of the last request, "none" before the first
  result,         \* what Do returns: "response" or one of Errors
  bodies,         \* bodies received and not closed
  requests,       \* requests sent
  late            \* those sent once the context was cancelled

callVars == <<pc, attempt, answer, result, bodies, requests, late>>
vars == <<config, request, ctxDone, callVars>>

-----------------------------------------------------------------------------
(* NewClient *)

Positive(v, default) == IF v <= 0 THEN default ELSE v

(* 30 s, 200 ms and 5 s, scaled to the small width of the model *)
DefaultTimeout == 30
DefaultInitial == 1
DefaultMax == 5

(* Fault: a timeout of zero is left as it is, and means none. *)
TimeoutAsGiven == config.timeout

Timeout == Positive(config.timeout, DefaultTimeout)

maxRetries == IF config.retries < 0 THEN 0 ELSE config.retries

(* Fault: the retries are taken for the attempts, plus one too many. *)
OneAttemptMore == maxRetries + 2

attempts == maxRetries + 1

(* backoffDuration *)
Backoff(n) ==
  LET initial == Positive(config.initial, DefaultInitial)
      max == Positive(config.max, DefaultMax)
  IN  Clamp(IF n = 0 THEN initial ELSE Shl(initial, n), max)

-----------------------------------------------------------------------------
(* The call *)

Init ==
  /\ config \in [retries : Retries, initial : Backoffs, max : Backoffs, timeout : Timeouts]
  /\ request \in Requests
  /\ ctxDone \in BOOLEAN
  /\ pc = "start" /\ attempt = 0 /\ answer = "none" /\ result = "none"
  /\ bodies = 0 /\ requests = 0 /\ late = 0

Return(r) == pc' = "done" /\ result' = r

(* The method and the URL are checked before the context is. *)
Start ==
  /\ pc = "start"
  /\ IF request = "empty" THEN Return("invalid") ELSE pc' = "check" /\ UNCHANGED result
  /\ UNCHANGED <<config, request, ctxDone, attempt, answer, bodies, requests, late>>

(* Fault: the loop starts an attempt without looking at the context. *)
ContextUnchecked == FALSE

ContextSeenDone == ctxDone

(* if err := ctx.Err(); err != nil *)
Check ==
  /\ pc = "check"
  /\ IF ContextSeenDone THEN Return("cancelled")
     ELSE IF request = "malformed" THEN Return("invalid")
     ELSE pc' = "send" /\ UNCHANGED result
  /\ UNCHANGED <<config, request, ctxDone, attempt, answer, bodies, requests, late>>

(* c.httpClient.Do(req) *)
Send ==
  /\ pc = "send"
  /\ pc' = "flight"
  /\ requests' = requests + 1
  /\ late' = IF ctxDone THEN late + 1 ELSE late
  /\ UNCHANGED <<config, request, ctxDone, attempt, answer, result, bodies>>

Arrive(a) ==
  /\ pc = "flight"
  /\ pc' = "answered"
  /\ answer' = a
  /\ bodies' = IF a = "error" THEN bodies ELSE bodies + 1
  /\ UNCHANGED <<config, request, ctxDone, attempt, result, requests, late>>

(* The server answers or the connection fails; once the context is         *)
(* cancelled an answer may still win the race. *)
Respond == \E a \in Answers : Arrive(a)

(* The client's timeout, or the context of the request, ends it. *)
GiveUp == (Timeout > 0 \/ ctxDone) /\ Arrive("error")

(* A status that is not retried: the response is the caller's. *)
Final ==
  /\ pc = "answered" /\ answer = "final"
  /\ pc' = "reading"
  /\ result' = "response"
  /\ UNCHANGED <<config, request, ctxDone, attempt, answer, bodies, requests, late>>

(* Fault: the body of an answer that is retried is left open. *)
LeftOpen == bodies

Closed == bodies - 1

(* A retryable status closes the body, a failed request has none; then     *)
(* the last attempt returns and the others wait. *)
Fail ==
  /\ pc = "answered" /\ answer # "final"
  /\ bodies' = IF answer = "retryable" THEN Closed ELSE bodies
  /\ IF attempt + 1 >= attempts
     THEN Return(IF answer = "retryable" THEN "status" ELSE "transport")
     ELSE pc' = "wait" /\ UNCHANGED result
  /\ UNCHANGED <<config, request, ctxDone, attempt, answer, requests, late>>

(* sleepWithContext: the timer fires, or there is none and the context is  *)
(* alive.  With both channels ready select takes either. *)
WaitOver ==
  /\ pc = "wait"
  /\ Backoff(attempt) > 0 \/ ~ctxDone
  /\ attempt' = attempt + 1
  /\ pc' = "check"
  /\ UNCHANGED <<config, request, ctxDone, answer, result, bodies, requests, late>>

WaitCancelled ==
  /\ pc = "wait" /\ ctxDone
  /\ Return("cancelled")
  /\ UNCHANGED <<config, request, ctxDone, attempt, answer, bodies, requests, late>>

(* FetchFirstBytes reads n bytes, to the end or to an error, and its       *)
(* deferred Close runs whichever it was.  The timeout covers the reading.  *)
ReadAndClose ==
  /\ pc = "reading"
  /\ pc' = "done"
  /\ bodies' = bodies - 1
  /\ UNCHANGED <<config, request, ctxDone, attempt, answer, result, requests, late>>

Cancel ==
  /\ ~ctxDone /\ ctxDone' = TRUE
  /\ UNCHANGED <<config, request, callVars>>

Do == Start \/ Check \/ Send \/ Final \/ Fail \/ WaitOver \/ WaitCancelled

Finished == pc = "done" /\ UNCHANGED vars

Next == Do \/ Respond \/ GiveUp \/ ReadAndClose \/ Cancel \/ Finished

Spec == Init /\ [][Next]_vars

(* The goroutine of the call runs on, timers fire, and a read ends with    *)
(* the client's timeout at the latest.  Nobody has to answer or to cancel. *)
FairSpec == Spec /\ WF_vars(Do) /\ WF_vars(GiveUp) /\ WF_vars(ReadAndClose)

-----------------------------------------------------------------------------
(* Properties *)

(* The type invariant. *)
TypeOK ==
  /\ config \in [retries : Retries, initial : Backoffs, max : Backoffs, timeout : Timeouts]
  /\ request \in Requests /\ ctxDone \in BOOLEAN
  /\ pc \in {"start", "check", "send", "flight", "answered", "wait", "reading", "done"}
  /\ attempt \in 0..maxRetries
  /\ answer \in Answers \cup {"none"}
  /\ result \in Errors \cup {"none", "response"}
  /\ bodies \in {0, 1} /\ requests \in Nat /\ late \in Nat

(* Every body is closed before the next request goes out and before the    *)
(* call ends, whichever attempt failed and however: only the response that *)
(* Do returned is open, until FetchFirstBytes closes it.                   *)
BodiesClosed ==
  bodies = IF pc = "reading" \/ (pc = "answered" /\ answer # "error") THEN 1 ELSE 0

(* A call makes MaxRetries + 1 requests at most, and it gives up with the  *)
(* error of the last one only once it has made them all.                   *)
AttemptBudget ==
  /\ requests <= maxRetries + 1
  /\ result \in {"status", "transport"} => requests = maxRetries + 1

(* A cancelled call sends one more request at most, the one whose check    *)
(* of the context came first, although a timer that has fired may win over *)
(* the context in sleepWithContext.                                        *)
OneLateRequest == late <= 1

(* Every call ends, and its body is closed, even against a server that     *)
(* never answers and with a Config of zeros.                               *)
CallEnds == <>(pc = "done")

-----------------------------------------------------------------------------
(* The inductive invariant behind TypeOK, BodiesClosed, AttemptBudget and  *)
(* OneLateRequest; module HttpClientProofs shows that it is one.           *)

(* The requests sent agree with the loop variable, and one that was sent   *)
(* late was the last. *)
Counting ==
  /\ pc \in {"start", "check", "send"} => requests = attempt
  /\ pc \in {"flight", "answered", "reading", "wait"} => requests = attempt + 1
  /\ pc = "wait" => attempt < maxRetries
  /\ pc \in {"flight", "wait", "reading", "check", "send", "start"} =>
       result \notin {"status", "transport"}
  /\ pc = "answered" => answer # "none" /\ result \notin {"status", "transport"}
  /\ late > 0 => ctxDone /\ pc # "send"

IInv == TypeOK /\ BodiesClosed /\ AttemptBudget /\ OneLateRequest /\ Counting
=============================================================================
