------------------------------- MODULE Backoff -------------------------------
(***************************************************************************)
(* The waits between the attempts at one URL: nextRetryDelay and           *)
(* parseRetryAfter of cmd/jget/main.go, beside backoffDuration of the HTTP *)
(* data source, which shifts the same way.  One tick stands for a second.  *)
(* parseFlags checks --max_attempts alone: any base and any cap are legal, *)
(* zero and negative ones too, and a server may ask for any delay.         *)
(***************************************************************************)
EXTENDS Durations

CONSTANTS
  MaxAttempts,    \* --max_attempts
  Bases, Caps,    \* values tried for --base_backoff and --max_backoff
  RetryAfters     \* seconds tried for a Retry-After header, 0 for none

ASSUME MaxAttemptsAssumption == MaxAttempts \in Nat \ {0, 1}
ASSUME FlagAssumption == Bases \subseteq Int /\ Caps \subseteq Int /\ RetryAfters \subseteq Nat

(* "10 * time.Second", the minimum after a network error *)
NetworkMin == 10

(* What an attempt that is retried came back with: a 429, another status,  *)
(* or no answer, a network error. *)
Status == {"429", "other", "none"}

VARIABLES
  base, cap,      \* the flags
  logHeaders,     \* --log_headers_on_429
  attempt,        \* the attempt that failed and is waited after
  status,         \* what it came back with
  header          \* seconds in its Retry-After header

vars == <<base, cap, logHeaders, attempt, status, header>>

(* Retry-After is read from a 429 only. *)
Answer(s, h) == s \in Status /\ h \in RetryAfters /\ (s = "429" \/ h = 0)

Init ==
  /\ base \in Bases /\ cap \in Caps /\ logHeaders \in BOOLEAN
  /\ attempt = 1
  /\ \E s \in Status, h \in RetryAfters : Answer(s, h) /\ status = s /\ header = h

WaitedAfter == attempt + 1 < MaxAttempts     \* attempt == cfg.maxAttempts returns

(* The attempt after the wait fails too. *)
Retry ==
  /\ WaitedAfter
  /\ attempt' = attempt + 1
  /\ \E s \in Status, h \in RetryAfters : Answer(s, h) /\ status' = s /\ header' = h
  /\ UNCHANGED <<base, cap, logHeaders>>

(* The last attempt succeeds or is given up on. *)
Exhausted == ~WaitedAfter /\ UNCHANGED vars

Next == Retry \/ Exhausted

Spec == Init /\ [][Next]_vars

-----------------------------------------------------------------------------
(* What the flags, the server and the attempts may be. *)
TypeOK ==
  /\ base \in Int /\ cap \in Int /\ logHeaders \in BOOLEAN
  /\ attempt \in Nat \ {0}
  /\ status \in Status /\ header \in Nat

-----------------------------------------------------------------------------
(* The delays *)

(* doAttempt reads Retry-After only to log it: without the flag             *)
(* rec.RetryAfterMs stays zero.  It holds whole milliseconds: what is less  *)
(* than one of the time until a date is lost, and is below the tick here.   *)
RetryAfter(logged) == IF status = "429" /\ logged THEN Wrap(header) ELSE 0

(* Fault: the minimum spares a delay that is not positive. *)
RaisePositive(d) == IF status = "none" /\ d > 0 /\ d < NetworkMin THEN NetworkMin ELSE d

Raise(d) == IF status = "none" /\ d < NetworkMin THEN NetworkMin ELSE d

(* Fault: base * 2^attempt. *)
OneDoublingMore(n) == n

Doublings(n) == n - 1

(* Fault: the cap holds for a Retry-After too. *)
AfterClamped(d) == Clamp(d, cap)

AfterAsAsked(d) == d

(* nextRetryDelay *)
DelayIf(logged) ==
  IF RetryAfter(logged) > 0
  THEN AfterAsAsked(RetryAfter(logged))
  ELSE Raise(Clamp(Shl(base, Doublings(attempt)), cap))

Delay == DelayIf(logHeaders)

(* backoffDuration(initial, attempt - 1, max): its attempts start at zero. *)
ClientDelay == IF attempt = 1 THEN Clamp(base, cap) ELSE Clamp(Shl(base, attempt - 1), cap)

-----------------------------------------------------------------------------
(* Properties *)

(* The flags and the number of attempts are such that no shift overflows;  *)
(* with the defaults, 2 s and 30 attempts, 64 bits leave three to spare.   *)
Fits(n) == base >= 0 /\ cap >= 0 /\ base * Pow2[n - 1] <= MaxDuration

Minimum(x, y) == IF x < y THEN x ELSE y

(* "Exponential: base * 2^(attempt-1), clamped": from one retry to the     *)
(* next nextRetryDelay doubles the wait up to the cap, as long as the      *)
(* shift fits, and backoffDuration, counting from zero, agrees with it.    *)
Doubling ==
  [][(status = "other" /\ status' = "other" /\ Fits(attempt')) =>
       /\ attempt = 1 => Delay = Minimum(base, cap)
       /\ Delay' = Minimum(2 * Delay, cap)
       /\ ClientDelay' = Delay']_vars

(* "Enforce a minimum to reduce tight loops": a retry without a wait needs  *)
(* an answer, and a flag that is not positive or a shift that overflowed;  *)
(* after a network error not even those suffice.  Crawler's                *)
(* ReportRetryAtOnce rests on this.  "Clamped" is thus not what the code   *)
(* does after enough attempts: 2 s overflow 64 bits at the 34th.           *)
HotLoopNeedsOverflow ==
  Delay <= 0 => status # "none" /\ (base <= 0 \/ cap <= 0 \/ ~Fits(attempt))

(* With the headers logged, a 429 is retried when its Retry-After says,    *)
(* whatever the flags and the number of attempts.                          *)
RetryAfterRespected ==
  status = "429" /\ logHeaders /\ header \in 1..MaxDuration => Delay = header

(* "Include response headers in logs for HTTP 429" is all the flag is said *)
(* to do: the wait does not depend on it.                                  *)
LogFlagOnlyLogs == DelayIf(TRUE) = DelayIf(FALSE)
=============================================================================
