---------------------------- MODULE CrawlOutcome ----------------------------
(***************************************************************************)
(* What one run of jget promises, with no goroutine, channel or retry in   *)
(* sight: every URL of the list ends in one of four ways, and the exit     *)
(* code says which.  cmd/jget/main.go states the promise in the comment of *)
(* run (exit codes 0, 1 and 2) and in the words "Fail fast on the first    *)
(* URL that exhausts retries".  Module Crawler implements this one.        *)
(***************************************************************************)
EXTENDS Naturals

CONSTANT NumURLs                   \* the number of URLs in the list

Job == 1..NumURLs

Outcome == {"pending", "loaded", "missing", "failed", "aborted"}

VARIABLES
  result,    \* how each URL ended, "pending" until it has
  exit       \* the exit code, "running" until the process has one

vars == <<result, exit>>

AnyFailed == \E j \in Job : result[j] = "failed"

AllLoaded == \A j \in Job : result[j] \in {"loaded", "missing"}

Init ==
  /\ result = [j \in Job |-> "pending"]
  /\ exit = "running"

(* A URL is given its outcome once; one is abandoned only after another    *)
(* URL has exhausted its attempts.                                         *)
Finish(j, r) ==
  /\ exit = "running"
  /\ result[j] = "pending"
  /\ r = "aborted" => AnyFailed
  /\ result' = [result EXCEPT ![j] = r]
  /\ UNCHANGED exit

(* Exit code 2: nothing was attempted. *)
Refuse ==
  /\ exit = "running"
  /\ \A j \in Job : result[j] = "pending"
  /\ exit' = "2"
  /\ UNCHANGED result

(* Exit code 0: every URL was loaded or is missing on the server. *)
Succeed ==
  /\ exit = "running"
  /\ AllLoaded
  /\ exit' = "0"
  /\ UNCHANGED result

(* Exit code 1: some URL exhausted its attempts. *)
Fail ==
  /\ exit = "running"
  /\ AnyFailed
  /\ exit' = "1"
  /\ UNCHANGED result

Next ==
  \/ \E j \in Job, r \in Outcome \ {"pending"} : Finish(j, r)
  \/ Refuse
  \/ Succeed
  \/ Fail

Spec == Init /\ [][Next]_vars
=============================================================================
