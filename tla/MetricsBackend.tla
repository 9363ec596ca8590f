--------------------------- MODULE MetricsBackend ---------------------------
(***************************************************************************)
(* The Datadog backend, internal/metrics/datadog/datadog.go: observations  *)
(* are buffered behind a mutex; Flush takes the buffers and submits them   *)
(* outside the mutex, first the series (counters, gauges, percentiles) to  *)
(* the v2 interface and then the points (distributions) to the v1 one; a   *)
(* loop goroutine flushes on a ticker; Close stops the loop, waits for it, *)
(* and flushes once more.  Loop and caller may be inside Flush together.   *)
(*                                                                         *)
(* An observation counts as one sample of its kind, whatever its name and  *)
(* labels.  Gauges, whose samples overwrite one another, are left out.     *)
(***************************************************************************)
EXTENDS Naturals

CONSTANT MaxSamples          \* bound: observations of each kind

ASSUME MaxSamplesAssumption == MaxSamples \in Nat

Kind == {"series", "points"}

(* The goroutines that call Flush: the loop, and the owner of the backend. *)
Flusher == {"loop", "owner"}

VARIABLES
  buf,        \* samples in the buffers
  snap,       \* samples in the snapshot each flusher is submitting
  at,         \* where each flusher is in Flush
  stopped,    \* stopCh is closed
  loopDone,   \* doneCh is closed
  owner,      \* "open", or where it is in Close
  ctxDone,    \* the context of the submissions is cancelled
  (* History *)
  recorded,   \* samples observed
  accepted,   \* samples the interfaces took in
  lost,       \* samples dropped after a failed submission
  failed,     \* the interfaces of which a submission returned an error
  due         \* samples observed before Close was called

bufVars  == <<buf, recorded>>
sentVars == <<accepted, lost, failed>>
ctlVars  == <<stopped, loopDone, owner, due>>
vars == <<buf, snap, at, stopped, loopDone, owner, ctxDone, recorded, accepted,
          lost, failed, due>>

None == [k \in Kind |-> 0]

Plus(f, g) == [k \in Kind |-> f[k] + g[k]]

Only(f, k) == [None EXCEPT ![k] = f[k]]

Init ==
  /\ buf = None
  /\ snap = [f \in Flusher |-> None]
  /\ at = [f \in Flusher |-> "out"]
  /\ stopped = FALSE /\ loopDone = FALSE /\ owner = "open"
  /\ ctxDone = FALSE
  /\ recorded = None /\ accepted = None /\ lost = None
  /\ failed = {} /\ due = None

-----------------------------------------------------------------------------
(* IncCounter, ObserveHistogram, ObserveDistribution *)

Observe(k) ==
  /\ recorded[k] < MaxSamples
  /\ buf' = [buf EXCEPT ![k] = @ + 1]
  /\ recorded' = [recorded EXCEPT ![k] = @ + 1]
  /\ UNCHANGED <<snap, at, ctxDone, sentVars, ctlVars>>

-----------------------------------------------------------------------------
(* Flush *)

Enter(f) == at' = [at EXCEPT ![f] = "snapshot"]

(* Fault: the buffers are copied and not reset. *)
BuffersKept == buf

BuffersReset == None

(* snapshotAndReset, under the mutex; an empty snapshot ends the Flush.    *)
Snapshot(f) ==
  /\ at[f] = "snapshot"
  /\ snap' = [snap EXCEPT ![f] = buf]
  /\ buf' = BuffersReset
  /\ at' = [at EXCEPT ![f] = IF buf = None THEN "out"
                             ELSE IF buf["series"] > 0 THEN "v2" ELSE "v1"]
  /\ UNCHANGED <<recorded, ctxDone, sentVars, ctlVars>>

(* Flush returns nil *)
Delivered(f, took) ==
  /\ accepted' = Plus(accepted, took)
  /\ UNCHANGED <<lost, failed>>

(* Flush returns the error; what is left of the snapshot is garbage. *)
Dropped(f, took, interface) ==
  /\ accepted' = Plus(accepted, took)
  /\ lost' = [k \in Kind |-> lost[k] + snap[f][k] - took[k]]
  /\ failed' = failed \cup {interface}
  /\ snap' = [snap EXCEPT ![f] = None]
  /\ at' = [at EXCEPT ![f] = "out"]

(* The client refuses a request whose context is done. *)
Refused(f) ==
  /\ at[f] \in {"v2", "v1"} /\ ctxDone
  /\ Dropped(f, None, at[f])
  /\ UNCHANGED <<bufVars, ctxDone, ctlVars>>

Send(f) ==
  /\ at[f] \in {"v2", "v1"} /\ ~ctxDone
  /\ at' = [at EXCEPT ![f] = IF at[f] = "v2" THEN "v2 sent" ELSE "v1 sent"]
  /\ UNCHANGED <<bufVars, snap, ctxDone, sentVars, ctlVars>>

(* Fault: a payload without points is submitted too. *)
PointsAlways(f) == "v1"

PointsIfAny(f) == IF snap[f]["points"] > 0 THEN "v1" ELSE "out"

(* The series were taken in: next the points, if there are any. *)
SeriesAccepted(f) ==
  /\ at[f] = "v2 sent"
  /\ Delivered(f, Only(snap[f], "series"))
  /\ snap' = [snap EXCEPT ![f] = Only(@, "points")]
  /\ at' = [at EXCEPT ![f] = PointsIfAny(f)]
  /\ UNCHANGED <<bufVars, ctxDone, ctlVars>>

PointsAccepted(f) ==
  /\ at[f] = "v1 sent"
  /\ Delivered(f, snap[f])
  /\ snap' = [snap EXCEPT ![f] = None]
  /\ at' = [at EXCEPT ![f] = "out"]
  /\ UNCHANGED <<bufVars, ctxDone, ctlVars>>

(* An error after the request was sent: the samples may have been taken in *)
(* all the same, the reply being lost.                                     *)
SeriesFailed(f, took) ==
  /\ at[f] = "v2 sent"
  /\ Dropped(f, IF took THEN Only(snap[f], "series") ELSE None, "v2")
  /\ UNCHANGED <<bufVars, ctxDone, ctlVars>>

PointsFailed(f, took) ==
  /\ at[f] = "v1 sent"
  /\ Dropped(f, IF took THEN snap[f] ELSE None, "v1")
  /\ UNCHANGED <<bufVars, ctxDone, ctlVars>>

FlushStep(f) ==
  \/ Snapshot(f)
  \/ Refused(f)
  \/ Send(f)
  \/ SeriesAccepted(f)
  \/ PointsAccepted(f)
  \/ \E took \in BOOLEAN : SeriesFailed(f, took) \/ PointsFailed(f, took)

-----------------------------------------------------------------------------
(* loop() *)

Tick ==
  /\ ~loopDone /\ at["loop"] = "out"
  /\ Enter("loop")
  /\ UNCHANGED <<bufVars, snap, ctxDone, sentVars, ctlVars>>

(* Fault: the loop waits for its ticker only. *)
StopIgnored == FALSE

StopSeen == stopped

(* The select takes stopCh; it may take the ticker first if both are ready. *)
LoopStop ==
  /\ ~loopDone /\ at["loop"] = "out"
  /\ StopSeen
  /\ loopDone' = TRUE
  /\ UNCHANGED <<bufVars, snap, at, stopped, owner, ctxDone, sentVars, due>>

-----------------------------------------------------------------------------
(* The owner: Flush at any time, then Close once (a second close(stopCh)   *)
(* would panic, and run() makes one)                                       *)

CallFlush ==
  /\ owner = "open" /\ at["owner"] = "out"
  /\ Enter("owner")
  /\ UNCHANGED <<bufVars, snap, ctxDone, sentVars, ctlVars>>

CallClose ==
  /\ owner = "open" /\ at["owner"] = "out"
  /\ owner' = "stopping" /\ stopped' = TRUE
  /\ due' = recorded
  /\ UNCHANGED <<bufVars, snap, at, loopDone, ctxDone, sentVars>>

(* Fault: Close does not wait for doneCh. *)
LoopNotAwaited == TRUE

LoopEnded == loopDone

(* <-b.doneCh, then the last Flush *)
AwaitLoop ==
  /\ owner = "stopping" /\ LoopEnded
  /\ owner' = "final"
  /\ Enter("owner")
  /\ UNCHANGED <<bufVars, snap, stopped, loopDone, ctxDone, sentVars, due>>

CloseReturns ==
  /\ owner = "final" /\ at["owner"] = "out"
  /\ owner' = "closed"
  /\ UNCHANGED <<bufVars, snap, at, stopped, loopDone, ctxDone, sentVars, due>>

OwnerStep == CallFlush \/ CallClose \/ AwaitLoop \/ CloseReturns

(* Whoever owns the context cancels it. *)
CancelCtx ==
  /\ ~ctxDone
  /\ ctxDone' = TRUE
  /\ UNCHANGED <<bufVars, snap, at, sentVars, ctlVars>>

(* Close has returned; the program goes on without the backend, or exits. *)
Closed == owner = "closed" /\ UNCHANGED vars

Next ==
  \/ \E k \in Kind : Observe(k)
  \/ \E f \in Flusher : FlushStep(f)
  \/ Tick
  \/ LoopStop
  \/ OwnerStep
  \/ CancelCtx
  \/ Closed

Spec == Init /\ [][Next]_vars

(* A submission ends, an armed ticker or a closed channel is noticed: when *)
(* both are, Go's select takes each in turn with probability one half, so  *)
(* a closed stopCh is not passed over for ever.                            *)
Fairness ==
  /\ \A f \in Flusher : WF_vars(FlushStep(f))
  /\ SF_vars(LoopStop)
  /\ WF_vars(AwaitLoop) /\ WF_vars(CloseReturns)

FairSpec == Spec /\ Fairness

-----------------------------------------------------------------------------
(* Properties *)

Count == [Kind -> Nat]

(* The type invariant; what a flusher holds fits the submission it is at,  *)
(* and no submission is empty.                                             *)
TypeOK ==
  /\ buf \in Count /\ recorded \in Count /\ accepted \in Count
  /\ lost \in Count /\ due \in Count
  /\ snap \in [Flusher -> Count]
  /\ at \in [Flusher -> {"out", "snapshot", "v2", "v2 sent", "v1", "v1 sent"}]
  /\ stopped \in BOOLEAN /\ loopDone \in BOOLEAN /\ ctxDone \in BOOLEAN
  /\ owner \in {"open", "stopping", "final", "closed"}
  /\ failed \in SUBSET {"v1", "v2"}
  /\ \A f \in Flusher :
       /\ at[f] \in {"out", "snapshot"} => snap[f] = None
       /\ at[f] \in {"v2", "v2 sent"} => snap[f]["series"] > 0
       /\ at[f] \in {"v1", "v1 sent"} => snap[f]["series"] = 0 /\ snap[f]["points"] > 0

(* Every sample is in one place: a buffer, the snapshot of one flusher,    *)
(* taken in, or dropped.  Two flushes at once never submit a sample twice, *)
(* and an observation made during a flush is not swept away with it.       *)
Conservation ==
  \A k \in Kind :
    recorded[k] = buf[k] + snap["loop"][k] + snap["owner"][k] + accepted[k] + lost[k]

(* "A final tail flush at shutdown": when Close has returned and no        *)
(* submission failed, everything observed before the call was taken in,    *)
(* the part another flush was still submitting included.                   *)
CloseDelivers ==
  owner = "closed" /\ failed = {} => \A k \in Kind : accepted[k] >= due[k]

(* The loop is gone when Close makes its last Flush, so nothing submits    *)
(* after Close has returned.                                               *)
QuietAfterClose ==
  owner = "closed" => \A f \in Flusher : at[f] = "out"

(* Close returns, whatever the loop is doing and however submissions end. *)
CloseEnds == owner = "stopping" ~> owner = "closed"

-----------------------------------------------------------------------------
(* The inductive invariant behind Conservation and CloseDelivers, shown to *)
(* be one in module GaugesProofs.                                          *)

(* What Close has waited for at each of its steps. *)
Closing ==
  /\ owner = "open" <=> ~stopped
  /\ loopDone => stopped /\ at["loop"] = "out"
  /\ owner \in {"final", "closed"} => loopDone
  /\ owner \in {"stopping", "closed"} => at["owner"] = "out"

(* The last Flush takes at least what was observed before Close. *)
Taken ==
  /\ \A k \in Kind : due[k] <= recorded[k]
  /\ owner = "closed" \/ (owner = "final" /\ at["owner"] # "snapshot") =>
       \A k \in Kind : due[k] + buf[k] <= recorded[k]

LossHasCause == failed = {} => lost = None

IInv == TypeOK /\ Conservation /\ Closing /\ Taken /\ LossHasCause
=============================================================================
