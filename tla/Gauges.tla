------------------------------- MODULE Gauges -------------------------------
(***************************************************************************)
(* Gauges of the Datadog backend, internal/metrics/datadog/datadog.go, on  *)
(* top of MetricsBackend: within a window of the buffers the samples of a  *)
(* gauge overwrite one another, a flush dates what it took with a clock it *)
(* reads after the buffers were released, and Datadog keeps one value for  *)
(* each second.  One gauge is modelled, whose n-th value is n.             *)
(***************************************************************************)
EXTENDS MetricsBackend

CONSTANTS
  MaxSets,      \* bound: calls of SetGauge
  MaxClock      \* bound: the seconds that pass

ASSUME GaugeBoundsAssumption == MaxSets \in Nat /\ MaxClock \in Nat \ {0}

VARIABLES
  gauge,        \* the value in the buffers, 0 for none
  taken,        \* the value in the snapshot each flusher is submitting
  clock,        \* time.Now().Unix()
  stamp,        \* nowUnix of each flusher, 0 until it is read
  points,       \* the value Datadog holds for each second
  (* History *)
  set,          \* the value last set
  delivered,    \* the newest value taken in
  overlapped,   \* a value was taken while another one was being submitted
  dueGauge      \* the value last set before Close was called

gaugeVars == <<gauge, taken, clock, stamp, points, set, delivered, overlapped, dueGauge>>

Seconds == 1 .. MaxClock

GaugeInit ==
  /\ Init
  /\ gauge = 0 /\ set = 0 /\ delivered = 0 /\ dueGauge = 0
  /\ taken = [f \in Flusher |-> 0]
  /\ stamp = [f \in Flusher |-> 0]
  /\ clock = 1
  /\ points = [s \in Seconds |-> 0]
  /\ overlapped = FALSE

-----------------------------------------------------------------------------
(* Fault: the first value of a window stays. *)
FirstWins(value) == IF gauge = 0 THEN value ELSE gauge

LastWins(value) == value

(* SetGauge: a series of the window, if the window has none of it yet. *)
SetGauge ==
  /\ set < MaxSets
  /\ set' = set + 1
  /\ gauge' = LastWins(set + 1)
  /\ IF gauge = 0 THEN Observe("series") ELSE UNCHANGED vars
  /\ UNCHANGED <<taken, clock, stamp, points, delivered, overlapped, dueGauge>>

TakeSnapshot(f) ==
  /\ Snapshot(f)
  /\ taken' = [taken EXCEPT ![f] = gauge]
  /\ gauge' = 0
  /\ overlapped' = (overlapped \/ (gauge > 0 /\ \E g \in Flusher \ {f} : taken[g] > 0))
  /\ UNCHANGED <<clock, stamp, points, set, delivered, dueGauge>>

(* nowUnix := b.now().Unix(), outside the mutex *)
ReadClock(f) ==
  /\ at[f] \in {"v2", "v1"} /\ stamp[f] = 0
  /\ stamp' = [stamp EXCEPT ![f] = clock]
  /\ UNCHANGED <<vars, gauge, taken, clock, points, set, delivered, overlapped, dueGauge>>

SendDated(f) ==
  /\ stamp[f] > 0
  /\ Send(f)
  /\ UNCHANGED gaugeVars

(* Fault: the clock is read once, and its second serves the later flushes. *)
SecondKept(f) == stamp[f]

SecondAfter(f) == IF at'[f] = "out" THEN 0 ELSE stamp[f]

(* The gauge leaves the snapshot with the series; the date with the flush. *)
Release(f) ==
  /\ taken' = [taken EXCEPT ![f] = 0]
  /\ stamp' = [stamp EXCEPT ![f] = SecondAfter(f)]
  /\ UNCHANGED <<gauge, clock, set, overlapped, dueGauge>>

(* Datadog takes a value in: the last one of a second stays. *)
Show(f) ==
  IF taken[f] = 0 THEN UNCHANGED <<points, delivered>>
  ELSE /\ points' = [points EXCEPT ![stamp[f]] = taken[f]]
       /\ delivered' = IF taken[f] > delivered THEN taken[f] ELSE delivered

NotShown == UNCHANGED <<points, delivered>>

SeriesSubmitted(f) ==
  \/ SeriesAccepted(f) /\ Release(f) /\ Show(f)
  \/ SeriesFailed(f, TRUE) /\ Release(f) /\ Show(f)
  \/ SeriesFailed(f, FALSE) /\ Release(f) /\ NotShown

PointsSubmitted(f) ==
  /\ PointsAccepted(f) \/ \E took \in BOOLEAN : PointsFailed(f, took)
  /\ Release(f) /\ NotShown

SubmitRefused(f) == stamp[f] > 0 /\ Refused(f) /\ Release(f) /\ NotShown

GaugeFlushStep(f) ==
  \/ TakeSnapshot(f)
  \/ ReadClock(f)
  \/ SendDated(f)
  \/ SeriesSubmitted(f)
  \/ PointsSubmitted(f)
  \/ SubmitRefused(f)

(* What is due when Close is called. *)
GaugeCallClose ==
  /\ CallClose
  /\ dueGauge' = set
  /\ UNCHANGED <<gauge, taken, clock, stamp, points, set, delivered, overlapped>>

(* A second passes. *)
ClockTick ==
  /\ clock < MaxClock
  /\ clock' = clock + 1
  /\ UNCHANGED <<vars, gauge, taken, stamp, points, set, delivered, overlapped, dueGauge>>

(* The steps of the backend that gauges have no part in. *)
Apart ==
  \/ \E k \in Kind : Observe(k)
  \/ Tick \/ LoopStop \/ CallFlush \/ AwaitLoop \/ CloseReturns
  \/ CancelCtx
  \/ Closed

GaugeNext ==
  \/ SetGauge
  \/ \E f \in Flusher : GaugeFlushStep(f)
  \/ GaugeCallClose
  \/ ClockTick
  \/ Apart /\ UNCHANGED gaugeVars

GaugeSpec == GaugeInit /\ [][GaugeNext]_<<vars, gaugeVars>>

Unmoved == UNCHANGED gaugeVars

(* The fairness of MetricsBackend, with what a flush now also does. *)
GaugeFairness ==
  /\ \A f \in Flusher : WF_<<vars, gaugeVars>>(GaugeFlushStep(f))
  /\ SF_<<vars, gaugeVars>>(LoopStop /\ Unmoved)
  /\ WF_<<vars, gaugeVars>>(AwaitLoop /\ Unmoved)
  /\ WF_<<vars, gaugeVars>>(CloseReturns /\ Unmoved)

GaugeFairSpec == GaugeSpec /\ GaugeFairness

-----------------------------------------------------------------------------
(* Properties *)

(* "The latest value wins within the flush window" must not lose the last  *)
(* value of all: when Close has returned and no submission failed, Datadog *)
(* was sent the value last set before the call, or a later one, whichever  *)
(* of the two flushes carried it.                                          *)
GaugeDelivered == owner = "closed" /\ failed = {} => delivered >= dueGauge

(* The value Datadog holds for the latest second is the newest it was ever *)
(* sent, unless two flushes with a value overlapped: then the older one    *)
(* may read the clock, or arrive, after the newer.                         *)
NewestShown ==
  ~overlapped /\ delivered > 0 =>
    \E s \in Seconds : points[s] = delivered /\ \A t \in s + 1 .. MaxClock : points[t] = 0

-----------------------------------------------------------------------------
(* The inductive invariant behind GaugeDelivered: as long as nothing       *)
(* failed, the newest value is in the buffers, in a snapshot, or taken in; *)
(* and, once the last flush has its snapshot, the value due is not in the  *)
(* buffers any more.                                                       *)
GaugeTypeOK ==
  /\ gauge \in Nat /\ set \in Nat /\ delivered \in Nat /\ dueGauge \in Nat
  /\ taken \in [Flusher -> Nat]

(* v, or a value that has overwritten it, is being submitted or taken in. *)
Underway(v) == v <= delivered \/ \E f \in Flusher : v <= taken[f]

(* f has the series of its snapshot still to submit. *)
HasSeries(f) == at[f] \in {"v2", "v2 sent"}

Past == owner = "closed" \/ (owner = "final" /\ at["owner"] # "snapshot")

GaugeIInv ==
  /\ GaugeTypeOK
  /\ dueGauge <= set
  /\ gauge > 0 => buf["series"] > 0
  /\ \A f \in Flusher : taken[f] > 0 => HasSeries(f)
  /\ failed = {} => set = gauge \/ Underway(set)
  /\ failed = {} /\ Past => Underway(dueGauge)

(* The inductive invariant behind NewestShown: a flush dates its value     *)
(* after it took it, and the values before it were dated before that, so   *)
(* as long as no two overlapped they reach Datadog in order, dated in      *)
(* order.                                                                  *)
DatesOK ==
  /\ clock \in Seconds
  /\ points \in [Seconds -> Nat] /\ \A s \in Seconds : points[s] > 0 => s <= clock
  /\ stamp \in [Flusher -> 0..clock]
  /\ \A f \in Flusher : /\ stamp[f] > 0 => at[f] \notin {"out", "snapshot"}
                        /\ at[f] \in {"v2 sent", "v1 sent"} => stamp[f] > 0

InOrder ==
  /\ \A f, g \in Flusher : taken[f] > 0 /\ taken[g] > 0 => f = g
  /\ gauge > 0 => gauge > delivered /\ \A f \in Flusher : gauge > taken[f]
  /\ \A f \in Flusher : taken[f] > 0 =>
       /\ taken[f] > delivered
       /\ stamp[f] > 0 => \A s \in Seconds : points[s] > 0 => s <= stamp[f]

ShownIInv ==
  /\ DatesOK
  /\ gauge <= set /\ delivered <= set /\ \A f \in Flusher : taken[f] <= set
  /\ ~overlapped => InOrder
  /\ NewestShown
=============================================================================
