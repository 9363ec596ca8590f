---------------------------- MODULE GaugesProofs ----------------------------
(***************************************************************************)
(* Proofs about Gauges: with gauges the backend is still MetricsBackend,   *)
(* the last value of a gauge reaches Datadog, and it is the one Datadog    *)
(* shows, for any number of values, observations and seconds.              *)
(***************************************************************************)
EXTENDS Gauges, TLAPS

-----------------------------------------------------------------------------
(* The backend, for any number of observations *)

(* The backend starts in a state of the invariant. *)
LEMMA InitInv == Init => IInv
  <1> SUFFICES ASSUME Init PROVE IInv
    OBVIOUS
  <1>1. None \in Count /\ \A k \in Kind : None[k] = 0
    BY DEF None, Count
  <1>2. TypeOK
    BY <1>1 DEF Init, TypeOK, Flusher
  <1>3. Conservation
    BY <1>1 DEF Init, Conservation, Flusher
  <1>4. Closing /\ LossHasCause
    BY DEF Init, Closing, LossHasCause, Flusher
  <1>5. Taken
    BY <1>1 DEF Init, Taken
  <1> QED
    BY <1>2, <1>3, <1>4, <1>5 DEF IInv

(* Counts, one kind at a time. *)
LEMMA Counts ==
  /\ None \in Count /\ None["series"] = 0 /\ None["points"] = 0
  /\ \A f, g \in Count :
       /\ Plus(f, g) \in Count
       /\ \A k \in Kind : Plus(f, g)[k] = f[k] + g[k] /\ f[k] \in Nat
  /\ \A f \in Count :
       /\ Only(f, "series") \in Count /\ Only(f, "points") \in Count
       /\ Only(f, "series")["series"] = f["series"] /\ Only(f, "series")["points"] = 0
       /\ Only(f, "points")["points"] = f["points"] /\ Only(f, "points")["series"] = 0
       /\ f["series"] = 0 /\ f["points"] = 0 => f = None
  BY DEF None, Plus, Only, Count, Kind

(* The part of a snapshot that an interface may have taken in before its   *)
(* submission ended in an error. *)
Share(f) == {None, Only(snap[f], "series"), snap[f]}

(* A submission that fails drops what it did not deliver. *)
LEMMA DroppedEffect ==
  ASSUME TypeOK, NEW f \in Flusher, NEW took \in Share(f), NEW i \in {"v1", "v2"},
         Dropped(f, took, i)
  PROVE  /\ accepted' \in Count /\ lost' \in Count
         /\ \A k \in Kind : accepted'[k] + lost'[k] = accepted[k] + lost[k] + snap[f][k]
         /\ snap' = [snap EXCEPT ![f] = None] /\ at' = [at EXCEPT ![f] = "out"]
         /\ failed' \in SUBSET {"v1", "v2"} /\ failed' # {}
  <1>1. snap[f] \in Count /\ accepted \in Count /\ lost \in Count
    BY DEF TypeOK
  <1>2. took \in Count /\ \A k \in Kind : took[k] <= snap[f][k]
    BY <1>1, Counts DEF Share, Kind, Count
  <1>3. lost' \in Count /\ \A k \in Kind : lost'[k] = lost[k] + snap[f][k] - took[k]
    BY <1>1, <1>2 DEF Dropped, Count
  <1>4. accepted' = Plus(accepted, took)
    BY DEF Dropped
  <1>5. accepted' \in Count /\ \A k \in Kind : accepted'[k] = accepted[k] + took[k]
    BY <1>1, <1>2, <1>4, Counts
  <1>6. \A k \in Kind : accepted'[k] + lost'[k] = accepted[k] + lost[k] + snap[f][k]
    <2> SUFFICES ASSUME NEW k \in Kind
                 PROVE  accepted'[k] + lost'[k] = accepted[k] + lost[k] + snap[f][k]
      OBVIOUS
    <2>1. accepted[k] \in Nat /\ lost[k] \in Nat /\ snap[f][k] \in Nat /\ took[k] \in Nat
      BY <1>1, <1>2 DEF Count
    <2> QED
      BY <1>3, <1>5, <2>1
  <1>7. failed' \in SUBSET {"v1", "v2"} /\ failed' # {}
    BY DEF Dropped, TypeOK
  <1> QED
    BY <1>3, <1>5, <1>6, <1>7 DEF Dropped

-----------------------------------------------------------------------------
(* The steps of a Flush that follow its snapshot *)

Submit(f) ==
  \/ Refused(f) \/ Send(f) \/ SeriesAccepted(f) \/ PointsAccepted(f)
  \/ \E took \in BOOLEAN : SeriesFailed(f, took) \/ PointsFailed(f, took)

(* A flusher moves samples from its snapshot to those taken in or dropped, *)
(* drops some only after an error, and touches nothing else.               *)
LEMMA SubmitEffect ==
  ASSUME TypeOK, NEW f \in Flusher, Submit(f)
  PROVE  /\ UNCHANGED <<bufVars, ctxDone, ctlVars>>
         /\ at[f] \notin {"out", "snapshot"} /\ at'[f] # "snapshot"
         /\ at' = [at EXCEPT ![f] = at'[f]] /\ snap' = [snap EXCEPT ![f] = snap'[f]]
         /\ at'[f] \in {"out", "v2", "v2 sent", "v1", "v1 sent"}
         /\ snap'[f] \in Count /\ accepted' \in Count /\ lost' \in Count
         /\ failed' \in SUBSET {"v1", "v2"}
         /\ at'[f] = "out" => snap'[f] = None
         /\ at'[f] \in {"v2", "v2 sent"} => snap'[f]["series"] > 0
         /\ at'[f] \in {"v1", "v1 sent"} => snap'[f]["series"] = 0 /\ snap'[f]["points"] > 0
         /\ \A k \in Kind : snap'[f][k] + accepted'[k] + lost'[k]
                             = snap[f][k] + accepted[k] + lost[k]
         /\ failed' = {} => failed = {} /\ lost' = lost
  <1>1. /\ snap[f] \in Count /\ accepted \in Count /\ lost \in Count
        /\ at \in [Flusher -> {"out", "snapshot", "v2", "v2 sent", "v1", "v1 sent"}]
        /\ snap \in [Flusher -> Count]
        /\ failed \in SUBSET {"v1", "v2"}
    BY DEF TypeOK
  <1>2. ASSUME NEW took \in Share(f), NEW i \in {"v1", "v2"}, Dropped(f, took, i),
               at[f] \notin {"out", "snapshot"}, UNCHANGED <<bufVars, ctxDone, ctlVars>>
        PROVE  /\ UNCHANGED <<bufVars, ctxDone, ctlVars>>
               /\ at[f] \notin {"out", "snapshot"} /\ at'[f] = "out"
               /\ at' = [at EXCEPT ![f] = "out"] /\ snap' = [snap EXCEPT ![f] = None]
               /\ snap'[f] = None /\ None \in Count
               /\ accepted' \in Count /\ lost' \in Count
               /\ failed' \in SUBSET {"v1", "v2"} /\ failed' # {}
               /\ \A k \in Kind : snap'[f][k] + accepted'[k] + lost'[k]
                                   = snap[f][k] + accepted[k] + lost[k]
    <2>1. /\ accepted' \in Count /\ lost' \in Count
          /\ \A k \in Kind : accepted'[k] + lost'[k] = accepted[k] + lost[k] + snap[f][k]
          /\ snap' = [snap EXCEPT ![f] = None] /\ at' = [at EXCEPT ![f] = "out"]
          /\ failed' \in SUBSET {"v1", "v2"} /\ failed' # {}
      BY <1>2, DroppedEffect
    <2>2. snap'[f] = None /\ at'[f] = "out" /\ None \in Count
      BY <1>1, <2>1, Counts
    <2>3. \A k \in Kind : snap'[f][k] + accepted'[k] + lost'[k]
                           = snap[f][k] + accepted[k] + lost[k]
      <3> SUFFICES ASSUME NEW k \in Kind
                   PROVE  snap'[f][k] + accepted'[k] + lost'[k]
                          = snap[f][k] + accepted[k] + lost[k]
        OBVIOUS
      <3>1. /\ accepted[k] \in Nat /\ lost[k] \in Nat /\ snap[f][k] \in Nat
            /\ accepted'[k] \in Nat /\ lost'[k] \in Nat /\ snap'[f][k] = 0
        BY <1>1, <2>1, <2>2 DEF Count, None
      <3> QED
        BY <2>1, <3>1
    <2> QED
      BY <1>2, <2>1, <2>2, <2>3
  <1>3. CASE Refused(f)
    <2>1. Dropped(f, None, at[f]) /\ None \in Share(f) /\ at[f] \in {"v1", "v2"}
      BY <1>3 DEF Refused, Share
    <2> QED
      BY <1>1, <1>2, <2>1, <1>3 DEF Refused
  <1>4. ASSUME NEW took \in BOOLEAN, SeriesFailed(f, took) PROVE
          \E t \in Share(f) : Dropped(f, t, "v2") /\ at[f] = "v2 sent"
                              /\ UNCHANGED <<bufVars, ctxDone, ctlVars>>
    BY <1>4 DEF SeriesFailed, Share
  <1>5. ASSUME NEW took \in BOOLEAN, PointsFailed(f, took) PROVE
          \E t \in Share(f) : Dropped(f, t, "v1") /\ at[f] = "v1 sent"
                              /\ UNCHANGED <<bufVars, ctxDone, ctlVars>>
    BY <1>5 DEF PointsFailed, Share
  <1>6. CASE \E took \in BOOLEAN : SeriesFailed(f, took) \/ PointsFailed(f, took)
    <2>1. PICK t \in Share(f), i \in {"v1", "v2"} :
            /\ Dropped(f, t, i) /\ at[f] \notin {"out", "snapshot"}
            /\ UNCHANGED <<bufVars, ctxDone, ctlVars>>
      BY <1>4, <1>5, <1>6
    <2> QED
      BY <1>1, <1>2, <2>1
  <1>7. CASE Send(f)
    BY <1>1, <1>7 DEF Send, sentVars, TypeOK
  <1>8. CASE SeriesAccepted(f)
    <2>1. /\ Only(snap[f], "series") \in Count /\ Only(snap[f], "points") \in Count
          /\ accepted' \in Count
      BY <1>1, <1>8, Counts DEF SeriesAccepted, Delivered
    <2>2. /\ snap'[f] = Only(snap[f], "points") /\ snap[f]["series"] > 0
          /\ at'[f] = IF snap[f]["points"] > 0 THEN "v1" ELSE "out"
          /\ at' = [at EXCEPT ![f] = at'[f]] /\ snap' = [snap EXCEPT ![f] = snap'[f]]
          /\ at[f] = "v2 sent"
      BY <1>1, <1>8 DEF SeriesAccepted, PointsIfAny, TypeOK
    <2>3. lost' = lost /\ failed' = failed
          /\ accepted' = Plus(accepted, Only(snap[f], "series"))
          /\ UNCHANGED <<bufVars, ctxDone, ctlVars>>
      BY <1>8 DEF SeriesAccepted, Delivered
    <2>4. \A k \in Kind :
            /\ accepted'[k] = accepted[k] + Only(snap[f], "series")[k]
            /\ accepted[k] \in Nat /\ lost[k] \in Nat /\ snap[f][k] \in Nat
      <3>1. \A k \in Kind : accepted'[k] = accepted[k] + Only(snap[f], "series")[k]
        BY <2>3 DEF Plus
      <3> QED
        BY <1>1, <3>1 DEF Count
    <2>5. /\ Only(snap[f], "series")["series"] = snap[f]["series"]
          /\ Only(snap[f], "series")["points"] = 0
          /\ snap'[f]["series"] = 0 /\ snap'[f]["points"] = snap[f]["points"]
      BY <2>2 DEF Only, None, Kind
    <2>6. \A k \in Kind : snap'[f][k] + accepted'[k] + lost'[k]
                           = snap[f][k] + accepted[k] + lost[k]
      BY <2>3, <2>4, <2>5 DEF Kind
    <2>7. ~(snap[f]["points"] > 0) => snap'[f] = None
      <3>1. snap[f]["points"] \in Nat
        BY <2>4 DEF Kind
      <3>2. snap'[f] \in Count
        BY <2>1, <2>2
      <3> QED
        BY <2>5, <3>1, <3>2 DEF Count, Kind, None
    <2>8. /\ at'[f] \in {"out", "v1"} /\ snap'[f] \in Count
          /\ at'[f] = "out" => snap'[f] = None
          /\ at'[f] = "v1" => snap'[f]["series"] = 0 /\ snap'[f]["points"] > 0
      BY <2>1, <2>2, <2>5, <2>7
    <2>9. lost' \in Count /\ failed' \in SUBSET {"v1", "v2"}
      BY <1>1, <2>3
    <2>10. at[f] \notin {"out", "snapshot"} /\ at'[f] # "snapshot"
      BY <2>2, <2>8
    <2>11. failed' = {} => failed = {} /\ lost' = lost
      BY <2>3
    <2>12. /\ at'[f] \in {"out", "v2", "v2 sent", "v1", "v1 sent"}
           /\ at'[f] \in {"v2", "v2 sent"} => snap'[f]["series"] > 0
           /\ at'[f] \in {"v1", "v1 sent"} => snap'[f]["series"] = 0 /\ snap'[f]["points"] > 0
      BY <2>8
    <2>13. accepted' \in Count
      BY <2>1
    <2>14. at' = [at EXCEPT ![f] = at'[f]] /\ snap' = [snap EXCEPT ![f] = snap'[f]]
      BY <2>2
    <2> QED
      BY <2>3, <2>6, <2>8, <2>9, <2>10, <2>11, <2>12, <2>13, <2>14
  <1>9. CASE PointsAccepted(f)
    <2>1. accepted' \in Count /\ \A k \in Kind : accepted'[k] = accepted[k] + snap[f][k]
      <3>1. accepted' = Plus(accepted, snap[f])
        BY <1>9 DEF PointsAccepted, Delivered
      <3>2. \A k \in Kind : accepted'[k] = accepted[k] + snap[f][k]
        BY <3>1 DEF Plus
      <3>3. \A k \in Kind : accepted[k] + snap[f][k] \in Nat
        <4> SUFFICES ASSUME NEW k \in Kind PROVE accepted[k] + snap[f][k] \in Nat
          OBVIOUS
        <4>1. accepted[k] \in Nat /\ snap[f][k] \in Nat
          BY <1>1 DEF Count
        <4> QED
          BY <4>1
      <3>4. accepted' = [k \in Kind |-> accepted[k] + snap[f][k]]
        BY <3>1 DEF Plus
      <3> QED
        BY <3>2, <3>3, <3>4 DEF Count
    <2>2. snap'[f] = None /\ None \in Count /\ at'[f] = "out"
      BY <1>1, <1>9, Counts DEF PointsAccepted
    <2>3. \A k \in Kind : snap'[f][k] = 0
      BY <2>2 DEF None
    <2>4. \A k \in Kind : snap'[f][k] + accepted'[k] + lost'[k]
                           = snap[f][k] + accepted[k] + lost[k]
      <3> SUFFICES ASSUME NEW k \in Kind
                   PROVE  snap'[f][k] + accepted'[k] + lost'[k]
                          = snap[f][k] + accepted[k] + lost[k]
        OBVIOUS
      <3>1. accepted[k] \in Nat /\ lost[k] \in Nat /\ snap[f][k] \in Nat /\ lost' = lost
        BY <1>1, <1>9 DEF Count, PointsAccepted, Delivered
      <3> QED
        BY <2>1, <2>3, <3>1
    <2> QED
      BY <1>1, <1>9, <2>1, <2>2, <2>4 DEF PointsAccepted, Delivered
  <1> QED
    BY <1>3, <1>6, <1>7, <1>8, <1>9 DEF Submit

(* What TypeOK says of what a flusher holds. *)
Holds(f) ==
  /\ at[f] \in {"out", "snapshot"} => snap[f] = None
  /\ at[f] \in {"v2", "v2 sent"} => snap[f]["series"] > 0
  /\ at[f] \in {"v1", "v1 sent"} => snap[f]["series"] = 0 /\ snap[f]["points"] > 0

(* A step of Submit keeps the invariant. *)
LEMMA SubmitStep ==
  ASSUME IInv, NEW f \in Flusher, Submit(f)
  PROVE  IInv'
  <1>1. /\ UNCHANGED <<bufVars, ctxDone, ctlVars>>
        /\ at[f] \notin {"out", "snapshot"} /\ at'[f] # "snapshot"
        /\ at' = [at EXCEPT ![f] = at'[f]] /\ snap' = [snap EXCEPT ![f] = snap'[f]]
        /\ at'[f] \in {"out", "v2", "v2 sent", "v1", "v1 sent"}
        /\ snap'[f] \in Count /\ accepted' \in Count /\ lost' \in Count
        /\ failed' \in SUBSET {"v1", "v2"}
        /\ \A k \in Kind : snap'[f][k] + accepted'[k] + lost'[k]
                            = snap[f][k] + accepted[k] + lost[k]
        /\ failed' = {} => failed = {} /\ lost' = lost
    BY SubmitEffect DEF IInv
  <1>2. TypeOK /\ at \in [Flusher -> {"out", "snapshot", "v2", "v2 sent", "v1", "v1 sent"}]
        /\ snap \in [Flusher -> Count]
    BY DEF IInv, TypeOK
  <1>3. \A g \in Flusher : g # f => at'[g] = at[g] /\ snap'[g] = snap[g]
    BY <1>1, <1>2
  <1>4. Holds(f)'
    BY <1>1, SubmitEffect DEF IInv, Holds, None
  <1>5. TypeOK'
    <2>1. /\ at' \in [Flusher -> {"out", "snapshot", "v2", "v2 sent", "v1", "v1 sent"}]
          /\ snap' \in [Flusher -> Count]
      BY <1>1, <1>2
    <2>2. \A g \in Flusher : Holds(g)'
      <3> SUFFICES ASSUME NEW g \in Flusher PROVE Holds(g)'
        OBVIOUS
      <3>1. CASE g = f
        BY <1>1, <1>4, <3>1 DEF Holds
      <3>2. CASE g # f
        BY <1>2, <1>3, <3>2 DEF TypeOK, Holds
      <3> QED
        BY <3>1, <3>2
    <2> QED
      BY <1>1, <1>2, <2>1, <2>2 DEF TypeOK, Holds, bufVars, sentVars, ctlVars, None
  <1>6. Conservation'
    <2> SUFFICES ASSUME NEW k \in Kind
                 PROVE  recorded'[k] = buf'[k] + snap'["loop"][k] + snap'["owner"][k]
                                         + accepted'[k] + lost'[k]
      BY DEF Conservation
    <2>1. recorded[k] = buf[k] + snap["loop"][k] + snap["owner"][k] + accepted[k] + lost[k]
      BY DEF IInv, Conservation
    <2>2. /\ recorded' = recorded /\ buf' = buf
          /\ snap'[f][k] + accepted'[k] + lost'[k] = snap[f][k] + accepted[k] + lost[k]
      BY <1>1 DEF bufVars
    <2>3. /\ buf[k] \in Nat /\ accepted[k] \in Nat /\ lost[k] \in Nat
          /\ snap["loop"][k] \in Nat /\ snap["owner"][k] \in Nat
      BY <1>2 DEF TypeOK, Count, Flusher
    <2>4. /\ accepted'[k] \in Nat /\ lost'[k] \in Nat
          /\ snap'["loop"][k] \in Nat /\ snap'["owner"][k] \in Nat
      BY <1>5 DEF TypeOK, Count, Flusher
    <2>5. CASE f = "loop"
      BY <1>3, <2>1, <2>2, <2>3, <2>4, <2>5 DEF Flusher
    <2>6. CASE f = "owner"
      BY <1>3, <2>1, <2>2, <2>3, <2>4, <2>6 DEF Flusher
    <2> QED
      BY <2>5, <2>6 DEF Flusher
  <1>7. Closing'
    BY <1>1, <1>3 DEF IInv, Closing, ctlVars, Flusher
  <1>8. Taken'
    <2>1. due' = due /\ recorded' = recorded /\ buf' = buf /\ owner' = owner
      BY <1>1 DEF bufVars, ctlVars
    <2>2. at'["owner"] # "snapshot" => at["owner"] # "snapshot"
      BY <1>1, <1>3 DEF Flusher
    <2> QED
      BY <2>1, <2>2 DEF IInv, Taken
  <1>9. LossHasCause'
    BY <1>1 DEF IInv, LossHasCause, None
  <1> QED
    BY <1>5, <1>6, <1>7, <1>8, <1>9 DEF IInv

-----------------------------------------------------------------------------
(* The other steps *)

LEMMA SnapshotStep ==
  ASSUME IInv, NEW f \in Flusher, Snapshot(f)
  PROVE  IInv'
  <1>1. /\ at[f] = "snapshot" /\ snap[f] = None
        /\ snap' = [snap EXCEPT ![f] = buf] /\ buf' = None
        /\ at' = [at EXCEPT ![f] = at'[f]]
        /\ at'[f] = IF buf = None THEN "out" ELSE IF buf["series"] > 0 THEN "v2" ELSE "v1"
        /\ UNCHANGED <<recorded, ctxDone, sentVars, ctlVars>>
    BY DEF Snapshot, BuffersReset, IInv, TypeOK
  <1>2. TypeOK /\ at \in [Flusher -> {"out", "snapshot", "v2", "v2 sent", "v1", "v1 sent"}]
        /\ snap \in [Flusher -> Count] /\ buf \in Count /\ None \in Count
    BY Counts DEF IInv, TypeOK
  <1>3. \A g \in Flusher : g # f => at'[g] = at[g] /\ snap'[g] = snap[g]
    BY <1>1, <1>2
  <1>4. Holds(f)'
    <2>1. snap'[f] = buf
      BY <1>1, <1>2
    <2>2. buf # None /\ ~(buf["series"] > 0) => buf["series"] = 0 /\ buf["points"] > 0
      <3>1. buf["series"] \in Nat /\ buf["points"] \in Nat
        BY <1>2 DEF Count, Kind
      <3>2. buf["series"] = 0 /\ buf["points"] = 0 => buf = None
        BY <1>2 DEF None, Count, Kind
      <3> QED
        BY <3>1, <3>2
    <2>3. None' = None
      BY DEF None
    <2> QED
      BY <1>1, <2>1, <2>2, <2>3 DEF Holds
  <1>5. TypeOK'
    <2>1. /\ at' \in [Flusher -> {"out", "snapshot", "v2", "v2 sent", "v1", "v1 sent"}]
          /\ snap' \in [Flusher -> Count]
      BY <1>1, <1>2
    <2>2. \A g \in Flusher : Holds(g)'
      <3> SUFFICES ASSUME NEW g \in Flusher PROVE Holds(g)'
        OBVIOUS
      <3>1. CASE g = f
        BY <1>1, <1>4, <3>1 DEF Holds
      <3>2. CASE g # f
        BY <1>2, <1>3, <3>2 DEF TypeOK, Holds
      <3> QED
        BY <3>1, <3>2
    <2> QED
      BY <1>1, <1>2, <2>1, <2>2 DEF TypeOK, Holds, bufVars, sentVars, ctlVars, None
  <1>6. Conservation'
    <2> SUFFICES ASSUME NEW k \in Kind
                 PROVE  recorded'[k] = buf'[k] + snap'["loop"][k] + snap'["owner"][k]
                                         + accepted'[k] + lost'[k]
      BY DEF Conservation
    <2>1. recorded[k] = buf[k] + snap["loop"][k] + snap["owner"][k] + accepted[k] + lost[k]
      BY DEF IInv, Conservation
    <2>2. /\ recorded' = recorded /\ accepted' = accepted /\ lost' = lost
          /\ buf'[k] = 0 /\ snap[f][k] = 0 /\ snap'[f][k] = buf[k]
      BY <1>1, <1>2 DEF sentVars, None
    <2>3. /\ buf[k] \in Nat /\ accepted[k] \in Nat /\ lost[k] \in Nat
          /\ snap["loop"][k] \in Nat /\ snap["owner"][k] \in Nat
      BY <1>2 DEF TypeOK, Count, Flusher
    <2>4. CASE f = "loop"
      BY <1>3, <2>1, <2>2, <2>3, <2>4 DEF Flusher
    <2>5. CASE f = "owner"
      BY <1>3, <2>1, <2>2, <2>3, <2>5 DEF Flusher
    <2> QED
      BY <2>4, <2>5 DEF Flusher
  <1>7. Closing'
    BY <1>1, <1>3 DEF IInv, Closing, ctlVars, Flusher
  <1>8. Taken'
    <2>1. due' = due /\ recorded' = recorded /\ owner' = owner /\ \A k \in Kind : buf'[k] = 0
      BY <1>1 DEF ctlVars, None
    <2>2. \A k \in Kind : due[k] \in Nat /\ due[k] <= recorded[k]
      BY <1>2 DEF TypeOK, Count, IInv, Taken
    <2>3. \A k \in Kind : due[k] + buf'[k] <= recorded[k]
      BY <2>1, <2>2
    <2> QED
      BY <2>1, <2>2, <2>3 DEF Taken
  <1>9. LossHasCause'
    BY <1>1 DEF IInv, LossHasCause, sentVars, None
  <1> QED
    BY <1>5, <1>6, <1>7, <1>8, <1>9 DEF IInv

LEMMA ObserveStep ==
  ASSUME IInv, NEW k \in Kind, Observe(k)
  PROVE  IInv'
  <1>1. /\ buf' = [buf EXCEPT ![k] = @ + 1] /\ recorded' = [recorded EXCEPT ![k] = @ + 1]
        /\ UNCHANGED <<snap, at, ctxDone, sentVars, ctlVars>>
    BY DEF Observe
  <1>2. TypeOK /\ buf \in Count /\ recorded \in Count
    BY DEF IInv, TypeOK
  <1>3. /\ buf' \in Count /\ recorded' \in Count
        /\ \A j \in Kind : /\ buf[j] \in Nat /\ recorded[j] \in Nat
                           /\ buf'[j] = IF j = k THEN buf[j] + 1 ELSE buf[j]
                           /\ recorded'[j] = IF j = k THEN recorded[j] + 1 ELSE recorded[j]
    BY <1>1, <1>2 DEF Count
  <1>4. TypeOK'
    BY <1>1, <1>2, <1>3 DEF TypeOK, sentVars, ctlVars, None
  <1>5. Conservation'
    <2> SUFFICES ASSUME NEW j \in Kind
                 PROVE  recorded'[j] = buf'[j] + snap'["loop"][j] + snap'["owner"][j]
                                         + accepted'[j] + lost'[j]
      BY DEF Conservation
    <2>1. recorded[j] = buf[j] + snap["loop"][j] + snap["owner"][j] + accepted[j] + lost[j]
      BY DEF IInv, Conservation
    <2>2. snap' = snap /\ accepted' = accepted /\ lost' = lost
      BY <1>1 DEF sentVars
    <2>3. /\ accepted[j] \in Nat /\ lost[j] \in Nat
          /\ snap["loop"][j] \in Nat /\ snap["owner"][j] \in Nat
      BY <1>2 DEF TypeOK, Count, Flusher
    <2> QED
      BY <1>3, <2>1, <2>2, <2>3
  <1>6. Closing' /\ LossHasCause'
    BY <1>1 DEF IInv, Closing, LossHasCause, ctlVars, sentVars, None
  <1>7. Taken'
    <2>1. due' = due /\ owner' = owner /\ at' = at
      BY <1>1 DEF ctlVars
    <2>2. \A j \in Kind : due[j] \in Nat
      BY <1>2 DEF TypeOK, Count
    <2>3. \A j \in Kind : due[j] <= recorded'[j]
      BY <1>3, <2>2 DEF IInv, Taken
    <2>4. owner = "closed" \/ (owner = "final" /\ at["owner"] # "snapshot") =>
            \A j \in Kind : due[j] + buf'[j] <= recorded'[j]
      BY <1>3, <2>2 DEF IInv, Taken
    <2> QED
      BY <2>1, <2>3, <2>4 DEF Taken
  <1> QED
    BY <1>4, <1>5, <1>6, <1>7 DEF IInv

(* The steps that move no sample. *)
LEMMA ControlStep ==
  ASSUME IInv, Tick \/ LoopStop \/ OwnerStep \/ CancelCtx \/ UNCHANGED vars
  PROVE  IInv'
  <1> USE DEF Enter
  <1>1. UNCHANGED <<bufVars, snap, sentVars>>
    BY DEF Tick, LoopStop, OwnerStep, CallFlush, CallClose, AwaitLoop, CloseReturns, CancelCtx,
       ctlVars, vars, bufVars, sentVars
  <1>2. TypeOK /\ at \in [Flusher -> {"out", "snapshot", "v2", "v2 sent", "v1", "v1 sent"}]
    BY DEF IInv, TypeOK
  <1>3. Conservation' /\ LossHasCause'
    BY <1>1 DEF IInv, Conservation, LossHasCause, bufVars, sentVars, None
  <1>4. Closing /\ Taken
    BY DEF IInv
  <1>5. Closing'
    <2>1. CASE Tick
      BY <1>2, <1>4, <2>1 DEF Closing, Tick, ctlVars, Flusher
    <2>2. CASE LoopStop
      BY <1>2, <1>4, <2>2 DEF Closing, LoopStop, StopSeen, Flusher
    <2>3. CASE CallFlush
      BY <1>2, <1>4, <2>3 DEF Closing, CallFlush, ctlVars, Flusher
    <2>4. CASE CallClose
      BY <1>2, <1>4, <2>4 DEF Closing, CallClose, Flusher
    <2>5. CASE AwaitLoop
      BY <1>2, <1>4, <2>5 DEF Closing, AwaitLoop, LoopEnded, Flusher
    <2>6. CASE CloseReturns
      BY <1>2, <1>4, <2>6 DEF Closing, CloseReturns, Flusher
    <2>7. CASE CancelCtx \/ UNCHANGED vars
      BY <1>4, <2>7 DEF Closing, CancelCtx, ctlVars, vars
    <2> QED
      BY <2>1, <2>2, <2>3, <2>4, <2>5, <2>6, <2>7 DEF OwnerStep
  <1>6. due' \in Count
    BY <1>2 DEF TypeOK, Tick, LoopStop, OwnerStep, CallFlush, CallClose, AwaitLoop,
       CloseReturns, CancelCtx, ctlVars, vars
  <1>7. \/ UNCHANGED at
        \/ \E f \in Flusher : at[f] = "out" /\ at' = [at EXCEPT ![f] = "snapshot"]
    BY <1>4 DEF Closing, Tick, LoopStop, OwnerStep, CallFlush, CallClose, AwaitLoop,
       CloseReturns, CancelCtx, ctlVars, vars, Flusher
  <1>8. TypeOK'
    <2>1. at' \in [Flusher -> {"out", "snapshot", "v2", "v2 sent", "v1", "v1 sent"}]
      BY <1>2, <1>7
    <2>2. \A g \in Flusher : Holds(g)'
      <3> SUFFICES ASSUME NEW g \in Flusher PROVE Holds(g)'
        OBVIOUS
      <3>1. snap'[g] = snap[g] /\ None' = None
        BY <1>1 DEF None
      <3>2. at'[g] = at[g] \/ (at[g] = "out" /\ at'[g] = "snapshot")
        BY <1>2, <1>7
      <3> QED
        BY <1>2, <3>1, <3>2 DEF TypeOK, Holds
    <2>3. /\ stopped' \in BOOLEAN /\ loopDone' \in BOOLEAN /\ ctxDone' \in BOOLEAN
          /\ owner' \in {"open", "stopping", "final", "closed"}
      BY <1>2 DEF TypeOK, Tick, LoopStop, OwnerStep, CallFlush, CallClose, AwaitLoop,
         CloseReturns, CancelCtx, ctlVars, vars
    <2> QED
      BY <1>1, <1>2, <1>6, <2>1, <2>2, <2>3 DEF TypeOK, Holds, bufVars, sentVars
  <1>9. Taken'
    <2>1. recorded' = recorded /\ buf' = buf
      BY <1>1 DEF bufVars
    <2>2. \A k \in Kind : due'[k] <= recorded[k]
      <3>1. due' = due \/ due' = recorded
        BY DEF Tick, LoopStop, OwnerStep, CallFlush, CallClose, AwaitLoop, CloseReturns,
           CancelCtx, ctlVars, vars
      <3>2. \A k \in Kind : recorded[k] \in Nat /\ due[k] <= recorded[k]
        BY <1>2, <1>4 DEF TypeOK, Count, Taken
      <3> QED
        BY <3>1, <3>2
    <2>3. owner' = "closed" \/ (owner' = "final" /\ at'["owner"] # "snapshot") =>
            /\ owner = "closed" \/ (owner = "final" /\ at["owner"] # "snapshot")
            /\ due' = due
      BY <1>2, <1>4 DEF Closing, Tick, LoopStop, OwnerStep, CallFlush, CallClose, AwaitLoop,
         CloseReturns, CancelCtx, ctlVars, vars, Flusher
    <2> QED
      BY <1>4, <2>1, <2>2, <2>3 DEF Taken
  <1> QED
    BY <1>3, <1>5, <1>8, <1>9 DEF IInv

-----------------------------------------------------------------------------
(* The theorems *)

(* IInv holds in every state of the backend. *)
THEOREM Invariance == Spec => []IInv
  <1>1. IInv /\ [Next]_vars => IInv'
    <2> SUFFICES ASSUME IInv, [Next]_vars PROVE IInv'
      OBVIOUS
    <2>1. ASSUME NEW k \in Kind, Observe(k) PROVE IInv'
      BY <2>1, ObserveStep
    <2>2. ASSUME NEW f \in Flusher, FlushStep(f) PROVE IInv'
      BY <2>2, SnapshotStep, SubmitStep DEF FlushStep, Submit
    <2>3. CASE Tick \/ LoopStop \/ OwnerStep \/ CancelCtx \/ UNCHANGED vars
      BY <2>3, ControlStep
    <2> QED
      BY <2>1, <2>2, <2>3 DEF Next, Closed
  <1> QED
    BY <1>1, InitInv, PTL DEF Spec

(* Every sample is in one place, whatever flushes overlap: none is         *)
(* submitted twice, and none is lost without an error (snapshotAndReset).  *)
THEOREM NothingLostOrDoubled == Spec => []Conservation
  BY Invariance, PTL DEF IInv

(* Close delivers what was observed before it, unless a submission failed. *)
THEOREM TailFlush == Spec => []CloseDelivers
  <1>1. IInv => CloseDelivers
    <2> SUFFICES ASSUME IInv, owner = "closed", failed = {}, NEW k \in Kind
                 PROVE  accepted[k] >= due[k]
      BY DEF CloseDelivers
    <2>1. at["loop"] = "out" /\ at["owner"] = "out"
      BY DEF IInv, Closing
    <2>2. snap["loop"][k] = 0 /\ snap["owner"][k] = 0 /\ lost[k] = 0
      BY <2>1 DEF IInv, TypeOK, Flusher, LossHasCause, None
    <2>3. due[k] + buf[k] <= recorded[k]
      BY DEF IInv, Taken
    <2>4. recorded[k] = buf[k] + snap["loop"][k] + snap["owner"][k] + accepted[k] + lost[k]
      BY DEF IInv, Conservation
    <2>5. buf[k] \in Nat /\ due[k] \in Nat /\ accepted[k] \in Nat
      BY DEF IInv, TypeOK, Count
    <2> QED
      BY <2>2, <2>3, <2>4, <2>5
  <1> QED
    BY <1>1, Invariance, PTL

(* Nobody is inside Flush once Close has returned. *)
THEOREM Quiet == Spec => []QuietAfterClose
  <1>1. IInv => QuietAfterClose
    BY DEF IInv, Closing, QuietAfterClose, Flusher
  <1> QED
    BY <1>1, Invariance, PTL

-----------------------------------------------------------------------------
(* Gauges *)

(* Every step of the backend with gauges is one of MetricsBackend. *)
LEMMA StepRefines ==
  ASSUME GaugeNext
  PROVE  [Next]_vars
  <1>1. CASE SetGauge
    BY <1>1 DEF SetGauge, Next, Kind
  <1>2. ASSUME NEW f \in Flusher, GaugeFlushStep(f)
        PROVE  [Next]_vars
    <2>1. FlushStep(f) \/ UNCHANGED vars
      BY <1>2 DEF GaugeFlushStep, TakeSnapshot, ReadClock, SendDated, SeriesSubmitted,
         PointsSubmitted, SubmitRefused, FlushStep
    <2> QED
      BY <2>1 DEF Next
  <1>3. CASE GaugeCallClose
    BY <1>3 DEF GaugeCallClose, Next, OwnerStep
  <1>4. CASE ClockTick
    BY <1>4 DEF ClockTick
  <1>5. CASE Apart
    BY <1>5 DEF Apart, Next, OwnerStep
  <1> QED
    BY <1>1, <1>2, <1>3, <1>4, <1>5 DEF GaugeNext

(* The samples and the shutdown of the backend do not depend on gauges: it *)
(* implements MetricsBackend, whose theorems hold of it.                   *)
THEOREM GaugesRefine == GaugeSpec => Spec
  <1>1. GaugeInit => Init
    BY DEF GaugeInit
  <1>2. [GaugeNext]_<<vars, gaugeVars>> => [Next]_vars
    BY StepRefines
  <1> QED
    BY <1>1, <1>2, PTL DEF GaugeSpec, Spec

-----------------------------------------------------------------------------
(* Steps that move no gauge *)

(* Of the backend, the invariant reads where the flushers and Close are.   *)
LEMMA GaugesUnmoved ==
  ASSUME GaugeIInv, UNCHANGED <<gauge, taken, set, delivered, dueGauge>>,
         buf'["series"] >= buf["series"], buf["series"] \in Nat, buf'["series"] \in Nat,
         failed' = {} => failed = {}, Past' => Past,
         \A f \in Flusher : HasSeries(f) => HasSeries(f)'
  PROVE  GaugeIInv'
  <1>1. GaugeTypeOK' /\ dueGauge' <= set'
    BY DEF GaugeIInv, GaugeTypeOK
  <1>2. gauge' > 0 => buf'["series"] > 0
    <2>1. gauge' = gauge /\ (gauge > 0 => buf["series"] > 0)
      BY DEF GaugeIInv
    <2>2. \A m, n \in Nat : m > 0 /\ n >= m => n > 0
      OBVIOUS
    <2> QED
      BY <2>1, <2>2, Zenon
  <1>3. \A f \in Flusher : taken'[f] > 0 => HasSeries(f)'
    BY DEF GaugeIInv
  <1>4. /\ failed' = {} => set' = gauge' \/ Underway(set)'
        /\ failed' = {} /\ Past' => Underway(dueGauge)'
    BY DEF GaugeIInv, Underway
  <1> QED
    BY <1>1, <1>2, <1>3, <1>4 DEF GaugeIInv

(* Control: nothing is taken, sent or set. *)
LEMMA ControlKeepsGauges ==
  ASSUME IInv, GaugeIInv, UNCHANGED gaugeVars,
         Apart \/ UNCHANGED vars
  PROVE  GaugeIInv'
  <1>0. UNCHANGED <<gauge, taken, set, delivered, dueGauge>>
    BY DEF gaugeVars
  <1>9. buf["series"] \in Nat /\ buf["points"] \in Nat
    BY DEF IInv, TypeOK, Count, Kind
  <1>1. at \in [Flusher -> {"out", "snapshot", "v2", "v2 sent", "v1", "v1 sent"}]
    BY DEF IInv, TypeOK, Count, Kind
  <1>2. ASSUME NEW k \in Kind, Observe(k)
        PROVE  buf'["series"] \in Nat /\ buf'["series"] >= buf["series"]
    <2>1. buf' = [buf EXCEPT ![k] = @ + 1] /\ buf \in Count
      BY <1>2 DEF Observe, IInv, TypeOK
    <2>2. buf'["series"] = buf["series"] \/ buf'["series"] = buf["series"] + 1
      BY <2>1 DEF Kind, Count
    <2>3. \A m, n \in Nat : n = m \/ n = m + 1 => n >= m
      OBVIOUS
    <2>4. \A m \in Nat : m + 1 \in Nat
      OBVIOUS
    <2> QED
      BY <1>9, <2>2, <2>3, <2>4, Zenon
  <1>3. buf'["series"] \in Nat /\ buf'["series"] >= buf["series"]
    BY <1>9, <1>2 DEF Apart, Tick, LoopStop, CallFlush, AwaitLoop, CloseReturns, CancelCtx,
       Closed, vars, bufVars
  <1>4. failed' = failed
    BY DEF Apart, Observe, Tick, LoopStop, CallFlush, AwaitLoop, CloseReturns, CancelCtx,
       Closed, vars, sentVars
  <1>5. \A f \in Flusher : HasSeries(f) => HasSeries(f)'
    BY <1>1 DEF Apart, Observe, Tick, LoopStop, CallFlush, AwaitLoop, CloseReturns, CancelCtx,
       Closed, vars, Enter, IInv, Closing, Flusher, HasSeries
  <1>6. Past' => Past
    BY <1>1 DEF Past, Apart, Observe, Tick, LoopStop, CallFlush, AwaitLoop, CloseReturns,
       CancelCtx, Closed, vars, Enter, IInv, Closing, Flusher, ctlVars
  <1> QED
    BY <1>0, <1>9, <1>3, <1>4, <1>5, <1>6, GaugesUnmoved

(* Reading the clock, starting a submission, a second that passes. *)
LEMMA QuietStepsKeepGauges ==
  ASSUME IInv, GaugeIInv,
         ClockTick \/ \E f \in Flusher : ReadClock(f) \/ SendDated(f)
  PROVE  GaugeIInv'
  <1>1. UNCHANGED <<gauge, taken, set, delivered, dueGauge>>
    BY DEF ClockTick, ReadClock, SendDated, gaugeVars
  <1>2. UNCHANGED <<buf, failed, owner>>
    BY DEF ClockTick, ReadClock, SendDated, Send, vars, bufVars, sentVars, ctlVars
  <1>3. buf["series"] \in Nat
    BY DEF IInv, TypeOK, Count, Kind
  <1>4. at' = at \/ \E f \in Flusher : SendDated(f)
    BY DEF ClockTick, ReadClock, vars
  <1>5. ASSUME NEW f \in Flusher, SendDated(f)
        PROVE  /\ at[f] \in {"v2", "v1"}
               /\ at' = [at EXCEPT ![f] = IF at[f] = "v2" THEN "v2 sent" ELSE "v1 sent"]
    BY <1>5 DEF SendDated, Send
  <1>6. \A g \in Flusher : HasSeries(g) => HasSeries(g)'
    BY <1>4, <1>5 DEF HasSeries, IInv, TypeOK
  <1>7. Past' => Past
    BY <1>2, <1>4, <1>5 DEF Past, IInv, TypeOK, Flusher
  <1>8. buf'["series"] >= buf["series"]
    BY <1>2, <1>3
  <1> QED
    BY <1>1, <1>2, <1>3, <1>6, <1>7, <1>8, GaugesUnmoved

-----------------------------------------------------------------------------
(* Steps that move a gauge *)

(* A value is set: it is in the buffers. *)
LEMMA SetGaugeStep ==
  ASSUME IInv, GaugeIInv, SetGauge
  PROVE  GaugeIInv'
  <1>1. /\ set' = set + 1 /\ gauge' = set'
        /\ UNCHANGED <<taken, delivered, dueGauge, owner, failed, at>>
    BY DEF SetGauge, LastWins, Observe, vars, sentVars, ctlVars
  <1>2. GaugeTypeOK' /\ dueGauge' <= set'
    BY <1>1 DEF GaugeIInv, GaugeTypeOK
  <1>3. buf'["series"] > 0
    <2>1. CASE gauge = 0
      <3>1. buf' = [buf EXCEPT !["series"] = @ + 1] /\ buf \in Count
        BY <2>1 DEF SetGauge, Observe, IInv, TypeOK
      <3>2. buf'["series"] = buf["series"] + 1 /\ buf["series"] \in Nat
        BY <3>1 DEF Count, Kind
      <3> QED
        BY <3>2
    <2>2. CASE gauge # 0
      <3>1. buf' = buf
        BY <2>2 DEF SetGauge, vars
      <3>2. gauge > 0
        BY <2>2 DEF GaugeIInv, GaugeTypeOK
      <3> QED
        BY <3>1, <3>2 DEF GaugeIInv
    <2> QED
      BY <2>1, <2>2
  <1>4. \A f \in Flusher : taken'[f] > 0 => HasSeries(f)'
    BY <1>1 DEF GaugeIInv, HasSeries
  <1>5. failed' = {} /\ Past' => Underway(dueGauge)'
    BY <1>1 DEF GaugeIInv, Past, Underway
  <1> QED
    BY <1>1, <1>2, <1>3, <1>4, <1>5 DEF GaugeIInv

(* A flusher takes the value with the rest of the buffers. *)
LEMMA TakeSnapshotStep ==
  ASSUME IInv, GaugeIInv, NEW f \in Flusher, TakeSnapshot(f)
  PROVE  GaugeIInv'
  <1>1. /\ taken' = [taken EXCEPT ![f] = gauge] /\ gauge' = 0
        /\ UNCHANGED <<set, delivered, dueGauge, owner, failed>>
    BY DEF TakeSnapshot, Snapshot, sentVars, ctlVars
  <1>2. /\ at[f] = "snapshot"
        /\ at' = [at EXCEPT ![f] = IF buf = None THEN "out"
                                   ELSE IF buf["series"] > 0 THEN "v2" ELSE "v1"]
    BY DEF TakeSnapshot, Snapshot
  <1>3. taken \in [Flusher -> Nat] /\ gauge \in Nat /\ set \in Nat /\ dueGauge \in Nat
    BY DEF GaugeIInv, GaugeTypeOK
  <1>4. GaugeTypeOK' /\ dueGauge' <= set'
    BY <1>1, <1>3 DEF GaugeIInv, GaugeTypeOK
  <1>5. taken[f] = 0
    <2>1. ~HasSeries(f)
      BY <1>2 DEF HasSeries
    <2> QED
      BY <1>3, <2>1 DEF GaugeIInv
  <1>6. ASSUME NEW g \in Flusher, taken'[g] > 0
        PROVE  HasSeries(g)'
    <2>1. CASE g = f
      <3>1. gauge > 0
        BY <1>1, <1>3, <1>6, <2>1
      <3>2. buf["series"] > 0
        BY <3>1 DEF GaugeIInv
      <3>3. buf # None
        BY <3>2 DEF None, Kind
      <3> QED
        BY <1>2, <2>1, <3>2, <3>3 DEF HasSeries, IInv, TypeOK
    <2>2. CASE g # f
      BY <1>1, <1>2, <1>3, <1>6, <2>2 DEF GaugeIInv, HasSeries, IInv, TypeOK
    <2> QED
      BY <2>1, <2>2
  <1>7. ASSUME NEW v \in Nat, Underway(v)
        PROVE  Underway(v)'
    <2>1. v <= delivered \/ v = 0 \/ \E g \in Flusher \ {f} : v <= taken[g]
      BY <1>3, <1>5, <1>7 DEF Underway
    <2>2. \A g \in Flusher \ {f} : taken'[g] = taken[g]
      BY <1>1, <1>3
    <2>3. v = 0 => v <= taken'[f]
      BY <1>1, <1>3
    <2> QED
      BY <1>1, <2>1, <2>2, <2>3 DEF Underway
  <1>8. failed = {} => Underway(set)'
    <2>1. set = gauge => set <= taken'[f]
      BY <1>1, <1>3
    <2> QED
      BY <1>3, <1>7, <2>1, <1>1 DEF GaugeIInv, Underway
  <1>9. failed = {} => Underway(dueGauge)'
    <2>1. dueGauge <= set
      BY DEF GaugeIInv
    <2>2. taken' \in [Flusher -> Nat] /\ delivered' \in Nat
      BY <1>4 DEF GaugeTypeOK
    <2> QED
      BY <1>1, <1>3, <1>8, <2>1, <2>2 DEF Underway
  <1> QED
    BY <1>1, <1>3, <1>4, <1>6, <1>8, <1>9 DEF GaugeIInv, Underway, Past

(* A submission ends: the value was taken in, or something failed. *)
LEMMA SubmissionEnds ==
  ASSUME IInv, GaugeIInv, NEW f \in Flusher,
         SeriesSubmitted(f) \/ PointsSubmitted(f) \/ SubmitRefused(f)
  PROVE  GaugeIInv'
  <1> DEFINE Newer == IF taken[f] > delivered THEN taken[f] ELSE delivered
  <1>1. /\ taken' = [taken EXCEPT ![f] = 0]
        /\ UNCHANGED <<gauge, set, dueGauge>>
    BY DEF SeriesSubmitted, PointsSubmitted, SubmitRefused, Release
  <1>2. UNCHANGED <<buf, owner>>
    BY DEF SeriesSubmitted, PointsSubmitted, SubmitRefused, SeriesAccepted, SeriesFailed,
       PointsAccepted, PointsFailed, Refused, bufVars, ctlVars
  <1>3. /\ at[f] # "snapshot"
        /\ \E a \in {"v1", "out"} : at' = [at EXCEPT ![f] = a]
    BY DEF SeriesSubmitted, PointsSubmitted, SubmitRefused, SeriesAccepted, SeriesFailed,
       PointsAccepted, PointsFailed, Refused, Dropped, PointsIfAny
  <1>4. /\ taken \in [Flusher -> Nat] /\ gauge \in Nat /\ set \in Nat /\ dueGauge \in Nat
        /\ delivered \in Nat
    BY DEF GaugeIInv, GaugeTypeOK
  <1>5. /\ delivered' \in {delivered, Newer}
        /\ failed' = {} => failed = {} /\ delivered' >= delivered /\ delivered' >= taken[f]
    <2>1. CASE SeriesAccepted(f) /\ Show(f)
      <3>1. failed' = failed
        BY <2>1 DEF SeriesAccepted, Delivered
      <3>2. \/ taken[f] = 0 /\ delivered' = delivered
            \/ delivered' = Newer
        BY <2>1 DEF Show
      <3>3. taken[f] \in Nat
        BY <1>4
      <3> QED
        BY <1>4, <3>1, <3>2, <3>3
    <2>2. CASE PointsAccepted(f) /\ NotShown
      <3>1. ~HasSeries(f) /\ delivered' = delivered /\ failed' = failed
        BY <2>2 DEF PointsAccepted, Delivered, NotShown, HasSeries
      <3>2. taken[f] = 0
        BY <1>4, <3>1 DEF GaugeIInv
      <3> QED
        BY <1>4, <3>1, <3>2
    <2>3. CASE /\ Refused(f) \/ \E t \in BOOLEAN : SeriesFailed(f, t) \/ PointsFailed(f, t)
               /\ Show(f) \/ NotShown
      <3>1. failed' # {}
        BY <2>3 DEF Refused, SeriesFailed, PointsFailed, Dropped
      <3>2. delivered' \in {delivered, Newer}
        BY <2>3 DEF Show, NotShown
      <3> QED
        BY <3>1, <3>2
    <2> QED
      BY <2>1, <2>2, <2>3 DEF SeriesSubmitted, PointsSubmitted, SubmitRefused
  <1>6. GaugeTypeOK' /\ dueGauge' <= set'
    BY <1>1, <1>4, <1>5 DEF GaugeIInv, GaugeTypeOK
  <1>7. gauge' > 0 => buf'["series"] > 0
    BY <1>1, <1>2 DEF GaugeIInv
  <1>8. ASSUME NEW g \in Flusher, taken'[g] > 0
        PROVE  HasSeries(g)'
    <2>1. g # f /\ taken'[g] = taken[g]
      BY <1>1, <1>4, <1>8
    <2> QED
      BY <1>3, <1>8, <2>1 DEF GaugeIInv, HasSeries, IInv, TypeOK
  <1>9. ASSUME failed' = {}, NEW v \in Nat, Underway(v)
        PROVE  Underway(v)'
    <2>1. \A g \in Flusher \ {f} : taken'[g] = taken[g]
      BY <1>1, <1>4
    <2>2. v <= delivered \/ v <= taken[f] => v <= delivered'
      BY <1>4, <1>5, <1>9
    <2> QED
      BY <1>9, <2>1, <2>2 DEF Underway
  <1>10. failed' = {} => set' = gauge' \/ Underway(set)'
    BY <1>1, <1>4, <1>5, <1>9 DEF GaugeIInv, Underway
  <1>11. Past' => Past
    BY <1>2, <1>3 DEF Past, IInv, TypeOK, Flusher
  <1>12. failed' = {} /\ Past' => Underway(dueGauge)'
    BY <1>1, <1>4, <1>5, <1>9, <1>11 DEF GaugeIInv, Underway
  <1> QED
    BY <1>6, <1>7, <1>8, <1>10, <1>12 DEF GaugeIInv

LEMMA CloseStep ==
  ASSUME GaugeIInv, GaugeCallClose
  PROVE  GaugeIInv'
  <1>1. /\ UNCHANGED <<gauge, taken, set, delivered, buf, at, failed>>
        /\ dueGauge' = set /\ owner' = "stopping"
    BY DEF GaugeCallClose, CallClose, bufVars, sentVars
  <1>2. GaugeTypeOK' /\ dueGauge' <= set'
    BY <1>1 DEF GaugeIInv, GaugeTypeOK
  <1>3. ~Past'
    BY <1>1 DEF Past
  <1> QED
    BY <1>1, <1>2, <1>3 DEF GaugeIInv, HasSeries, Underway

-----------------------------------------------------------------------------
(* GaugeIInv holds in every state. *)
THEOREM GaugeInvariance == GaugeSpec => []GaugeIInv
  <1>1. GaugeInit => GaugeIInv
    <2> SUFFICES ASSUME GaugeInit PROVE GaugeIInv
      OBVIOUS
    <2>1. GaugeTypeOK /\ dueGauge <= set /\ ~(gauge > 0) /\ owner = "open"
      BY DEF GaugeInit, GaugeTypeOK, Init
    <2>2. \A f \in Flusher : ~(taken[f] > 0)
      BY DEF GaugeInit
    <2> QED
      BY <2>1, <2>2 DEF GaugeIInv, GaugeInit, Past
  <1>2. IInv /\ GaugeIInv /\ [GaugeNext]_<<vars, gaugeVars>> => GaugeIInv'
    <2> SUFFICES ASSUME IInv, GaugeIInv, [GaugeNext]_<<vars, gaugeVars>>
                 PROVE  GaugeIInv'
      OBVIOUS
    <2>1. ASSUME NEW f \in Flusher, GaugeFlushStep(f) PROVE GaugeIInv'
      BY <2>1, TakeSnapshotStep, QuietStepsKeepGauges, SubmissionEnds DEF GaugeFlushStep
    <2>2. CASE SetGauge
      BY <2>2, SetGaugeStep
    <2>3. CASE GaugeCallClose
      BY <2>3, CloseStep
    <2>4. CASE ClockTick
      BY <2>4, QuietStepsKeepGauges
    <2>5. CASE (Apart \/ UNCHANGED vars) /\ UNCHANGED gaugeVars
      BY <2>5, ControlKeepsGauges
    <2> QED
      BY <2>1, <2>2, <2>3, <2>4, <2>5 DEF GaugeNext
  <1> QED
    BY <1>1, <1>2, GaugesRefine, Invariance, PTL DEF GaugeSpec

(* The value last set before Close reaches Datadog unless a submission     *)
(* failed, whichever flush of the two carries it.                          *)
THEOREM LastValueDelivered == GaugeSpec => []GaugeDelivered
  <1>1. IInv /\ GaugeIInv => GaugeDelivered
    <2> SUFFICES ASSUME IInv, GaugeIInv, owner = "closed", failed = {}
                 PROVE  delivered >= dueGauge
      BY DEF GaugeDelivered
    <2>1. Underway(dueGauge)
      BY DEF GaugeIInv, Past
    <2>2. ASSUME NEW f \in Flusher PROVE taken[f] = 0
      <3>1. at[f] = "out"
        BY DEF IInv, Closing, Flusher
      <3>2. ~HasSeries(f)
        BY <3>1 DEF HasSeries
      <3> QED
        BY <3>2 DEF GaugeIInv, GaugeTypeOK
    <2>3. dueGauge \in Nat /\ delivered \in Nat
      BY DEF GaugeIInv, GaugeTypeOK
    <2> QED
      BY <2>1, <2>2, <2>3 DEF Underway
  <1> QED
    BY <1>1, GaugeInvariance, GaugesRefine, Invariance, PTL

-----------------------------------------------------------------------------
(* The newest value is the one shown *)

(* Where the flushers are decides only whether a date has been read. *)
LEMMA DatesUnmoved ==
  ASSUME ShownIInv, UNCHANGED gaugeVars,
         \A f \in Flusher : at'[f] \in {"out", "snapshot"} => at[f] \in {"out", "snapshot"},
         \A f \in Flusher : at'[f] \in {"v2 sent", "v1 sent"} => stamp[f] > 0
  PROVE  ShownIInv'
  <1>1. UNCHANGED <<gauge, taken, clock, stamp, points, set, delivered, overlapped>>
    BY DEF gaugeVars
  <1>2. DatesOK'
    BY <1>1 DEF ShownIInv, DatesOK, Seconds
  <1>3. /\ NewestShown' = NewestShown /\ InOrder' = InOrder
    BY <1>1 DEF NewestShown, InOrder, Seconds
  <1> QED
    BY <1>1, <1>2, <1>3 DEF ShownIInv

(* What the steps below read of it. *)
LEMMA ShownTypes ==
  ASSUME ShownIInv
  PROVE  /\ clock \in Nat /\ clock \in Seconds /\ MaxClock \in Nat
         /\ points \in [Seconds -> Nat] /\ \A s \in Seconds : points[s] > 0 => s <= clock
         /\ stamp \in [Flusher -> 0..clock]
  <1>1. clock \in Seconds /\ MaxClock \in Nat
    BY GaugeBoundsAssumption DEF ShownIInv, DatesOK
  <1>2. clock \in Nat
    BY <1>1 DEF Seconds
  <1> QED
    BY <1>1, <1>2 DEF ShownIInv, DatesOK

(* Control and the start of a submission. *)
LEMMA ControlKeepsShown ==
  ASSUME IInv, ShownIInv, UNCHANGED gaugeVars,
         Apart \/ UNCHANGED vars \/ \E f \in Flusher : stamp[f] > 0 /\ Send(f)
  PROVE  ShownIInv'
  <1>1. at \in [Flusher -> {"out", "snapshot", "v2", "v2 sent", "v1", "v1 sent"}]
    BY DEF IInv, TypeOK, Count, Kind
  <1>2. \A f \in Flusher : at[f] \in {"v2 sent", "v1 sent"} => stamp[f] > 0
    BY DEF ShownIInv, DatesOK
  <1>3. CASE Apart \/ UNCHANGED vars
    <2>1. \/ at' = at
          \/ \E g \in Flusher : at[g] = "out" /\ at' = [at EXCEPT ![g] = "snapshot"]
      BY <1>1, <1>3 DEF Apart, Observe, Tick, LoopStop, CallFlush, AwaitLoop, CloseReturns,
         CancelCtx, Closed, vars, Enter, IInv, Closing, Flusher
    <2> QED
      BY <1>1, <1>2, <2>1, DatesUnmoved
  <1>4. ASSUME NEW f \in Flusher, stamp[f] > 0, Send(f)
        PROVE  ShownIInv'
    <2>1. /\ at[f] \in {"v2", "v1"}
          /\ at' = [at EXCEPT ![f] = IF at[f] = "v2" THEN "v2 sent" ELSE "v1 sent"]
      BY <1>4 DEF Send
    <2> QED
      BY <1>1, <1>2, <1>4, <2>1, DatesUnmoved
  <1> QED
    BY <1>3, <1>4

(* A second passes. *)
LEMMA ClockKeepsShown ==
  ASSUME ShownIInv, ClockTick
  PROVE  ShownIInv'
  <1>1. /\ clock' = clock + 1 /\ clock < MaxClock
        /\ UNCHANGED <<gauge, taken, stamp, points, set, delivered, overlapped, at>>
    BY DEF ClockTick, vars, ctlVars
  <1>2. DatesOK'
    <2>1. /\ clock \in 1..MaxClock /\ MaxClock \in Nat
          /\ points \in [Seconds -> Nat] /\ \A s \in Seconds : points[s] > 0 => s <= clock
          /\ stamp \in [Flusher -> 0..clock]
      BY GaugeBoundsAssumption DEF ShownIInv, DatesOK, Seconds
    <2>2. clock' \in Seconds
      BY <1>1, <2>1 DEF Seconds
    <2>3. \A s \in Seconds : points[s] > 0 => s <= clock'
      BY <1>1, <2>1 DEF Seconds
    <2>4. stamp \in [Flusher -> 0..clock']
      BY <1>1, <2>1
    <2> QED
      BY <1>1, <2>1, <2>2, <2>3, <2>4 DEF ShownIInv, DatesOK
  <1>3. NewestShown' = NewestShown /\ InOrder' = InOrder
    BY <1>1 DEF NewestShown, InOrder
  <1> QED
    BY <1>1, <1>2, <1>3 DEF ShownIInv

(* The clock is read: no value is dated later. *)
LEMMA DateIsLatest ==
  ASSUME IInv, ShownIInv, NEW f \in Flusher, ReadClock(f)
  PROVE  ShownIInv'
  <1>1. /\ at[f] \in {"v2", "v1"} /\ stamp' = [stamp EXCEPT ![f] = clock]
        /\ UNCHANGED <<gauge, taken, clock, points, set, delivered, overlapped, at>>
    BY DEF ReadClock, vars, ctlVars
  <1>2. /\ clock \in 1..MaxClock /\ MaxClock \in Nat
        /\ \A s \in Seconds : points[s] > 0 => s <= clock
        /\ stamp \in [Flusher -> 0..clock]
    BY GaugeBoundsAssumption DEF ShownIInv, DatesOK, Seconds
  <1>3. /\ stamp' \in [Flusher -> 0..clock] /\ stamp'[f] = clock /\ clock > 0
        /\ \A g \in Flusher : g # f => stamp'[g] = stamp[g]
    BY <1>1, <1>2
  <1>4. DatesOK'
    BY <1>1, <1>2, <1>3 DEF ShownIInv, DatesOK
  <1>5. InOrder => InOrder'
    BY <1>1, <1>2, <1>3 DEF InOrder
  <1>6. NewestShown' = NewestShown
    BY <1>1 DEF NewestShown
  <1> QED
    BY <1>1, <1>4, <1>5, <1>6 DEF ShownIInv

(* A value is set: it is newer than any other. *)
LEMMA SetIsNewest ==
  ASSUME GaugeIInv, ShownIInv, SetGauge
  PROVE  ShownIInv'
  <1>1. /\ set' = set + 1 /\ gauge' = set + 1
        /\ UNCHANGED <<taken, clock, stamp, points, delivered, overlapped, at>>
    BY DEF SetGauge, LastWins, Observe, vars, ctlVars
  <1>2. DatesOK'
    BY <1>1 DEF ShownIInv, DatesOK
  <1>3. /\ gauge \in Nat /\ set \in Nat /\ delivered \in Nat /\ taken \in [Flusher -> Nat]
        /\ gauge <= set /\ delivered <= set /\ \A f \in Flusher : taken[f] <= set
    BY DEF GaugeIInv, GaugeTypeOK, ShownIInv
  <1>4. gauge' <= set' /\ delivered' <= set' /\ \A f \in Flusher : taken'[f] <= set'
    BY <1>1, <1>3
  <1>5. InOrder => InOrder'
    <2>1. gauge' > delivered' /\ \A f \in Flusher : gauge' > taken'[f]
      BY <1>1, <1>3
    <2> QED
      BY <1>1, <2>1 DEF InOrder
  <1>6. NewestShown' = NewestShown
    BY <1>1 DEF NewestShown
  <1> QED
    BY <1>1, <1>2, <1>4, <1>5, <1>6 DEF ShownIInv

(* A snapshot takes the value when no other is on its way, or overlaps. *)
LEMMA SnapshotKeepsOrder ==
  ASSUME IInv, GaugeIInv, ShownIInv, NEW f \in Flusher, TakeSnapshot(f)
  PROVE  ShownIInv'
  <1>1. /\ taken' = [taken EXCEPT ![f] = gauge] /\ gauge' = 0
        /\ overlapped' = (overlapped \/ (gauge > 0 /\ \E g \in Flusher \ {f} : taken[g] > 0))
        /\ UNCHANGED <<clock, stamp, points, set, delivered>>
    BY DEF TakeSnapshot
  <1>2. /\ at[f] = "snapshot"
        /\ at' = [at EXCEPT ![f] = IF buf = None THEN "out"
                                   ELSE IF buf["series"] > 0 THEN "v2" ELSE "v1"]
        /\ at \in [Flusher -> {"out", "snapshot", "v2", "v2 sent", "v1", "v1 sent"}]
    BY DEF TakeSnapshot, Snapshot, IInv, TypeOK
  <1>3. taken \in [Flusher -> Nat] /\ gauge \in Nat /\ set \in Nat /\ delivered \in Nat
    BY DEF GaugeIInv, GaugeTypeOK
  <1>4. stamp \in [Flusher -> 0..clock] /\ clock \in Nat
    BY ShownTypes
  <1>5. taken[f] = 0 /\ stamp[f] = 0
    <2>1. ~HasSeries(f)
      BY <1>2 DEF HasSeries
    <2>2. ~(taken[f] > 0) /\ ~(stamp[f] > 0)
      BY <1>2, <2>1 DEF GaugeIInv, ShownIInv, DatesOK
    <2> QED
      BY <1>3, <1>4, <2>2
  <1>6. taken'[f] = gauge /\ \A g \in Flusher : g # f => taken'[g] = taken[g]
    BY <1>1, <1>3
  <1>7. DatesOK'
    <2>1. \A g \in Flusher : /\ stamp[g] > 0 => at'[g] \notin {"out", "snapshot"}
                             /\ at'[g] \in {"v2 sent", "v1 sent"} => stamp[g] > 0
      BY <1>2, <1>4, <1>5 DEF ShownIInv, DatesOK
    <2> QED
      BY <1>1, <2>1 DEF ShownIInv, DatesOK
  <1>8. gauge' <= set' /\ delivered' <= set' /\ \A g \in Flusher : taken'[g] <= set'
    BY <1>1, <1>3, <1>6 DEF ShownIInv
  <1>9. ASSUME ~overlapped'
        PROVE  InOrder'
    <2>1. InOrder /\ (gauge > 0 => \A g \in Flusher : g # f => ~(taken[g] > 0))
      BY <1>1, <1>9 DEF ShownIInv
    <2>2. \A g, h \in Flusher : taken'[g] > 0 /\ taken'[h] > 0 => g = h
      BY <1>6, <2>1 DEF InOrder
    <2>3. ~(gauge' > 0)
      BY <1>1
    <2>4. \A g \in Flusher : taken'[g] > 0 =>
            /\ taken'[g] > delivered
            /\ stamp[g] > 0 => \A s \in Seconds : points[s] > 0 => s <= stamp[g]
      <3>1. ~(stamp[f] > 0)
        BY <1>5
      <3> QED
        BY <1>6, <2>1, <3>1 DEF InOrder
    <2> QED
      BY <1>1, <2>2, <2>3, <2>4 DEF InOrder
  <1>10. NewestShown'
    BY <1>1 DEF ShownIInv, NewestShown
  <1> QED
    BY <1>7, <1>8, <1>9, <1>10 DEF ShownIInv

(* A submission ends: a value shown is the newest, at the latest second. *)
LEMMA ShownInOrder ==
  ASSUME IInv, GaugeIInv, ShownIInv, NEW f \in Flusher,
         SeriesSubmitted(f) \/ PointsSubmitted(f) \/ SubmitRefused(f)
  PROVE  ShownIInv'
  <1>1. /\ taken' = [taken EXCEPT ![f] = 0]
        /\ stamp' = [stamp EXCEPT ![f] = IF at'[f] = "out" THEN 0 ELSE stamp[f]]
        /\ UNCHANGED <<gauge, clock, set, overlapped>>
    BY DEF SeriesSubmitted, PointsSubmitted, SubmitRefused, Release, SecondAfter
  <1>2. \E a \in {"v1", "out"} : at' = [at EXCEPT ![f] = a]
    BY DEF SeriesSubmitted, PointsSubmitted, SubmitRefused, SeriesAccepted, SeriesFailed,
       PointsAccepted, PointsFailed, Refused, Dropped, PointsIfAny
  <1>3. /\ taken \in [Flusher -> Nat] /\ gauge \in Nat /\ set \in Nat /\ delivered \in Nat
        /\ at \in [Flusher -> {"out", "snapshot", "v2", "v2 sent", "v1", "v1 sent"}]
    BY DEF GaugeIInv, GaugeTypeOK, IInv, TypeOK
  <1>b. 0 <= set
    <2>1. set \in Nat
      BY DEF GaugeIInv, GaugeTypeOK
    <2> QED
      BY <2>1
  <1>c. taken \in [Flusher -> Nat]
    BY DEF GaugeIInv, GaugeTypeOK
  <1>4. /\ clock \in Nat /\ points \in [Seconds -> Nat]
        /\ \A s \in Seconds : points[s] > 0 => s <= clock
        /\ stamp \in [Flusher -> 0..clock]
    BY ShownTypes
  <1>5. /\ taken'[f] = 0 /\ \A g \in Flusher : g # f => taken'[g] = taken[g]
        /\ \A g \in Flusher : g # f => stamp'[g] = stamp[g]
        /\ stamp'[f] \in {0, stamp[f]} /\ (at'[f] = "out" => stamp'[f] = 0)
    <2> stamp[f] \in 0..clock
      BY <1>4
    <2> QED
      BY <1>1, <1>3, <1>4
  <1>a. stamp' \in [Flusher -> 0..clock]
    <2> stamp[f] \in 0..clock /\ 0 \in 0..clock
      BY <1>4
    <2> QED
      BY <1>1, <1>4
  <1>6. \A g \in Flusher : /\ stamp'[g] > 0 => at'[g] \notin {"out", "snapshot"}
                           /\ at'[g] \in {"v2 sent", "v1 sent"} => stamp'[g] > 0
    <2>1. ASSUME NEW g \in Flusher, g # f
          PROVE  /\ stamp'[g] > 0 => at'[g] \notin {"out", "snapshot"}
                 /\ at'[g] \in {"v2 sent", "v1 sent"} => stamp'[g] > 0
      BY <1>2, <1>3, <1>5, <2>1 DEF ShownIInv, DatesOK
    <2>2. at'[f] \in {"v1", "out"}
      BY <1>2, <1>3
    <2>3. ~(0 > 0)
      OBVIOUS
    <2> QED
      BY <1>5, <2>1, <2>2, <2>3
  <1>7. CASE UNCHANGED <<points, delivered>>
    <2>2. DatesOK'
      BY <1>1, <1>4, <1>6, <1>7, <1>a, ShownTypes DEF DatesOK
    <2>3. gauge' <= set' /\ delivered' <= set' /\ \A g \in Flusher : taken'[g] <= set'
      <3>1. 0 <= set
        BY <1>b
      <3> QED
        BY <1>1, <1>5, <1>7, <3>1 DEF ShownIInv
    <2>4. InOrder => InOrder'
      <3>1. ~(taken'[f] > 0)
        BY <1>5
      <3>2. \A g \in Flusher : taken'[g] > 0 => g # f /\ taken'[g] = taken[g] /\ stamp'[g] = stamp[g]
        BY <1>5, <3>1
      <3>3. gauge > 0 => gauge > taken'[f]
        BY <1>3, <1>5
      <3> QED
        BY <1>1, <1>5, <1>7, <3>2, <3>3 DEF InOrder
    <2>5. NewestShown' = NewestShown
      BY <1>1, <1>7 DEF NewestShown
    <2> QED
      BY <1>1, <2>2, <2>3, <2>4, <2>5 DEF ShownIInv
  <1>8. CASE SeriesSubmitted(f) /\ Show(f) /\ taken[f] # 0
    <2> DEFINE v == taken[f]
               d == stamp[f]
    <2>1. v \in Nat /\ v > 0
      <3>1. taken[f] \in Nat
        BY <1>c
      <3>2. \A n \in Nat : n # 0 => n > 0
        OBVIOUS
      <3> QED
        BY <1>8, <3>1, <3>2
    <2>2. d \in Seconds /\ d <= clock
      <3>1. at[f] = "v2 sent"
        BY <1>8 DEF SeriesSubmitted, SeriesAccepted, SeriesFailed
      <3>2. d > 0
        BY <3>1 DEF ShownIInv, DatesOK
      <3>3. d \in 0..clock /\ clock \in 1..MaxClock
        BY ShownTypes DEF Seconds
      <3> QED
        BY <1>4, <3>2, <3>3, ShownTypes DEF Seconds
    <2>3. /\ points' = [points EXCEPT ![d] = v]
          /\ delivered' = IF v > delivered THEN v ELSE delivered
      BY <1>8 DEF Show
    <2>4. points'[d] = v /\ \A s \in Seconds : s # d => points'[s] = points[s]
      BY <1>4, <2>2, <2>3
    <2>5. DatesOK'
      <3>1. points' \in [Seconds -> Nat]
        BY <1>4, <2>1, <2>2, <2>3
      <3>2. \A s \in Seconds : points'[s] > 0 => s <= clock
        BY <1>4, <2>2, <2>4
      <3> QED
        BY <1>1, <1>6, <1>a, <3>1, <3>2, ShownTypes DEF DatesOK
    <2>6. gauge' <= set' /\ delivered' <= set' /\ \A g \in Flusher : taken'[g] <= set'
      <3>1. 0 <= set
        BY <1>b
      <3> QED
        BY <1>1, <1>5, <2>3, <3>1 DEF ShownIInv
    <2>7. ASSUME InOrder
          PROVE  InOrder' /\ NewestShown'
      <3>1. \A g \in Flusher : ~(taken'[g] > 0)
        BY <1>5, <2>1, <2>7 DEF InOrder
      <3>2. delivered' = v
        BY <2>1, <2>3, <2>7 DEF InOrder
      <3>3. gauge' > 0 => gauge' > delivered' /\ \A g \in Flusher : gauge' > taken'[g]
        <4>1. gauge > 0 => gauge > v /\ gauge > 0 /\ \A g \in Flusher : gauge > taken[g]
          BY <2>7 DEF InOrder
        <4> QED
          BY <1>1, <1>5, <3>2, <4>1
      <3>4. InOrder'
        BY <3>1, <3>3 DEF InOrder
      <3>5. \A s \in Seconds : points[s] > 0 => s <= d
        <4>1. d > 0
          BY <2>2 DEF Seconds
        <4> QED
          BY <2>1, <2>7, <4>1 DEF InOrder
      <3>6. \A s \in d + 1 .. MaxClock : points'[s] = 0
        <4> SUFFICES ASSUME NEW s \in d + 1 .. MaxClock PROVE points'[s] = 0
          OBVIOUS
        <4>1. s \in Seconds /\ s # d /\ ~(s <= d)
          BY <2>2, ShownTypes DEF Seconds
        <4>2. points[s] \in Nat /\ ~(points[s] > 0)
          BY <1>4, <3>5, <4>1
        <4> QED
          BY <2>4, <4>1, <4>2
      <3> QED
        BY <2>2, <2>4, <3>2, <3>4, <3>6 DEF NewestShown
    <2>8. overlapped => NewestShown'
      BY <1>1 DEF NewestShown
    <2> QED
      BY <1>1, <2>5, <2>6, <2>7, <2>8 DEF ShownIInv
  <1> QED
    BY <1>7, <1>8 DEF SeriesSubmitted, PointsSubmitted, SubmitRefused, NotShown, Show

-----------------------------------------------------------------------------
(* Where the flushes stand, the dates and the order of the values.         *)
THEOREM ShownInvariance == GaugeSpec => []ShownIInv
  <1>1. GaugeInit => ShownIInv
    <2> SUFFICES ASSUME GaugeInit PROVE ShownIInv
      OBVIOUS
    <2>1. /\ gauge = 0 /\ set = 0 /\ delivered = 0 /\ clock = 1
          /\ taken = [f \in Flusher |-> 0] /\ stamp = [f \in Flusher |-> 0]
          /\ points = [s \in Seconds |-> 0] /\ at = [f \in Flusher |-> "out"]
      BY DEF GaugeInit, Init
    <2>2. DatesOK
      BY <2>1, GaugeBoundsAssumption DEF DatesOK, Seconds
    <2>3. InOrder /\ NewestShown
      BY <2>1 DEF InOrder, NewestShown
    <2> QED
      BY <2>1, <2>2, <2>3 DEF ShownIInv
  <1>2. IInv /\ GaugeIInv /\ ShownIInv /\ [GaugeNext]_<<vars, gaugeVars>> => ShownIInv'
    <2> SUFFICES ASSUME IInv, GaugeIInv, ShownIInv, [GaugeNext]_<<vars, gaugeVars>>
                 PROVE  ShownIInv'
      OBVIOUS
    <2>1. ASSUME NEW f \in Flusher, GaugeFlushStep(f) PROVE ShownIInv'
      BY <2>1, SnapshotKeepsOrder, DateIsLatest, ControlKeepsShown, ShownInOrder
         DEF GaugeFlushStep, SendDated
    <2>2. CASE SetGauge
      BY <2>2, SetIsNewest
    <2>3. CASE GaugeCallClose
      <3>1. /\ at' = at
            /\ UNCHANGED <<gauge, taken, clock, stamp, points, set, delivered, overlapped>>
        BY <2>3 DEF GaugeCallClose, CallClose
      <3> QED
        BY <3>1 DEF ShownIInv, DatesOK, InOrder, NewestShown
    <2>4. CASE ClockTick
      BY <2>4, ClockKeepsShown
    <2>5. CASE (Apart \/ UNCHANGED vars) /\ UNCHANGED gaugeVars
      BY <2>5, ControlKeepsShown
    <2> QED
      BY <2>1, <2>2, <2>3, <2>4, <2>5 DEF GaugeNext
  <1> QED
    BY <1>1, <1>2, GaugeInvariance, GaugesRefine, Invariance, PTL DEF GaugeSpec

(* As long as no two values were on their way at once, the value shown for *)
(* the latest second is the newest one delivered, for any interleaving of  *)
(* the loop's flush, the owner's, and the clock they date by.              *)
THEOREM NewestIsShown == GaugeSpec => []NewestShown
  BY ShownInvariance, PTL DEF ShownIInv
=============================================================================
