----------------------------- MODULE JgetProofs -----------------------------
(***************************************************************************)
(* Proofs about Crawler, for any set of workers, list of URLs, number of   *)
(* attempts and channel capacity, and about Jget, which composes it with   *)
(* the metrics backend: the composition behaves as its two parts do, so    *)
(* what was proved of them holds of the whole, and more follows from the   *)
(* two together.                                                           *)
(***************************************************************************)
EXTENDS Jget, FiniteSetTheorems, WellFoundedInduction, TLAPS

-----------------------------------------------------------------------------
(* The crawler *)

-----------------------------------------------------------------------------
(* The inductive invariant, conjunct by conjunct *)

(* The program starts in a state of the invariant. *)
LEMMA InitInv == Init => IInv
  <1> SUFFICES ASSUME Init PROVE IInv
    OBVIOUS
  <1> USE NumURLsAssumption, MaxAttemptsAssumption, LogCapAssumption DEF Init, Job, NoJob
  <1>1. TypeOK
    <2>1. /\ logCh \in Seq([job : Job, attempt : 1..MaxAttempts])
          /\ Len(logCh) <= LogCap
      BY LogCapAssumption
    <2>4. logClosed \in BOOLEAN /\ logger = "idle" /\ encoder = "ok"
      OBVIOUS
    <2>2. /\ attempt \in [Worker -> 1..MaxAttempts]
          /\ tries \in [Job -> Nat] /\ printed \in [Job -> 0..MaxAttempts]
          /\ next \in 1..(NumURLs + 1)
      OBVIOUS
    <2>3. \A w \in Worker : pc[w] \in Busy <=> cur[w] # NoJob
      BY DEF Busy
    <2> HIDE DEF Job, NoJob
    <2> QED
      BY <2>1, <2>2, <2>3, <2>4 DEF TypeOK, LogTypeOK, MainPC, WorkerPC, Status, Outcome,
         EncoderState, NoJob
  <1>2. Counting
    BY DEF Counting, RetryBudget
  <1>3. Ownership
    BY DEF Ownership
  <1>4. Blame
    BY DEF Blame, AnyFailed
  <1>5. Supply /\ Progress
    BY DEF Supply, Progress
  <1> QED
    BY <1>1, <1>2, <1>3, <1>4, <1>5 DEF IInv

(* What is left of a sequence after its head is taken. *)
LEMMA HeadTail ==
  ASSUME NEW S, NEW q \in Seq(S), q # << >>
  PROVE  /\ Head(q) \in S
         /\ Tail(q) \in Seq(S)
         /\ Len(Tail(q)) = Len(q) - 1 /\ Len(q) \in Nat
         /\ \A i \in 1..Len(Tail(q)) : Tail(q)[i] = q[i + 1]
         /\ Head(q) = q[1]
  OBVIOUS

(* A record is sent only into room in the channel. *)
LEMMA SendType ==
  ASSUME TypeOK, NEW w \in Worker, pc[w] \in Busy, SendLog(w)
  PROVE  LogTypeOK'
  <1>1. logCh' \in Seq([job : Job, attempt : 1..MaxAttempts]) /\ Len(logCh') <= LogCap
    BY LogCapAssumption DEF TypeOK, LogTypeOK, SendLog, Job, NoJob
  <1> QED
    BY <1>1 DEF TypeOK, LogTypeOK, SendLog

(* The log that nobody touches keeps its type. *)
LEMMA LogTypeKept == LogTypeOK /\ UNCHANGED logVars => LogTypeOK'
  BY DEF LogTypeOK, logVars

(* Every step of the program keeps the types. *)
LEMMA TypeStep == TypeOK /\ Counting /\ Progress /\ [Next]_vars => TypeOK'
  <1> SUFFICES ASSUME TypeOK, Counting, Progress, [Next]_vars PROVE TypeOK'
    OBVIOUS
  <1> USE NumURLsAssumption, MaxAttemptsAssumption, LogTypeKept
      DEF TypeOK, mainVars, jobVars, GoTo, Busy, NoJob, WorkerPC
  <1>1. ASSUME NEW w \in Worker, Take(w) PROVE TypeOK'
    <2>1. /\ next' \in 1..(NumURLs + 1) /\ late' \in SUBSET Job
          /\ cur' \in [Worker -> Job \cup {NoJob}]
          /\ attempt' \in [Worker -> 1..MaxAttempts]
          /\ \A v \in Worker : pc'[v] \in Busy <=> cur'[v] # NoJob
      BY <1>1 DEF Take, FirstAttempt, Job
    <2>2. UNCHANGED <<mainVars, producer, fatal, cancelled, logVars, status, result,
                      tries, saved>>
      BY <1>1 DEF Take
    <2>3. pc' \in [Worker -> WorkerPC]
      BY <1>1 DEF Take
    <2> QED
      BY <2>1, <2>2, <2>3
  <1>2. ASSUME NEW w \in Worker, QuitCancelled(w) \/ QuitClosed(w) PROVE TypeOK'
    BY <1>2 DEF QuitCancelled, QuitClosed
  <1>3. ASSUME NEW w \in Worker, StartRequest(w) PROVE TypeOK'
    BY <1>3 DEF StartRequest
  <1>4. ASSUME NEW w \in Worker, RequestRefused(w) PROVE TypeOK'
    BY <1>4 DEF RequestRefused, CountTry, Status
  <1>5. ASSUME NEW w \in Worker, NEW s \in Status, NEW b \in BOOLEAN, RequestDone(w, s, b)
        PROVE TypeOK'
    BY <1>5 DEF RequestDone, CountTry
  <1>6. ASSUME NEW w \in Worker, ReportAnswered(w) PROVE TypeOK'
    BY <1>6, SendType DEF ReportAnswered, Finish, Outcome
  <1>7. ASSUME NEW w \in Worker, ReportExhausted(w) PROVE TypeOK'
    BY <1>7, SendType DEF ReportExhausted, Finish, Outcome
  <1>8. ASSUME NEW w \in Worker, ReportRetry(w) PROVE TypeOK'
    BY <1>8, SendType DEF ReportRetry
  <1>9. ASSUME NEW w \in Worker, ReportRetryAtOnce(w) PROVE TypeOK'
    <2>1. attempt' \in [Worker -> 1..MaxAttempts]
      BY <1>9 DEF ReportRetryAtOnce, NextAttempt, LastAttempt
    <2> QED
      BY <1>9, <2>1, SendType DEF ReportRetryAtOnce
  <1>10. ASSUME NEW w \in Worker, BackoffOver(w) PROVE TypeOK'
    <2>1. attempt' \in [Worker -> 1..MaxAttempts]
      BY <1>10 DEF BackoffOver, NextAttempt, Counting
    <2> QED
      BY <1>10, <2>1 DEF BackoffOver
  <1>11. ASSUME NEW w \in Worker, BackoffAborted(w) PROVE TypeOK'
    BY <1>11 DEF BackoffAborted, Finish, Outcome
  <1>12. ASSUME NEW w \in Worker, SetFatal(w) \/ Cancel(w) PROVE TypeOK'
    BY <1>12 DEF SetFatal, Cancel
  <1>13. CASE ProducerDone
    BY <1>13 DEF ProducerDone
  <1>14. CASE LogWrite \/ LogLost
    <2> DEFINE Rec == [job : Job, attempt : 1..MaxAttempts]
    <2>1. logCh \in Seq(Rec) /\ logCh # << >> /\ Len(logCh) <= LogCap
      BY <1>14 DEF LogTypeOK, LogWrite, LogLost
    <2> HIDE DEF Rec
    <2>2. Head(logCh) \in Rec /\ Tail(logCh) \in Seq(Rec) /\ Len(Tail(logCh)) <= LogCap
      BY <2>1, HeadTail, LogCapAssumption
    <2>3. Head(logCh).job \in Job /\ Head(logCh).attempt \in 0..MaxAttempts
      BY <2>2 DEF Rec
    <2>4. printed' \in [Job -> 0..MaxAttempts]
      BY <1>14, <2>3 DEF LogTypeOK, LogWrite, LogLost
    <2>5. /\ logCh' = Tail(logCh) /\ UNCHANGED <<logClosed, logger>>
          /\ encoder' \in EncoderState
      BY <1>14 DEF LogTypeOK, LogWrite, LogLost, EncoderState
    <2>6. LogTypeOK'
      BY <2>2, <2>4, <2>5 DEF LogTypeOK, Rec
    <2> QED
      BY <1>14, <2>6 DEF LogWrite, LogLost
  <1>15. CASE LogEnd
    <2>1. LogTypeOK'
      BY <1>15 DEF LogTypeOK, LogEnd
    <2> QED
      BY <1>15, <2>1 DEF LogEnd
  <1>16. CASE MainStep
    <2> USE DEF MainPC
    <2>1. CASE StartFail
      BY <2>1 DEF StartFail
    <2>2. CASE Start
      <3>1. LogTypeOK'
        BY <2>2 DEF LogTypeOK, Start
      <3> QED
        BY <2>2, <3>1 DEF Start, Progress
    <2>3. CASE MainJoin
      <3>1. LogTypeOK'
        BY <2>3 DEF LogTypeOK, MainJoin
      <3> QED
        BY <2>3, <3>1 DEF MainJoin
    <2>5. CASE MainDrained
      BY <2>5 DEF MainDrained
    <2>4. CASE MainReturn \/ MainExit
      BY <2>4 DEF MainReturn, MainExit
    <2> QED
      BY <1>16, <2>1, <2>2, <2>3, <2>4, <2>5 DEF MainStep
  <1>17. CASE UNCHANGED vars
    BY <1>17 DEF vars, logVars
  <1> HIDE DEF TypeOK
  <1> QED
    BY <1>1, <1>2, <1>3, <1>4, <1>5, <1>6, <1>7, <1>8, <1>9, <1>10, <1>11, <1>12,
       <1>13, <1>14, <1>15, <1>16, <1>17 DEF Next, WorkerStep, LoggerStep, Terminated

(* Every step keeps the attempts counted and the retry budget.  Only the   *)
(* job a worker holds is touched, and no two workers hold the same one.    *)
LEMMA CountingStep == IInv /\ [Next]_vars => Counting'
  <1> SUFFICES ASSUME TypeOK, Counting, Ownership, Progress, [Next]_vars PROVE Counting'
    BY DEF IInv
  <1> USE NumURLsAssumption, MaxAttemptsAssumption DEF GoTo, NoJob, Busy, Job
  <1> DEFINE CVars == <<pc, cur, attempt, tries, result>>
  <1>0. /\ pc \in [Worker -> WorkerPC] /\ cur \in [Worker -> Job \cup {NoJob}]
        /\ \A v \in Worker : pc[v] \in Busy <=> cur[v] # NoJob
        /\ attempt \in [Worker -> 1..MaxAttempts]
        /\ tries \in [Job -> Nat] /\ result \in [Job -> Outcome]
        /\ next \in 1..(NumURLs + 1)
    BY DEF TypeOK
  <1>1. ASSUME NEW w \in Worker, Take(w) PROVE Counting'
    BY <1>0, <1>1 DEF Take, FirstAttempt, Counting, RetryBudget, Ownership
  <1>2. ASSUME NEW w \in Worker, QuitCancelled(w) \/ QuitClosed(w) \/ StartRequest(w)
                                 \/ SetFatal(w) \/ Cancel(w)
        PROVE Counting'
    <2>1. /\ GoTo(w, "done") \/ GoTo(w, "cancel") \/ (pc[w] = "sleep" /\ GoTo(w, "request"))
          /\ UNCHANGED <<cur, attempt, tries, result>>
      BY <1>2 DEF QuitCancelled, QuitClosed, StartRequest, SetFatal, Cancel, jobVars
    <2> QED
      BY <1>0, <2>1 DEF Counting, RetryBudget
  <1>3. ASSUME NEW w \in Worker, pc[w] \in {"sleep", "request"}, CountTry(w),
               GoTo(w, "report"), UNCHANGED <<cur, attempt, result>>
        PROVE Counting'
    BY <1>0, <1>3 DEF CountTry, Counting, RetryBudget, Ownership
  <1>4. ASSUME NEW w \in Worker,
               RequestRefused(w) \/ \E s \in Status, b \in BOOLEAN : RequestDone(w, s, b)
        PROVE Counting'
    BY <1>3, <1>4 DEF RequestRefused, RequestDone
  <1>5. ASSUME NEW w \in Worker, ReportAnswered(w) PROVE Counting'
    BY <1>0, <1>5 DEF ReportAnswered, Finish, Counting, RetryBudget, Outcome
  <1>6. ASSUME NEW w \in Worker, ReportExhausted(w) PROVE Counting'
    BY <1>0, <1>6 DEF ReportExhausted, Finish, LastAttempt, Counting, RetryBudget, Outcome
  <1>7. ASSUME NEW w \in Worker, ReportRetry(w) PROVE Counting'
    BY <1>0, <1>7 DEF ReportRetry, LastAttempt, jobVars, Counting, RetryBudget
  <1>8. ASSUME NEW w \in Worker, pc[w] \in {"report", "backoff"}, NextAttempt(w),
               GoTo(w, "sleep"), UNCHANGED <<cur, result, tries>>
        PROVE Counting'
    BY <1>0, <1>8 DEF NextAttempt, Counting, RetryBudget
  <1>9. ASSUME NEW w \in Worker, ReportRetryAtOnce(w) \/ BackoffOver(w) PROVE Counting'
    BY <1>8, <1>9 DEF ReportRetryAtOnce, BackoffOver
  <1>10. ASSUME NEW w \in Worker, BackoffAborted(w) PROVE Counting'
    BY <1>0, <1>10 DEF BackoffAborted, Finish, Counting, RetryBudget, Outcome
  <1>11. CASE Start
    BY <1>0, <1>11 DEF Start, jobVars, Counting, RetryBudget
  <1>12. CASE UNCHANGED CVars
    BY <1>12 DEF Counting, RetryBudget
  <1>13. CASE ProducerDone \/ LoggerStep \/ (MainStep /\ ~Start) \/ UNCHANGED vars
    <2>1. UNCHANGED CVars
      BY <1>13 DEF ProducerDone, LoggerStep, LogWrite, LogLost, LogEnd, MainStep,
         StartFail, MainJoin,
         MainDrained, MainReturn, MainExit, jobVars, vars
    <2> QED
      BY <1>12, <2>1
  <1> QED
    BY <1>1, <1>2, <1>4, <1>5, <1>6, <1>7, <1>9, <1>10, <1>11, <1>13
       DEF Next, WorkerStep, Terminated

(* Every step keeps each URL untouched, held by one worker, or settled. *)
LEMMA OwnershipStep == IInv /\ [Next]_vars => Ownership'
  <1> SUFFICES ASSUME TypeOK, Ownership, Progress, [Next]_vars PROVE Ownership'
    BY DEF IInv
  <1> USE NumURLsAssumption DEF GoTo, NoJob, Busy, Job
  <1> DEFINE OVars == <<cur, next, result, tries>>
  <1>0. /\ cur \in [Worker -> Job \cup {NoJob}]
        /\ \A v \in Worker : pc[v] \in Busy <=> cur[v] # NoJob
        /\ tries \in [Job -> Nat] /\ result \in [Job -> Outcome]
        /\ next \in 1..(NumURLs + 1)
    BY DEF TypeOK
  <1>1. ASSUME NEW w \in Worker, Take(w) PROVE Ownership'
    <2>1. /\ next \in Job /\ next' = next + 1 /\ cur' = [cur EXCEPT ![w] = next]
          /\ result' = result /\ tries' = tries /\ cur[w] = NoJob
      BY <1>0, <1>1 DEF Take
    <2> QED
      BY <1>0, <2>1 DEF Ownership
  <1>2. ASSUME NEW w \in Worker, pc[w] \in {"sleep", "request"}, CountTry(w),
               UNCHANGED <<cur, next, result>>
        PROVE Ownership'
    BY <1>0, <1>2 DEF CountTry, Ownership
  <1>3. ASSUME NEW w \in Worker,
               RequestRefused(w) \/ \E s \in Status, b \in BOOLEAN : RequestDone(w, s, b)
        PROVE Ownership'
    BY <1>2, <1>3 DEF RequestRefused, RequestDone
  <1>4. ASSUME NEW w \in Worker, pc[w] \in {"report", "backoff"},
               NEW r \in Outcome \ {"pending"}, NEW to, Finish(w, r, to),
               UNCHANGED <<next, tries>>
        PROVE Ownership'
    BY <1>0, <1>4 DEF Finish, Ownership
  <1>5. ASSUME NEW w \in Worker,
               ReportAnswered(w) \/ ReportExhausted(w) \/ BackoffAborted(w)
        PROVE Ownership'
    BY <1>4, <1>5 DEF ReportAnswered, ReportExhausted, BackoffAborted, Outcome
  <1>6. CASE UNCHANGED OVars
    BY <1>6 DEF Ownership
  <1>7. ASSUME NEW w \in Worker, QuitCancelled(w) \/ QuitClosed(w) \/ StartRequest(w)
                 \/ SetFatal(w) \/ Cancel(w) \/ ReportRetry(w) \/ ReportRetryAtOnce(w)
                 \/ BackoffOver(w)
        PROVE UNCHANGED OVars
    BY <1>7 DEF QuitCancelled, QuitClosed, StartRequest, SetFatal, Cancel, ReportRetry,
       ReportRetryAtOnce, BackoffOver, jobVars
  <1>8. ASSUME ProducerDone \/ LoggerStep \/ MainStep \/ UNCHANGED vars
        PROVE UNCHANGED OVars
    BY <1>8 DEF ProducerDone, LoggerStep, LogWrite, LogLost, LogEnd, MainStep, StartFail, Start,
       MainJoin, MainDrained, MainReturn, MainExit, jobVars, vars
  <1> QED
    BY <1>1, <1>3, <1>5, <1>6, <1>7, <1>8 DEF Next, WorkerStep, Terminated

(* No URL that spent its attempts is ever taken back. *)
LEMMA FailedStays == IInv /\ [Next]_vars /\ AnyFailed => AnyFailed'
  <1> SUFFICES ASSUME TypeOK, Ownership, [Next]_vars, NEW j \in Job, result[j] = "failed"
               PROVE  result'[j] = "failed"
    BY DEF IInv, AnyFailed
  <1>1. ASSUME NEW w \in Worker, NEW r, NEW to, pc[w] \in Busy, Finish(w, r, to)
        PROVE result'[j] = "failed"
    BY <1>1 DEF Finish, TypeOK, Ownership
  <1>2. ASSUME NEW w \in Worker, WorkerStep(w) PROVE result'[j] = "failed"
    BY <1>1, <1>2 DEF WorkerStep, Take, QuitCancelled, QuitClosed, StartRequest,
       RequestRefused, RequestDone, ReportAnswered, ReportExhausted, ReportRetry,
       ReportRetryAtOnce, BackoffOver, BackoffAborted, SetFatal, Cancel, jobVars, Busy
  <1>3. CASE ProducerDone \/ LoggerStep \/ MainStep \/ UNCHANGED vars
    BY <1>3 DEF ProducerDone, LoggerStep, LogWrite, LogLost, LogEnd, MainStep, StartFail, Start,
       MainJoin, MainDrained, MainReturn, MainExit, jobVars, vars
  <1> QED
    BY <1>2, <1>3 DEF Next, Terminated

(* Every step keeps a failure behind each cancellation and each abandon. *)
LEMMA BlameStep == IInv /\ [Next]_vars => Blame'
  <1> SUFFICES ASSUME TypeOK, Blame, Progress, AnyFailed => AnyFailed', [Next]_vars
               PROVE  Blame'
    BY FailedStays DEF IInv
  <1> USE DEF GoTo, Busy
  <1> DEFINE BVars == <<pc, fatal, result, cancelled, main>>
  <1>0. /\ cur \in [Worker -> Job \cup {NoJob}] /\ pc \in [Worker -> WorkerPC]
        /\ \A v \in Worker : pc[v] \in Busy => cur[v] \in Job
        /\ result \in [Job -> Outcome]
    BY DEF TypeOK
  <1>1. ASSUME NEW w \in Worker, NEW to \in {"select", "sleep", "request", "report",
                 "backoff", "done"},
               pc[w] \notin {"fatal", "cancel"}, GoTo(w, to),
               UNCHANGED <<fatal, result, cancelled, main>>
        PROVE Blame'
    BY <1>0, <1>1 DEF Blame, AnyFailed
  <1>2. ASSUME NEW w \in Worker, Take(w) \/ QuitCancelled(w) \/ QuitClosed(w)
                 \/ StartRequest(w) \/ RequestRefused(w)
                 \/ (\E s \in Status, b \in BOOLEAN : RequestDone(w, s, b))
                 \/ ReportRetry(w) \/ ReportRetryAtOnce(w) \/ BackoffOver(w)
        PROVE Blame'
    BY <1>1, <1>2 DEF Take, QuitCancelled, QuitClosed, StartRequest, RequestRefused,
       RequestDone, ReportRetry, ReportRetryAtOnce, BackoffOver, jobVars, mainVars
  <1>3. ASSUME NEW w \in Worker, ReportAnswered(w) PROVE Blame'
    BY <1>0, <1>3 DEF ReportAnswered, Finish, Blame, AnyFailed, mainVars
  <1>4. ASSUME NEW w \in Worker, ReportExhausted(w) PROVE Blame'
    <2>1. AnyFailed'
      BY <1>0, <1>4 DEF ReportExhausted, Finish, AnyFailed
    <2> QED
      BY <1>0, <1>4, <2>1 DEF ReportExhausted, Finish, Blame, mainVars
  <1>5. ASSUME NEW w \in Worker, BackoffAborted(w) PROVE Blame'
    <2>1. main # "exited"
      BY <1>5 DEF BackoffAborted, TypeOK, Progress, WorkersDone
    <2>2. AnyFailed
      BY <1>5, <2>1 DEF BackoffAborted, BackoffCut, Blame
    <2> QED
      BY <1>0, <1>5, <2>2 DEF BackoffAborted, Finish, Blame, mainVars
  <1>6. ASSUME NEW w \in Worker, SetFatal(w) PROVE Blame'
    BY <1>0, <1>6 DEF SetFatal, Blame, AnyFailed, mainVars, jobVars
  <1>7. ASSUME NEW w \in Worker, Cancel(w) PROVE Blame'
    BY <1>0, <1>7 DEF Cancel, Blame, AnyFailed, mainVars, jobVars
  <1>8. CASE UNCHANGED BVars
    BY <1>8 DEF Blame, AnyFailed
  <1>9. CASE ProducerDone \/ LoggerStep \/ UNCHANGED vars
    BY <1>8, <1>9 DEF ProducerDone, LoggerStep, LogWrite, LogLost, LogEnd, mainVars,
       jobVars, vars
  <1>10. CASE Start
    BY <1>10 DEF Start, Blame, Progress, AnyFailed, jobVars
  <1>11. CASE (MainStep /\ ~Start)
    BY <1>11 DEF MainStep, StartFail, MainJoin, MainDrained, MainReturn, MainExit, Blame,
       AnyFailed, jobVars
  <1> QED
    BY <1>2, <1>3, <1>4, <1>5, <1>6, <1>7, <1>9, <1>10, <1>11
       DEF Next, WorkerStep, Terminated

(* Every step keeps the early leave of a goroutine a matter of cancellation. *)
LEMMA SupplyStep == IInv /\ [Next]_vars => Supply'
  <1> SUFFICES ASSUME TypeOK, Supply, Progress, [Next]_vars PROVE Supply'
    BY DEF IInv
  <1> USE NumURLsAssumption DEF GoTo, Supply
  <1>0. pc \in [Worker -> WorkerPC] /\ next \in 1..(NumURLs + 1)
    BY DEF TypeOK
  <1>1. ASSUME NEW w \in Worker, Take(w) PROVE Supply'
    BY <1>0, <1>1 DEF Take, mainVars
  <1>2. ASSUME NEW w \in Worker, QuitCancelled(w) \/ QuitClosed(w) \/ Cancel(w) PROVE Supply'
    BY <1>0, <1>2 DEF QuitCancelled, QuitClosed, Cancel, mainVars
  <1>3. ASSUME NEW w \in Worker, NEW to \in WorkerPC \ {"done"}, GoTo(w, to),
               UNCHANGED <<main, cancelled, producer, next>>
        PROVE Supply'
    BY <1>0, <1>3
  <1>4. ASSUME NEW w \in Worker, StartRequest(w) \/ RequestRefused(w)
                 \/ (\E s \in Status, b \in BOOLEAN : RequestDone(w, s, b))
                 \/ ReportAnswered(w) \/ ReportExhausted(w) \/ ReportRetry(w)
                 \/ ReportRetryAtOnce(w) \/ BackoffOver(w) \/ BackoffAborted(w)
                 \/ SetFatal(w)
        PROVE Supply'
    BY <1>3, <1>4 DEF StartRequest, RequestRefused, RequestDone, ReportAnswered,
       ReportExhausted, ReportRetry, ReportRetryAtOnce, BackoffOver, BackoffAborted,
       SetFatal, Finish, WorkerPC, mainVars
  <1>5. CASE ProducerDone
    BY <1>0, <1>5 DEF ProducerDone, Job, mainVars
  <1>6. CASE Start
    BY <1>6 DEF Start, Progress
  <1>7. CASE LoggerStep \/ (MainStep /\ ~Start) \/ UNCHANGED vars
    BY <1>7 DEF LoggerStep, LogWrite, LogLost, LogEnd, MainStep, StartFail, MainJoin,
       MainDrained,
       MainReturn, MainExit, mainVars, vars
  <1> QED
    BY <1>1, <1>2, <1>4, <1>5, <1>6, <1>7 DEF Next, WorkerStep, Terminated

(* When the workers are gone and none of them set `fatal', every URL was   *)
(* handed over and answered.                                               *)
LEMMA CleanEnd ==
  ASSUME IInv, WorkersDone, ~fatal, main # "exited" PROVE AllLoaded
  <1>1. producer = "closed" /\ next = NumURLs + 1
    BY WorkerAssumption DEF IInv, Supply, Blame, WorkersDone
  <1>2. \A w \in Worker : cur[w] = NoJob
    BY DEF IInv, TypeOK, WorkersDone, Busy
  <1>3. ~AnyFailed
    BY DEF IInv, Blame, WorkersDone
  <1>4. ASSUME NEW j \in Job PROVE result[j] \in {"loaded", "missing"}
    <2>1. j < next /\ j # NoJob
      BY <1>1, NumURLsAssumption DEF Job, NoJob
    <2>2. result[j] # "pending"
      BY <1>2, <2>1 DEF IInv, Ownership
    <2>3. result[j] \notin {"failed", "aborted"}
      BY <1>3 DEF IInv, Blame, AnyFailed
    <2> QED
      BY <2>2, <2>3 DEF IInv, TypeOK, Outcome
  <1> QED
    BY <1>4 DEF AllLoaded

(* Every step keeps what main has waited for. *)
LEMMA ProgressStep == IInv /\ [Next]_vars => Progress'
  <1> SUFFICES ASSUME IInv, [Next]_vars PROVE Progress'
    OBVIOUS
  <1>0. Progress
    BY DEF IInv
  <1>1. ASSUME NEW w \in Worker, WorkerStep(w) PROVE Progress'
    <2>1. ~WorkersDone /\ pc[w] # "idle"
      BY <1>1 DEF WorkersDone, WorkerStep, Take, QuitCancelled, QuitClosed, StartRequest,
         RequestRefused, RequestDone, ReportAnswered, ReportExhausted, ReportRetry,
         ReportRetryAtOnce, BackoffOver, BackoffAborted, SetFatal, Cancel
    <2>2. main = "wait" /\ code = "running" /\ ~logClosed
      BY <1>0, <2>1 DEF IInv, TypeOK, MainPC, Progress
    <2>3. UNCHANGED <<main, code, logClosed>>
      BY <1>1 DEF WorkerStep, Take, QuitCancelled, QuitClosed, StartRequest,
         RequestRefused, RequestDone, ReportAnswered, ReportExhausted, ReportRetry,
         ReportRetryAtOnce, BackoffOver, BackoffAborted, SetFatal, Cancel, SendLog,
         mainVars, logVars
    <2> QED
      BY <2>2, <2>3 DEF Progress
  <1>2. CASE ProducerDone
    BY <1>0, <1>2 DEF ProducerDone, Progress, WorkersDone, AllLoaded, AnyFailed, mainVars,
       logVars, jobVars
  <1>3. CASE LoggerStep
    BY <1>0, <1>3 DEF LoggerStep, LogWrite, LogLost, LogEnd, Progress, WorkersDone, AllLoaded,
       AnyFailed, mainVars, jobVars
  <1>4. CASE StartFail \/ Start \/ MainJoin \/ MainDrained
    BY <1>0, <1>4 DEF StartFail, Start, MainJoin, MainDrained, Progress, WorkersDone,
       AllLoaded, AnyFailed, logVars, jobVars
  <1>5. CASE MainReturn
    <2>1. WorkersDone /\ (fatal => AnyFailed) /\ (~fatal => AllLoaded)
      BY <1>0, <1>5, CleanEnd DEF MainReturn, Progress, IInv, Blame
    <2> QED
      BY <1>5, <2>1 DEF MainReturn, Progress, WorkersDone, AllLoaded, AnyFailed, logVars,
         jobVars
  <1>6. CASE MainExit
    BY <1>0, <1>6 DEF MainExit, Progress, WorkersDone, AllLoaded, AnyFailed, logVars, jobVars
  <1>7. CASE UNCHANGED vars
    BY <1>0, <1>7 DEF vars, Progress, WorkersDone, AllLoaded, AnyFailed
  <1> QED
    BY <1>1, <1>2, <1>3, <1>4, <1>5, <1>6, <1>7 DEF Next, MainStep, Terminated

(* IInv holds in every reachable state. *)
THEOREM Invariance == Spec => []IInv
  <1>1. IInv /\ [Next]_vars => IInv'
    BY TypeStep, CountingStep, OwnershipStep, BlameStep, SupplyStep, ProgressStep DEF IInv
  <1> QED
    BY InitInv, <1>1, PTL DEF Spec

-----------------------------------------------------------------------------
(* What follows from it *)

(* Type correctness, for any number of workers and URLs. *)
THEOREM TypeCorrect == Spec => []TypeOK
  BY Invariance, PTL DEF IInv

(* The exit code of run() says what happened to the URLs. *)
THEOREM ExitCodes == Spec => []ExitCodeContract
  <1>1. IInv => ExitCodeContract
    <2> SUFFICES ASSUME IInv, main = "exited" PROVE ExitCodeContract
      BY DEF ExitCodeContract
    <2>1. code \in {"0", "1", "2"}
      BY DEF IInv, TypeOK, Progress
    <2>2. code = "2" => \A j \in Job : result[j] = "pending" /\ tries[j] = 0
      BY NumURLsAssumption DEF IInv, Progress, Ownership, Job
    <2> QED
      BY <2>1, <2>2 DEF ExitCodeContract, IInv, Progress, AllLoaded, AnyFailed
  <1> QED
    BY <1>1, Invariance, PTL

(* No worker can be about to send on the log channel once it is closed. *)
THEOREM NoSendOnClosed == Spec => []NoSendOnClosedLog
  <1>1. IInv => NoSendOnClosedLog
    <2> SUFFICES ASSUME IInv, logClosed PROVE \A w \in Worker : pc[w] \notin Busy
      BY DEF NoSendOnClosedLog
    <2>1. WorkersDone
      BY DEF IInv, TypeOK, MainPC, Progress
    <2> QED
      BY <2>1 DEF WorkersDone, Busy
  <1> QED
    BY <1>1, Invariance, PTL

(* No URL is tried more than MaxAttempts times or given up sooner. *)
THEOREM Budget == Spec => []RetryBudget
  BY Invariance, PTL DEF IInv, Counting

-----------------------------------------------------------------------------
(* The crawler implements CrawlOutcome: a step that ends processURL for a  *)
(* URL is a Finish step, the three ways to exit are Refuse, Succeed and    *)
(* Fail, and every other step is a stutter.                                *)

LEMMA OuterStep == IInv /\ [Next]_vars => [Outer!Next]_(Outer!vars)
  <1> SUFFICES ASSUME IInv, [Next]_vars PROVE [Outer!Next]_(Outer!vars)
    OBVIOUS
  <1> DEFINE exit == IF main = "exited" THEN code ELSE "running"
  <1>1. ASSUME NEW w \in Worker, NEW r \in Outcome \ {"pending"}, NEW to, pc[w] \in Busy,
               Finish(w, r, to), r = "aborted" => AnyFailed, UNCHANGED mainVars
        PROVE Outer!Next
    <2>1. cur[w] \in Job /\ result[cur[w]] = "pending"
      BY <1>1 DEF IInv, TypeOK, Ownership
    <2>2. main # "exited"
      BY <1>1 DEF IInv, TypeOK, Progress, WorkersDone, Busy
    <2>3. Outer!Finish(cur[w], r)
      BY <1>1, <2>1, <2>2 DEF Outer!Finish, Outer!AnyFailed, Outer!Job, AnyFailed, Job, Finish,
         mainVars
    <2> QED
      BY <1>1, <2>1, <2>3 DEF Outer!Next, Outer!Job, Outer!Outcome, Job, Outcome
  <1>2. ASSUME NEW w \in Worker,
               ReportAnswered(w) \/ ReportExhausted(w) \/ BackoffAborted(w)
        PROVE Outer!Next
    <2>1. BackoffAborted(w) => AnyFailed
      BY DEF BackoffAborted, BackoffCut, IInv, TypeOK, Blame, Progress, WorkersDone
    <2> QED
      BY <1>1, <1>2, <2>1 DEF ReportAnswered, ReportExhausted, BackoffAborted, Outcome, Busy
  <1>3. CASE StartFail
    BY <1>3, NumURLsAssumption DEF StartFail, IInv, Progress, Ownership, Outer!Next,
       Outer!Refuse, Outer!Job, Job, jobVars
  <1>4. CASE MainExit
    <2>1. (code = "0" /\ AllLoaded) \/ (code = "1" /\ AnyFailed)
      BY <1>4 DEF MainExit, IInv, Progress
    <2>2. Outer!Succeed \/ Outer!Fail
      BY <1>4, <2>1 DEF MainExit, Outer!Succeed, Outer!Fail, Outer!AllLoaded,
         Outer!AnyFailed, Outer!Job, AllLoaded, AnyFailed, Job, jobVars
    <2> QED
      BY <2>2 DEF Outer!Next
  <1>5. ASSUME NEW w \in Worker, Take(w) \/ QuitCancelled(w) \/ QuitClosed(w)
                 \/ StartRequest(w) \/ RequestRefused(w)
                 \/ (\E s \in Status, b \in BOOLEAN : RequestDone(w, s, b))
                 \/ ReportRetry(w) \/ ReportRetryAtOnce(w) \/ BackoffOver(w)
                 \/ SetFatal(w) \/ Cancel(w)
        PROVE UNCHANGED Outer!vars
    BY <1>5 DEF Take, QuitCancelled, QuitClosed, StartRequest, RequestRefused, RequestDone,
       ReportRetry, ReportRetryAtOnce, BackoffOver, SetFatal, Cancel, mainVars, jobVars,
       Outer!vars
  <1>6. CASE ProducerDone \/ LoggerStep \/ UNCHANGED vars
    BY <1>6 DEF ProducerDone, LoggerStep, LogWrite, LogLost, LogEnd, mainVars, jobVars,
       vars, Outer!vars
  <1>7. CASE Start \/ MainJoin \/ MainDrained \/ MainReturn
    BY <1>7 DEF Start, MainJoin, MainDrained, MainReturn, jobVars, Outer!vars
  <1> QED
    BY <1>2, <1>3, <1>4, <1>5, <1>6, <1>7 DEF Next, WorkerStep, MainStep, Terminated

(* Whatever the goroutines do, a run is a behaviour of CrawlOutcome. *)
THEOREM Refinement == Spec => ImplementsOutcome
  <1>1. Init => Outer!Init
    BY DEF Init, Outer!Init, Outer!Job, Job
  <1> QED
    BY <1>1, Invariance, OuterStep, PTL DEF Spec, ImplementsOutcome, Outer!Spec

-----------------------------------------------------------------------------
(* The log.  First two facts about the records of a channel, then the      *)
(* steps of the program.                                                   *)

Record == [job : Job, attempt : 1..MaxAttempts]

(* A URL's next record, sent behind the others, keeps them in line. *)
LEMMA LinedSend ==
  ASSUME NEW q \in Seq(Record), NEW p \in [Job -> Nat], NEW s \in [Job -> Nat],
         Lined(q, p, s), NEW r \in Record, r.attempt = s[r.job] + 1
  PROVE  Lined(Append(q, r), p, [s EXCEPT ![r.job] = @ + 1])
  <1> DEFINE t == Append(q, r)
             u == [s EXCEPT ![r.job] = @ + 1]
  <1>1. /\ Len(q) \in Nat /\ Len(t) = Len(q) + 1 /\ t[Len(t)] = r
        /\ \A i \in 1..Len(q) : t[i] = q[i] /\ q[i] \in Record
    OBVIOUS
  <1>2. /\ r.job \in Job /\ r.attempt \in 1..MaxAttempts
        /\ \A i \in 1..Len(q) : q[i].job \in Job /\ q[i].attempt \in 1..MaxAttempts
    BY <1>1 DEF Record
  <1>3. /\ u \in [Job -> Nat] /\ u[r.job] = s[r.job] + 1
        /\ \A j \in Job : j # r.job => u[j] = s[j]
        /\ \A j \in Job : s[j] \in Nat /\ u[j] \in Nat /\ p[j] \in Nat
    BY <1>2
  <1>u. \A j \in Job : s[j] <= u[j]
    BY <1>2, <1>3
  <1> HIDE DEF t, u
  <1>4. ASSUME NEW i \in 1..Len(t)
        PROVE  p[t[i].job] < t[i].attempt /\ t[i].attempt <= u[t[i].job]
    <2>1. CASE i = Len(t)
      BY <1>1, <1>2, <1>3, <2>1 DEF Lined
    <2>2. CASE i # Len(t)
      <3>1. i \in 1..Len(q) /\ t[i] = q[i]
        BY <1>1, <2>2
      <3>2. p[q[i].job] < q[i].attempt /\ q[i].attempt <= s[q[i].job]
        BY <3>1 DEF Lined
      <3>3. q[i].job \in Job /\ q[i].attempt \in Nat
        BY <1>2, <3>1, MaxAttemptsAssumption
      <3>4. s[q[i].job] <= u[q[i].job] /\ s[q[i].job] \in Nat /\ u[q[i].job] \in Nat
        BY <1>3, <1>u, <3>3
      <3> QED
        BY <3>1, <3>2, <3>3, <3>4
    <2> QED
      BY <2>1, <2>2
  <1>5. ASSUME NEW i \in 1..Len(t), NEW k \in 1..Len(t), i < k, t[i].job = t[k].job
        PROVE  t[i].attempt < t[k].attempt
    <2>1. i \in 1..Len(q) /\ t[i] = q[i]
      BY <1>1, <1>5
    <2>2. CASE k = Len(t)
      <3>1. q[i].attempt <= s[q[i].job] /\ q[i].job = r.job
        BY <1>1, <1>5, <2>1, <2>2 DEF Lined
      <3> QED
        BY <1>1, <1>2, <1>3, <2>1, <2>2, <3>1, MaxAttemptsAssumption
    <2>3. CASE k # Len(t)
      <3>1. k \in 1..Len(q) /\ t[k] = q[k]
        BY <1>1, <2>3
      <3> QED
        BY <1>5, <2>1, <3>1 DEF Lined
    <2> QED
      BY <2>2, <2>3
  <1>6. ASSUME NEW j \in Job PROVE p[j] <= u[j]
    <2>1. p[j] <= s[j]
      BY DEF Lined
    <2> QED
      BY <1>3, <1>u, <2>1
  <1> QED
    BY <1>4, <1>5, <1>6 DEF Lined, t, u

(* None is missing from the channel after it either. *)
LEMMA CompleteSend ==
  ASSUME NEW q \in Seq(Record), NEW p \in [Job -> Nat], NEW s \in [Job -> Nat],
         Complete(q, p, s), NEW r \in Record, r.attempt = s[r.job] + 1
  PROVE  Complete(Append(q, r), p, [s EXCEPT ![r.job] = @ + 1])
  <1> DEFINE t == Append(q, r)
             u == [s EXCEPT ![r.job] = @ + 1]
  <1>1. /\ Len(q) \in Nat /\ Len(t) = Len(q) + 1 /\ t[Len(t)] = r
        /\ \A i \in 1..Len(q) : t[i] = q[i]
    OBVIOUS
  <1>2. r.job \in Job /\ r.attempt \in 1..MaxAttempts
    BY DEF Record
  <1>3. /\ u[r.job] = s[r.job] + 1
        /\ \A j \in Job : j # r.job => u[j] = s[j]
        /\ \A j \in Job : s[j] \in Nat
    BY <1>2
  <1> HIDE DEF t, u
  <1>4. ASSUME NEW j \in Job, NEW n \in 0..MaxAttempts, p[j] < n, n <= u[j]
        PROVE  \E i \in 1..Len(t) : t[i].job = j /\ t[i].attempt = n
    <2>1. CASE n <= s[j]
      <3>1. p[j] < n /\ n <= s[j]
        BY <1>4, <2>1
      <3>2. PICK i \in 1..Len(q) : q[i].job = j /\ q[i].attempt = n
        BY <3>1 DEF Complete
      <3> QED
        BY <1>1, <3>2
    <2>2. CASE ~(n <= s[j])
      <3>1. j = r.job /\ n = r.attempt
        BY <1>2, <1>3, <1>4, <2>2, MaxAttemptsAssumption
      <3>2. Len(t) \in 1..Len(t) /\ t[Len(t)] = r
        BY <1>1
      <3> QED
        BY <3>1, <3>2
    <2> QED
      BY <2>1, <2>2
  <1> QED
    BY <1>4 DEF Complete, t, u

(* The first record of the channel is taken and printed, or lost. *)
LEMMA LinedTake ==
  ASSUME NEW q \in Seq(Record), NEW p \in [Job -> Nat], NEW s \in [Job -> Nat],
         Lined(q, p, s), q # << >>
  PROVE  /\ Lined(Tail(q), [p EXCEPT ![Head(q).job] = Head(q).attempt], s)
         /\ Lined(Tail(q), p, s)
  <1> DEFINE r == Head(q)
             t == Tail(q)
             o == [p EXCEPT ![r.job] = r.attempt]
  <1>1. /\ Len(q) \in Nat \ {0} /\ Len(t) = Len(q) - 1 /\ q[1] = r
        /\ \A i \in 1..Len(t) : t[i] = q[i + 1]
        /\ \A i \in 1..Len(q) : q[i] \in Record
    BY HeadTail
  <1>2. \A i \in 1..Len(q) : q[i].job \in Job /\ q[i].attempt \in 1..MaxAttempts
    BY <1>1 DEF Record
  <1>3. r.job \in Job /\ r.attempt \in 1..MaxAttempts
    BY <1>1, <1>2
  <1>4. /\ o \in [Job -> Nat] /\ o[r.job] = r.attempt
        /\ \A j \in Job : j # r.job => o[j] = p[j]
        /\ \A j \in Job : s[j] \in Nat /\ o[j] \in Nat /\ p[j] \in Nat
    BY <1>3, MaxAttemptsAssumption
  <1> HIDE DEF r, t, o
  <1>5. p[r.job] < r.attempt /\ r.attempt <= s[r.job]
    BY <1>1 DEF Lined
  <1>7. ASSUME NEW i \in 1..Len(t)
        PROVE  o[t[i].job] < t[i].attempt /\ t[i].attempt <= s[t[i].job]
    <2>1. i + 1 \in 1..Len(q) /\ t[i] = q[i + 1] /\ 1 \in 1..Len(q) /\ 1 < i + 1
      BY <1>1
    <2>2. CASE t[i].job = r.job
      BY <1>1, <1>4, <2>1, <2>2 DEF Lined
    <2>3. CASE t[i].job # r.job
      BY <1>2, <1>4, <2>1, <2>3 DEF Lined
    <2> QED
      BY <2>2, <2>3
  <1>8. ASSUME NEW i \in 1..Len(t), NEW k \in 1..Len(t), i < k, t[i].job = t[k].job
        PROVE  t[i].attempt < t[k].attempt
    <2>1. /\ i + 1 \in 1..Len(q) /\ k + 1 \in 1..Len(q) /\ i + 1 < k + 1
          /\ t[i] = q[i + 1] /\ t[k] = q[k + 1]
      BY <1>1, <1>8
    <2>2. \A a, b \in 1..Len(q) : a < b /\ q[a].job = q[b].job => q[a].attempt < q[b].attempt
      BY DEF Lined
    <2>3. q[i + 1].job = q[k + 1].job
      BY <1>8, <2>1
    <2> QED
      BY <2>1, <2>2, <2>3
  <1>9. \A j \in Job : o[j] <= s[j]
    BY <1>4, <1>5 DEF Lined
  <1>10. Lined(t, o, s)
    BY <1>7, <1>8, <1>9 DEF Lined
  <1>11. ASSUME NEW i \in 1..Len(t)
         PROVE  p[t[i].job] < t[i].attempt /\ t[i].attempt <= s[t[i].job]
    <2>1. i + 1 \in 1..Len(q) /\ t[i] = q[i + 1]
      BY <1>1
    <2> QED
      BY <2>1 DEF Lined
  <1>12. Lined(t, p, s)
    BY <1>8, <1>11 DEF Lined
  <1> QED
    BY <1>10, <1>12 DEF r, t, o

(* It is the next one of its URL if none was lost, and then none is.       *)
LEMMA CompleteTake ==
  ASSUME NEW q \in Seq(Record), NEW p \in [Job -> Nat], NEW s \in [Job -> Nat],
         Lined(q, p, s), Complete(q, p, s), q # << >>
  PROVE  /\ Head(q).attempt = p[Head(q).job] + 1
         /\ Complete(Tail(q), [p EXCEPT ![Head(q).job] = Head(q).attempt], s)
  <1> DEFINE r == Head(q)
             t == Tail(q)
             o == [p EXCEPT ![r.job] = r.attempt]
  <1>1. /\ Len(q) \in Nat \ {0} /\ Len(t) = Len(q) - 1 /\ q[1] = r
        /\ \A i \in 1..Len(t) : t[i] = q[i + 1]
        /\ \A i \in 1..Len(q) : q[i] \in Record
    BY HeadTail
  <1>2. \A i \in 1..Len(q) : q[i].job \in Job /\ q[i].attempt \in 1..MaxAttempts
    BY <1>1 DEF Record
  <1>3. r.job \in Job /\ r.attempt \in 1..MaxAttempts
    BY <1>1, <1>2
  <1>4. /\ o \in [Job -> Nat] /\ o[r.job] = r.attempt
        /\ \A j \in Job : j # r.job => o[j] = p[j]
        /\ \A j \in Job : s[j] \in Nat /\ o[j] \in Nat /\ p[j] \in Nat
    BY <1>3, MaxAttemptsAssumption
  <1> HIDE DEF r, t, o
  <1>5. p[r.job] < r.attempt /\ r.attempt <= s[r.job]
    BY <1>1 DEF Lined
  <1>6. r.attempt = p[r.job] + 1
    <2> SUFFICES ASSUME p[r.job] + 1 < r.attempt PROVE FALSE
      BY <1>3, <1>4, <1>5, MaxAttemptsAssumption
    <2>1. p[r.job] + 1 \in 0..MaxAttempts /\ p[r.job] + 1 <= s[r.job]
      BY <1>3, <1>4, <1>5, MaxAttemptsAssumption
    <2>2. p[r.job] < p[r.job] + 1 /\ r.job \in Job
      BY <1>3, <1>4
    <2>3. PICK i \in 1..Len(q) : q[i].job = r.job /\ q[i].attempt = p[r.job] + 1
      BY <2>1, <2>2 DEF Complete
    <2>4. i # 1
      <3>1. q[i].attempt # r.attempt
        BY <1>3, <1>4, <2>3, MaxAttemptsAssumption
      <3> QED
        BY <1>1, <3>1
    <2>5. q[1].attempt < q[i].attempt
      <3>1. 1 \in 1..Len(q) /\ 1 < i /\ q[1].job = q[i].job
        BY <1>1, <2>3, <2>4
      <3> QED
        BY <3>1 DEF Lined
    <2> QED
      BY <1>1, <1>3, <1>4, <2>3, <2>5, MaxAttemptsAssumption
  <1>7. ASSUME NEW j \in Job, NEW n \in 0..MaxAttempts, o[j] < n, n <= s[j]
         PROVE  \E i \in 1..Len(t) : t[i].job = j /\ t[i].attempt = n
    <2>1. p[j] < n
      <3>1. CASE j = r.job
        BY <1>3, <1>4, <1>5, <1>7, <3>1, MaxAttemptsAssumption
      <3>2. CASE j # r.job
        BY <1>4, <1>7, <3>2
      <3> QED
        BY <3>1, <3>2
    <2>2. PICK i \in 1..Len(q) : q[i].job = j /\ q[i].attempt = n
      BY <1>7, <2>1 DEF Complete
    <2>3. i # 1
      BY <1>1, <1>3, <1>4, <1>7, <2>2, MaxAttemptsAssumption
    <2>4. i - 1 \in 1..Len(t) /\ t[i - 1] = q[i]
      BY <1>1, <2>3
    <2> QED
      BY <2>2, <2>4
  <1> QED
    BY <1>6, <1>7 DEF Complete, r, t, o

(* What was sent counts from zero, and what is reported is counted. *)
LEMMA SentType == IInv => Sent \in [Job -> Nat]
  <1> SUFFICES ASSUME TypeOK, Counting PROVE Sent \in [Job -> Nat]
    BY DEF IInv
  <1> SUFFICES ASSUME NEW j \in Job, NEW w \in Worker, cur[w] = j, pc[w] = "report"
               PROVE  tries[j] - 1 \in Nat
    BY DEF Sent, TypeOK
  <1> QED
    BY MaxAttemptsAssumption DEF TypeOK, Counting

(* A step of one worker leaves what was sent alone unless it reports. *)
LEMMA SentKept ==
  ASSUME IInv, NEW w \in Worker, NEW to, GoTo(w, to), tries' = tries,
         pc[w] # "report", to # "report",
         \A v \in Worker : v # w => cur'[v] = cur[v]
  PROVE  Sent' = Sent
  <1>1. \A v \in Worker : pc'[v] = "report" <=> pc[v] = "report"
    BY DEF IInv, TypeOK, GoTo
  <1>2. \A v \in Worker : pc[v] = "report" => cur'[v] = cur[v]
    OBVIOUS
  <1> QED
    BY <1>1, <1>2 DEF Sent

(* An attempt that ends is not sent yet. *)
LEMMA SentAttempt ==
  ASSUME IInv, NEW w \in Worker, pc[w] \in {"sleep", "request"}, CountTry(w),
         GoTo(w, "report"), cur' = cur
  PROVE  Sent' = Sent
  <1>1. /\ cur[w] \in Job /\ cur[w] # NoJob
        /\ \A v \in Worker : cur[v] = cur[w] => v = w
        /\ pc \in [Worker -> WorkerPC] /\ tries \in [Job -> Nat]
    BY DEF IInv, TypeOK, Ownership, Busy
  <1>2. ASSUME NEW j \in Job PROVE Sent'[j] = Sent[j]
    <2>1. CASE j = cur[w]
      BY <1>1, <2>1 DEF Sent, CountTry, GoTo
    <2>2. CASE j # cur[w]
      <3>1. \A v \in Worker : cur[v] = j => v # w /\ pc'[v] = pc[v]
        BY <1>1, <2>2 DEF GoTo
      <3>2. tries'[j] = tries[j]
        BY <1>1, <2>2 DEF CountTry
      <3> QED
        BY <3>1, <3>2 DEF Sent
    <2> QED
      BY <2>1, <2>2
  <1> QED
    BY <1>2 DEF Sent

(* A report is the next record of its URL. *)
LEMMA SentOne ==
  ASSUME IInv, NEW w \in Worker, pc[w] = "report", NEW to, GoTo(w, to), to # "report",
         tries' = tries, \A v \in Worker : v # w => cur'[v] = cur[v]
  PROVE  /\ cur[w] \in Job
         /\ attempt[w] = Sent[cur[w]] + 1
         /\ Sent' = [Sent EXCEPT ![cur[w]] = @ + 1]
  <1>1. /\ cur[w] \in Job /\ cur[w] # NoJob
        /\ \A v \in Worker : cur[v] = cur[w] => v = w
        /\ pc \in [Worker -> WorkerPC] /\ tries \in [Job -> Nat]
        /\ tries[cur[w]] = attempt[w] /\ attempt[w] \in Nat
    BY MaxAttemptsAssumption DEF IInv, TypeOK, Ownership, Busy, Counting
  <1>2. Sent[cur[w]] = tries[cur[w]] - 1
    BY <1>1 DEF Sent
  <1>3. pc'[w] # "report" /\ \A v \in Worker : v # w => pc'[v] = pc[v]
    BY <1>1 DEF GoTo
  <1>4. Sent'[cur[w]] = tries[cur[w]]
    BY <1>1, <1>3 DEF Sent
  <1>5. ASSUME NEW j \in Job, j # cur[w] PROVE Sent'[j] = Sent[j]
    BY <1>3, <1>5 DEF Sent
  <1>6. Sent' \in [Job -> {Sent'[j] : j \in Job}] /\ DOMAIN Sent = Job
    BY DEF Sent
  <1> QED
    BY <1>1, <1>2, <1>4, <1>5, <1>6

(* One step of the program, as the log sees it: a record is sent, or       *)
(* printed, or lost, or nothing happens to it.                             *)
LogStill ==
  logCh' = logCh /\ printed' = printed /\ Sent' = Sent /\ encoder' = encoder

LogSent ==
  \E r \in Record :
    /\ r.attempt = Sent[r.job] + 1
    /\ logCh' = Append(logCh, r) /\ printed' = printed /\ encoder' = encoder
    /\ Sent' = [Sent EXCEPT ![r.job] = @ + 1]

LogPrinted == LogWrite /\ Sent' = Sent

LogDropped == LogLost /\ Sent' = Sent

LEMMA LogEffect == IInv /\ [Next]_vars => LogStill \/ LogSent \/ LogPrinted \/ LogDropped
  <1> SUFFICES ASSUME IInv, [Next]_vars PROVE LogStill \/ LogSent \/ LogPrinted \/ LogDropped
    OBVIOUS
  <1>0. /\ cur \in [Worker -> Job \cup {NoJob}] /\ attempt \in [Worker -> 1..MaxAttempts]
        /\ pc \in [Worker -> WorkerPC]
    BY DEF IInv, TypeOK
  <1>1. ASSUME NEW w \in Worker, Take(w) \/ BackoffAborted(w) PROVE LogStill
    <2>1. \A v \in Worker : v # w => cur'[v] = cur[v]
      BY <1>0, <1>1 DEF Take, BackoffAborted, Finish
    <2>2. \E to \in {"sleep", "fatal"} : GoTo(w, to)
      BY <1>1 DEF Take, BackoffAborted, Finish
    <2>3. /\ pc[w] # "report" /\ tries' = tries /\ logCh' = logCh /\ printed' = printed
          /\ encoder' = encoder
      BY <1>1 DEF Take, BackoffAborted, logVars
    <2> QED
      BY <2>1, <2>2, <2>3, SentKept DEF LogStill
  <1>2. ASSUME NEW w \in Worker, QuitCancelled(w) \/ QuitClosed(w) \/ StartRequest(w)
                 \/ BackoffOver(w) \/ SetFatal(w) \/ Cancel(w)
        PROVE LogStill
    <2>1. \E to \in {"done", "request", "sleep", "cancel"} : GoTo(w, to)
      BY <1>2 DEF QuitCancelled, QuitClosed, StartRequest, BackoffOver, SetFatal, Cancel
    <2>2. /\ pc[w] # "report" /\ cur' = cur /\ tries' = tries /\ logCh' = logCh /\ printed' = printed
          /\ encoder' = encoder
      BY <1>2 DEF QuitCancelled, QuitClosed, StartRequest, BackoffOver, SetFatal, Cancel,
         logVars, jobVars
    <2> QED
      BY <2>1, <2>2, SentKept DEF LogStill
  <1>3. ASSUME NEW w \in Worker,
               RequestRefused(w) \/ \E s \in Status, b \in BOOLEAN : RequestDone(w, s, b)
        PROVE LogStill
    BY <1>3, SentAttempt DEF RequestRefused, RequestDone, logVars, LogStill
  <1>4. ASSUME NEW w \in Worker, ReportAnswered(w) \/ ReportExhausted(w) \/ ReportRetry(w)
                 \/ ReportRetryAtOnce(w)
        PROVE LogSent
    <2>1. \A v \in Worker : v # w => cur'[v] = cur[v]
      BY <1>0, <1>4 DEF ReportAnswered, ReportExhausted, ReportRetry, ReportRetryAtOnce, Finish,
         jobVars
    <2>2. \E to \in {"select", "fatal", "backoff", "sleep"} : GoTo(w, to)
      BY <1>4 DEF ReportAnswered, ReportExhausted, ReportRetry, ReportRetryAtOnce, Finish
    <2>3. pc[w] = "report" /\ tries' = tries /\ SendLog(w)
      BY <1>4 DEF ReportAnswered, ReportExhausted, ReportRetry, ReportRetryAtOnce, jobVars
    <2>4. /\ cur[w] \in Job /\ attempt[w] = Sent[cur[w]] + 1
          /\ Sent' = [Sent EXCEPT ![cur[w]] = @ + 1]
      BY <2>1, <2>2, <2>3, SentOne
    <2> DEFINE r == [job |-> cur[w], attempt |-> attempt[w]]
    <2>5. r \in Record /\ r.job = cur[w] /\ r.attempt = attempt[w]
      BY <1>0, <2>4 DEF Record
    <2>6. logCh' = Append(logCh, r) /\ printed' = printed /\ encoder' = encoder
      BY <2>3 DEF SendLog
    <2> HIDE DEF r
    <2> QED
      BY <2>4, <2>5, <2>6 DEF LogSent
  <1>5. CASE LogWrite
    BY <1>5 DEF LogWrite, LogPrinted, Sent, jobVars
  <1>8. CASE LogLost
    BY <1>8 DEF LogLost, LogDropped, Sent, jobVars
  <1>6. CASE Start
    <2>1. \A v \in Worker : pc[v] # "report" /\ pc'[v] # "report"
      BY <1>6 DEF Start, IInv, Progress
    <2> QED
      BY <1>6, <2>1 DEF Start, LogStill, Sent, jobVars
  <1>7. CASE ProducerDone \/ LogEnd \/ (MainStep /\ ~Start) \/ UNCHANGED vars
    <2>1. /\ logCh' = logCh /\ printed' = printed /\ encoder' = encoder
          /\ pc' = pc /\ cur' = cur /\ tries' = tries
      BY <1>7 DEF ProducerDone, LogEnd, MainStep, StartFail, MainJoin, MainDrained, MainReturn,
         MainExit, logVars, jobVars, vars
    <2> QED
      BY <2>1 DEF LogStill, Sent
  <1> QED
    BY <1>1, <1>2, <1>3, <1>4, <1>5, <1>6, <1>7, <1>8
       DEF Next, WorkerStep, LoggerStep, Terminated

(* Every step keeps the records in line, loses none before a write fails,  *)
(* and prints at most the next one.                                        *)
LEMMA LinedStep ==
  IInv /\ LogInv /\ [Next]_vars =>
    /\ Lined(logCh, printed, Sent)'
    /\ (encoder = "ok" => Complete(logCh, printed, Sent))'
    /\ \A j \in Job : printed'[j] \in {printed[j], printed[j] + 1}
  <1> SUFFICES ASSUME IInv, LogInv, [Next]_vars
               PROVE  /\ Lined(logCh', printed', Sent')
                      /\ encoder' = "ok" => Complete(logCh', printed', Sent')
                      /\ \A j \in Job : printed'[j] \in {printed[j], printed[j] + 1}
    BY DEF Lined, Complete
  <1>1. /\ logCh \in Seq(Record) /\ printed \in [Job -> Nat] /\ Sent \in [Job -> Nat]
        /\ Lined(logCh, printed, Sent)
        /\ encoder = "ok" => Complete(logCh, printed, Sent)
    BY SentType, MaxAttemptsAssumption DEF IInv, TypeOK, LogTypeOK, Record, LogInv
  <1>2. CASE LogStill
    BY <1>1, <1>2 DEF LogStill
  <1>3. CASE LogSent
    <2>1. PICK r \in Record :
            /\ r.attempt = Sent[r.job] + 1
            /\ logCh' = Append(logCh, r) /\ printed' = printed /\ encoder' = encoder
            /\ Sent' = [Sent EXCEPT ![r.job] = @ + 1]
      BY <1>3 DEF LogSent
    <2>2. Lined(Append(logCh, r), printed, [Sent EXCEPT ![r.job] = @ + 1])
      BY <1>1, <2>1, LinedSend
    <2>3. encoder = "ok" =>
            Complete(Append(logCh, r), printed, [Sent EXCEPT ![r.job] = @ + 1])
      BY <1>1, <2>1, CompleteSend
    <2>4. \A j \in Job : printed'[j] = printed[j]
      BY <2>1
    <2> QED
      BY <2>1, <2>2, <2>3, <2>4
  <1>4. CASE LogPrinted
    <2>1. /\ logCh # << >> /\ logCh' = Tail(logCh) /\ encoder = "ok" /\ Sent' = Sent
          /\ printed' = [printed EXCEPT ![Head(logCh).job] = Head(logCh).attempt]
      BY <1>4 DEF LogPrinted, LogWrite
    <2>2. Lined(Tail(logCh), printed', Sent)
      BY <1>1, <2>1, LinedTake
    <2>3. /\ Head(logCh).attempt = printed[Head(logCh).job] + 1
          /\ Complete(Tail(logCh), printed', Sent)
      BY <1>1, <2>1, CompleteTake
    <2> QED
      BY <1>1, <2>1, <2>2, <2>3
  <1>5. CASE LogDropped
    <2>1. /\ logCh # << >> /\ logCh' = Tail(logCh) /\ encoder' = "failed" /\ Sent' = Sent
          /\ printed' = printed
      BY <1>5 DEF LogDropped, LogLost
    <2>2. Lined(Tail(logCh), printed, Sent)
      BY <1>1, <2>1, LinedTake
    <2> QED
      BY <1>1, <2>1, <2>2
  <1> QED
    BY <1>2, <1>3, <1>4, <1>5, LogEffect

(* The log is in line, and the logger ends only with an empty channel. *)
THEOREM LogInvariance == Spec => []LogInv
  <1>1. Init => LogInv
    <2> SUFFICES ASSUME Init PROVE LogInv
      OBVIOUS
    <2>1. Sent = [j \in Job |-> 0] /\ printed = [j \in Job |-> 0] /\ Len(logCh) = 0
      BY DEF Init, Sent
    <2> QED
      BY <2>1 DEF Init, LogInv, Lined, Complete
  <1>2. IInv /\ LogInv /\ [Next]_vars => LogInv'
    <2> SUFFICES ASSUME IInv, LogInv, [Next]_vars PROVE LogInv'
      OBVIOUS
    <2>1. /\ Lined(logCh, printed, Sent)'
          /\ (encoder = "ok" => Complete(logCh, printed, Sent))'
      BY LinedStep
    <2>2. (logger = "ended" => logCh = << >> /\ logClosed)'
      <3>1. ASSUME NEW w \in Worker, WorkerStep(w) PROVE logger = logger' /\ logClosed' = logClosed
                                                         /\ (logCh' = logCh \/ ~logClosed)
        BY <3>1 DEF WorkerStep, Take, QuitCancelled, QuitClosed, StartRequest, RequestRefused,
           RequestDone, ReportAnswered, ReportExhausted, ReportRetry, ReportRetryAtOnce,
           BackoffOver, BackoffAborted, SetFatal, Cancel, SendLog, logVars
      <3>2. CASE Start
        BY <3>2 DEF Start
      <3>3. CASE ProducerDone \/ LoggerStep \/ (MainStep /\ ~Start) \/ UNCHANGED vars
        BY <3>3 DEF LogInv, ProducerDone, LoggerStep, LogWrite, LogLost, LogEnd, MainStep,
           StartFail,
           MainJoin, MainDrained, MainReturn, MainExit, logVars, vars
      <3> QED
        BY <3>1, <3>2, <3>3 DEF LogInv, Next, Terminated
    <2>3. (main \in {"flush", "defer"} => logger = "ended")'
      <3>1. ASSUME NEW w \in Worker, WorkerStep(w) PROVE logger = logger' /\ main' = main
        BY <3>1 DEF WorkerStep, Take, QuitCancelled, QuitClosed, StartRequest, RequestRefused,
           RequestDone, ReportAnswered, ReportExhausted, ReportRetry, ReportRetryAtOnce,
           BackoffOver, BackoffAborted, SetFatal, Cancel, SendLog, logVars, mainVars
      <3>2. CASE ProducerDone \/ LoggerStep \/ MainStep \/ UNCHANGED vars
        BY <3>2 DEF LogInv, ProducerDone, LoggerStep, LogWrite, LogLost, LogEnd, MainStep,
           StartFail, Start,
           MainJoin, MainDrained, LogDrained, MainReturn, MainExit, logVars, mainVars, vars
      <3> QED
        BY <3>1, <3>2 DEF LogInv, Next, Terminated
    <2> QED
      BY <2>1, <2>2, <2>3 DEF LogInv
  <1> QED
    BY <1>1, <1>2, Invariance, PTL DEF Spec

(* Every attempt is printed before the exit code is decided, unless a      *)
(* write failed, for any number of workers and any capacity of the channel.*)
THEOREM LogWhole == Spec => []LogComplete
  <1>1. IInv /\ LogInv => LogComplete
    <2> SUFFICES ASSUME IInv, LogInv, main \in {"flush", "defer"}, encoder = "ok"
                 PROVE  printed = tries
      BY DEF LogComplete
    <2>1. Len(logCh) = 0 /\ Sent = tries
      <3>1. WorkersDone /\ tries \in [Job -> Nat] /\ logCh = << >>
        BY DEF IInv, Progress, TypeOK, LogInv
      <3> QED
        BY <3>1 DEF WorkersDone, Sent
    <2>2. printed \in [Job -> Nat] /\ tries \in [Job -> Nat]
      BY MaxAttemptsAssumption DEF IInv, TypeOK, LogTypeOK
    <2>3. ASSUME NEW j \in Job PROVE printed[j] = tries[j]
      <3>1. printed[j] <= tries[j] /\ tries[j] <= MaxAttempts
        BY <2>1 DEF LogInv, Lined, IInv, Counting, RetryBudget
      <3>2. ~(printed[j] < tries[j])
        BY <2>1, <2>2, <3>1, MaxAttemptsAssumption DEF LogInv, Complete
      <3> QED
        BY <2>2, <3>1, <3>2
    <2> QED
      BY <2>2, <2>3
  <1> QED
    BY <1>1, Invariance, LogInvariance, PTL

(* The lines of a URL are printed in the order of its attempts. *)
THEOREM LogOrdered == Spec => LogInOrder
  <1>1. IInv /\ LogInv /\ [Next]_vars =>
          [\A j \in Job : printed'[j] \in {printed[j], printed[j] + 1}]_vars
    BY LinedStep
  <1> QED
    BY <1>1, Invariance, LogInvariance, PTL DEF Spec, LogInOrder

-----------------------------------------------------------------------------
(* Fail fast: each late URL has used up a worker of its own. *)

(* Only finitely many URLs are late, and workers spent. *)
LEMMA LateFinite ==
  ASSUME TypeOK
  PROVE  /\ IsFiniteSet(late) /\ Cardinality(late) \in Nat
         /\ IsFiniteSet(Spent) /\ Cardinality(Spent) \in Nat
         /\ Cardinality(Spent) <= Cardinality(Worker) /\ Cardinality(Worker) \in Nat
  <1>1. IsFiniteSet(Job) /\ late \subseteq Job
    BY FS_Interval, NumURLsAssumption DEF Job, TypeOK
  <1>2. Spent \subseteq Worker
    BY DEF Spent
  <1> QED
    BY <1>1, <1>2, WorkerAssumption, FS_Subset, FS_CardinalityType

(* A step that makes no URL late, and no worker fresh. *)
LEMMA LateKept ==
  ASSUME TypeOK, TypeOK', LateInv, late' = late, next' = next, cancelled' = cancelled,
         \A j \in late : result'[j] \notin {"loaded", "missing"},
         \A w \in Worker : cur'[w] \in late =>
           pc'[w] # "request" /\ (pc'[w] = "report" => status'[w] = "none"),
         Spent \subseteq Spent'
  PROVE  LateInv'
  <1>1. Cardinality(Spent) <= Cardinality(Spent') /\ Cardinality(Spent') \in Nat
    <2>1. IsFiniteSet(Spent')
      <3>1. Spent' \subseteq Worker
        BY DEF Spent
      <3> QED
        BY <3>1, WorkerAssumption, FS_Subset
    <2> QED
      BY <2>1, FS_Subset, FS_CardinalityType
  <1>2. cancelled' => Cardinality(late') < Cardinality(Spent')
    <2>1. cancelled => Cardinality(late) < Cardinality(Spent)
      BY DEF LateInv
    <2>2. Cardinality(late') = Cardinality(late)
      OBVIOUS
    <2> QED
      BY <1>1, <2>1, <2>2, LateFinite
  <1>3. \A j \in late' : j < next' /\ result'[j] \notin {"loaded", "missing"}
    BY DEF LateInv
  <1> QED
    BY <1>2, <1>3 DEF LateInv

(* The first cancellation finds no URL late and leaves a worker spent. *)
LEMMA LateCancel ==
  ASSUME LateInv, ~cancelled, late' = late, cancelled', Spent' # {}
  PROVE  LateInv'
  <1>1. late = {} /\ late' = {}
    BY DEF LateInv
  <1>2. IsFiniteSet(Spent')
    <2>1. Spent' \subseteq Worker
      BY DEF Spent
    <2> QED
      BY <2>1, WorkerAssumption, FS_Subset
  <1>3. Cardinality(late') = 0 /\ Cardinality(Spent') \in Nat /\ Cardinality(Spent') # 0
    BY <1>1, <1>2, FS_EmptySet, FS_CardinalityType
  <1> QED
    BY <1>1, <1>3 DEF LateInv

(* A URL handed over after the cancellation uses up the worker that has it. *)
LEMMA LateTake ==
  ASSUME IInv, LateInv, NEW w \in Worker, Take(w)
  PROVE  LateInv'
  <1>0. /\ pc \in [Worker -> WorkerPC] /\ cur \in [Worker -> Job \cup {NoJob}]
        /\ next \in 1..(NumURLs + 1) /\ late \subseteq Job
        /\ cur[w] = NoJob /\ pc[w] = "select" /\ w \notin Spent
        /\ result[next] = "pending"
    <2>1. /\ pc \in [Worker -> WorkerPC] /\ cur \in [Worker -> Job \cup {NoJob}]
          /\ next \in 1..(NumURLs + 1) /\ late \subseteq Job
          /\ pc[w] = "select" /\ cur[w] = NoJob
      BY DEF IInv, TypeOK, Take, Busy
    <2>2. w \notin Spent
      BY <2>1 DEF Spent, Job, NoJob
    <2>3. result[next] = "pending"
      BY <2>1, NumURLsAssumption DEF IInv, Ownership, Take, Job
    <2> QED
      BY <2>1, <2>2, <2>3
  <1>1. /\ pc' = [pc EXCEPT ![w] = "sleep"] /\ cur' = [cur EXCEPT ![w] = next]
        /\ next' = next + 1 /\ next \in Job /\ result' = result /\ status' = status
        /\ cancelled' = cancelled
    BY DEF Take, GoTo
  <1>2. \A v \in Worker \ {w} : pc'[v] = pc[v] /\ cur'[v] = cur[v] /\ cur[v] # next
    BY <1>0, <1>1, NumURLsAssumption DEF IInv, Ownership, NoJob
  <1>3. /\ \A j \in late' : j < next' /\ result'[j] \notin {"loaded", "missing"}
        /\ late' # {} => cancelled'
    <2>1. late' \in {late, late \cup {next}} /\ (late' # late => cancelled)
      BY DEF Take
    <2> QED
      BY <1>0, <1>1, <2>1, NumURLsAssumption DEF LateInv, Job
  <1>4. \A v \in Worker : cur'[v] \in late' =>
          pc'[v] # "request" /\ (pc'[v] = "report" => status'[v] = "none")
    <2>1. late' \subseteq late \cup {next}
      BY DEF Take
    <2> QED
      BY <1>0, <1>1, <1>2, <2>1 DEF LateInv
  <1>5. ASSUME cancelled' PROVE Cardinality(late') < Cardinality(Spent')
    <2>0. cancelled
      BY <1>1, <1>5
    <2>1. late' = late \cup {next} /\ next \notin late
      BY <1>0, <2>0, NumURLsAssumption DEF Take, LateInv
    <2>2. Spent' = Spent \cup {w}
      BY <1>0, <1>1, <1>2, <2>1 DEF Spent
    <2>3. /\ Cardinality(late') = Cardinality(late) + 1
          /\ Cardinality(Spent') = Cardinality(Spent) + 1
      BY <1>0, <2>1, <2>2, LateFinite, FS_AddElement DEF IInv
    <2>4. Cardinality(late) < Cardinality(Spent)
      BY <2>0 DEF LateInv
    <2> QED
      BY <2>3, <2>4, LateFinite DEF IInv
  <1> QED
    BY <1>3, <1>4, <1>5 DEF LateInv

(* Every step keeps a late URL without an answer, and its worker spent. *)
LEMMA LateStep == IInv /\ IInv' /\ LateInv /\ [Next]_vars => LateInv'
  <1> SUFFICES ASSUME IInv, IInv', LateInv, [Next]_vars PROVE LateInv'
    OBVIOUS
  <1>0. /\ pc \in [Worker -> WorkerPC] /\ cur \in [Worker -> Job \cup {NoJob}]
        /\ status \in [Worker -> Status] /\ result \in [Job -> Outcome]
        /\ late \subseteq Job /\ NoJob \notin late /\ TypeOK /\ TypeOK'
        /\ \A v \in Worker : pc[v] \in Busy <=> cur[v] # NoJob
    <2>1. TypeOK /\ TypeOK'
      BY DEF IInv
    <2>2. /\ pc \in [Worker -> WorkerPC] /\ cur \in [Worker -> Job \cup {NoJob}]
          /\ status \in [Worker -> Status] /\ result \in [Job -> Outcome] /\ late \subseteq Job
          /\ \A v \in Worker : pc[v] \in Busy <=> cur[v] # NoJob
      BY <2>1 DEF TypeOK
    <2>3. NoJob \notin late
      BY <2>2 DEF Job, NoJob
    <2> QED
      BY <2>1, <2>2, <2>3
  <1>1. ASSUME NEW w \in Worker, NEW to \in WorkerPC, pc[w] \notin {"fatal", "cancel", "done"},
               GoTo(w, to), UNCHANGED <<cur, status, result, next, late, cancelled>>,
               cur[w] \notin late \/ to \notin {"request", "report"}
        PROVE LateInv'
    <2>1. Spent \subseteq Spent'
      BY <1>0, <1>1 DEF Spent, GoTo
    <2>2. \A v \in Worker : cur'[v] \in late =>
            pc'[v] # "request" /\ (pc'[v] = "report" => status'[v] = "none")
      BY <1>0, <1>1 DEF LateInv, GoTo
    <2> QED
      BY <1>0, <1>1, <2>1, <2>2, LateKept DEF LateInv
  <1>2. ASSUME NEW w \in Worker, QuitCancelled(w) \/ QuitClosed(w) \/ ReportRetry(w)
                 \/ ReportRetryAtOnce(w) \/ BackoffOver(w)
        PROVE LateInv'
    BY <1>1, <1>2 DEF QuitCancelled, QuitClosed, ReportRetry, ReportRetryAtOnce, BackoffOver,
       jobVars, WorkerPC
  <1>3. ASSUME NEW w \in Worker, StartRequest(w) PROVE LateInv'
    BY <1>1, <1>3 DEF StartRequest, RequestAllowed, LateInv, jobVars, WorkerPC
  <1>4. ASSUME NEW w \in Worker, pc[w] \in {"sleep", "request"}, GoTo(w, "report"), NEW s,
               status' = [status EXCEPT ![w] = s], cur[w] \notin late \/ s = "none",
               UNCHANGED <<cur, result, next, late, cancelled>>
        PROVE LateInv'
    <2>1. Spent \subseteq Spent'
      BY <1>0, <1>4 DEF Spent, GoTo
    <2>2. \A v \in Worker : cur'[v] \in late =>
            pc'[v] # "request" /\ (pc'[v] = "report" => status'[v] = "none")
      BY <1>0, <1>4 DEF LateInv, GoTo
    <2> QED
      BY <1>0, <1>4, <2>1, <2>2, LateKept DEF LateInv
  <1>5. ASSUME NEW w \in Worker,
               RequestRefused(w) \/ \E s \in Status, b \in BOOLEAN : RequestDone(w, s, b)
        PROVE LateInv'
    BY <1>4, <1>5 DEF RequestRefused, RequestDone, LateInv
  <1>6. ASSUME NEW w \in Worker, pc[w] \in Busy, NEW r, NEW to, Finish(w, r, to),
               \/ cur[w] \notin late
               \/ to = "fatal" /\ r \notin {"loaded", "missing"},
               UNCHANGED <<status, next, late, cancelled>>, to \notin Busy
        PROVE LateInv'
    <2>0. \A v \in Worker \ {w} : pc'[v] = pc[v] /\ cur'[v] = cur[v]
      BY <1>0, <1>6 DEF Finish, GoTo
    <2>1. Spent \subseteq Spent'
      BY <1>0, <1>6, <2>0 DEF Spent, Finish, GoTo, Busy
    <2>2. \A v \in Worker : cur'[v] \in late =>
            pc'[v] # "request" /\ (pc'[v] = "report" => status'[v] = "none")
      BY <1>0, <1>6, <2>0 DEF LateInv, Finish
    <2>3. \A j \in late : result'[j] \notin {"loaded", "missing"}
      BY <1>0, <1>6 DEF LateInv, Finish
    <2> QED
      BY <1>0, <1>6, <2>1, <2>2, <2>3, LateKept
  <1>7. ASSUME NEW w \in Worker, ReportAnswered(w) PROVE LateInv'
    <2>1. cur[w] \notin late /\ pc[w] \in Busy
      BY <1>7 DEF ReportAnswered, LateInv, Busy
    <2> QED
      BY <1>6, <1>7, <2>1 DEF ReportAnswered, Busy
  <1>8. ASSUME NEW w \in Worker, ReportExhausted(w) \/ BackoffAborted(w) PROVE LateInv'
    BY <1>6, <1>8 DEF ReportExhausted, BackoffAborted, Busy
  <1>9. ASSUME NEW w \in Worker, SetFatal(w) \/ Cancel(w) PROVE LateInv'
    <2>1. \E to \in {"cancel", "done"} : GoTo(w, to)
      BY <1>9 DEF SetFatal, Cancel
    <2>2. UNCHANGED <<cur, status, result, next, late>> /\ pc[w] \in {"fatal", "cancel"}
      BY <1>9 DEF SetFatal, Cancel, jobVars
    <2>3. Spent \subseteq Spent' /\ w \in Spent'
      BY <1>0, <2>1, <2>2 DEF Spent, GoTo
    <2>4. \A v \in Worker : cur'[v] \in late =>
            pc'[v] # "request" /\ (pc'[v] = "report" => status'[v] = "none")
      BY <1>0, <2>1, <2>2 DEF LateInv, GoTo
    <2>5. CASE cancelled' = cancelled
      BY <1>0, <2>2, <2>3, <2>4, <2>5, LateKept DEF LateInv
    <2>6. CASE cancelled' # cancelled
      <3>1. ~cancelled /\ cancelled'
        BY <1>0, <1>9, <2>6 DEF SetFatal, Cancel, TypeOK
      <3> QED
        BY <2>2, <2>3, <3>1, LateCancel
    <2> QED
      BY <2>5, <2>6
  <1>10. CASE Start
    <2>1. /\ Spent = {} /\ UNCHANGED <<cur, status, result, next, late, cancelled>>
          /\ \A v \in Worker : pc'[v] = "select"
      BY <1>0, <1>10 DEF Start, IInv, Progress, Spent, Busy, jobVars
    <2> QED
      BY <1>0, <2>1, LateKept DEF LateInv
  <1>11. CASE ProducerDone \/ LoggerStep \/ (MainStep /\ ~Start) \/ UNCHANGED vars
    <2>1. UNCHANGED <<pc, cur, status, result, next, late>>
      BY <1>11 DEF ProducerDone, LoggerStep, LogWrite, LogLost, LogEnd, MainStep,
         StartFail, MainJoin,
         MainDrained, MainReturn, MainExit, jobVars, vars
    <2>2. Spent' = Spent
      BY <2>1 DEF Spent
    <2>3. CASE cancelled' = cancelled
      BY <1>0, <2>1, <2>2, <2>3, LateKept DEF LateInv
    <2>4. CASE cancelled' # cancelled
      <3>1. MainExit
        BY <1>11, <2>4 DEF ProducerDone, LoggerStep, LogWrite, LogLost, LogEnd, MainStep,
           StartFail, MainJoin, MainDrained, MainReturn, vars
      <3>2. ~cancelled /\ cancelled'
        BY <1>0, <2>4, <3>1 DEF MainExit, TypeOK
      <3>3. Spent' # {}
        BY <2>2, <3>1, WorkerAssumption DEF MainExit, IInv, Progress, WorkersDone, Spent
      <3> QED
        BY <2>1, <3>2, <3>3, LateCancel
    <2> QED
      BY <2>3, <2>4
  <1> QED
    BY LateTake, <1>2, <1>3, <1>5, <1>7, <1>8, <1>9, <1>10, <1>11 DEF Next, WorkerStep,
       Terminated

(* A URL handed over after the cancellation is never answered, and there   *)
(* are fewer of them than workers, for any number of workers.              *)
THEOREM FailsFast == Spec => []FailFast
  <1>1. Init => LateInv
    <2> SUFFICES ASSUME Init PROVE LateInv
      OBVIOUS
    <2>1. late = {} /\ ~cancelled /\ \A w \in Worker : cur[w] \notin late
      BY DEF Init
    <2> QED
      BY <2>1 DEF LateInv
  <1>2. Spec => []LateInv
    BY <1>1, LateStep, Invariance, PTL DEF Spec
  <1>3. IInv /\ LateInv => FailFast
    <2> SUFFICES ASSUME IInv, LateInv PROVE FailFast
      OBVIOUS
    <2>1. CASE late = {}
      BY <2>1, WorkerAssumption, FS_EmptySet, FS_CardinalityType DEF FailFast
    <2>2. CASE late # {}
      BY <2>2, LateFinite DEF IInv, LateInv, FailFast
    <2> QED
      BY <2>1, <2>2
  <1> QED
    BY <1>2, <1>3, Invariance, PTL

-----------------------------------------------------------------------------
(* The composition *)

(* What is proved of MetricsBackend alone; the gauges beside it stand still. *)
Proved == INSTANCE GaugesProofs
            WITH ctxDone <- cancelled, MaxSamples <- NumURLs * MaxAttempts,
                 MaxSets <- 0, MaxClock <- 1, gauge <- 0, taken <- 0, clock <- 0, stamp <- 0,
                 points <- 0, set <- 0, delivered <- 0, overlapped <- FALSE, dueGauge <- 0

(* A step of the whole is a step or a stutter of the crawler. *)
THEOREM CrawlerPart == JgetSpec => Spec
  <1>1. JgetInit => Init
    BY DEF JgetInit
  <1>2. [JgetNext]_jgetVars => [Next]_vars
    <2> SUFFICES ASSUME [JgetNext]_jgetVars PROVE [Next]_vars
      OBVIOUS
    <2>1. ASSUME NEW w \in Worker, Attempt(w) \/ OtherWorkerStep(w) PROVE Next
      BY <2>1 DEF Attempt, OtherWorkerStep, Next, WorkerStep
    <2>2. CASE OtherStep
      BY <2>2 DEF OtherStep, Next, MainStep
    <2>3. CASE BackendStep
      BY <2>3 DEF BackendStep, QuietBackendStep, SubmissionFailed
    <2>4. CASE JgetMain
      BY <2>4 DEF JgetMain, MainFlush, ReturnAfterFlush, MainClose, ExitStep, Next, MainStep
    <2>5. CASE JgetDone \/ UNCHANGED jgetVars
      BY <2>5 DEF JgetDone, Terminated, jgetVars
    <2> QED
      BY <2>1, <2>2, <2>3, <2>4, <2>5 DEF JgetNext
  <1> QED
    BY <1>1, <1>2, PTL DEF JgetSpec, Spec

-----------------------------------------------------------------------------
(* The backend inside Jget is the one these proofs are about. *)

LEMMA SameInit == Backend!Init => Proved!Init
  BY DEF Backend!Init, Proved!Init, Backend!None, Proved!None, Backend!Kind, Proved!Kind,
     Backend!Flusher, Proved!Flusher
LEMMA SameNext == [Backend!Next]_(Backend!vars) => [Proved!Next]_(Proved!vars)
  BY DEF Backend!vars, Proved!vars, Backend!Next, Proved!Next, Backend!Observe,
     Proved!Observe, Backend!FlushStep, Proved!FlushStep, Backend!Snapshot,
     Proved!Snapshot, Backend!Refused, Proved!Refused, Backend!Send, Proved!Send,
     Backend!SeriesAccepted, Proved!SeriesAccepted, Backend!PointsAccepted,
     Proved!PointsAccepted, Backend!SeriesFailed, Proved!SeriesFailed,
     Backend!PointsFailed, Proved!PointsFailed, Backend!Tick, Proved!Tick,
     Backend!LoopStop, Proved!LoopStop, Backend!OwnerStep, Proved!OwnerStep,
     Backend!CallFlush, Proved!CallFlush, Backend!CallClose, Proved!CallClose,
     Backend!AwaitLoop, Proved!AwaitLoop, Backend!CloseReturns, Proved!CloseReturns,
     Backend!CancelCtx, Proved!CancelCtx, Backend!Closed, Proved!Closed, Backend!Enter,
     Proved!Enter, Backend!BuffersReset, Proved!BuffersReset, Backend!Delivered,
     Proved!Delivered, Backend!Dropped, Proved!Dropped, Backend!PointsIfAny,
     Proved!PointsIfAny, Backend!StopSeen, Proved!StopSeen, Backend!LoopEnded,
     Proved!LoopEnded, Backend!None, Proved!None, Backend!Plus, Proved!Plus, Backend!Only,
     Proved!Only, Backend!Kind, Proved!Kind, Backend!Flusher, Proved!Flusher,
     Backend!bufVars, Proved!bufVars, Backend!sentVars, Proved!sentVars, Backend!ctlVars,
     Proved!ctlVars

LEMMA SameIInv == Proved!IInv => Backend!IInv
  BY DEF Backend!IInv, Proved!IInv, Backend!TypeOK, Proved!TypeOK, Backend!Conservation,
     Proved!Conservation, Backend!Closing, Proved!Closing, Backend!Taken, Proved!Taken,
     Backend!LossHasCause, Proved!LossHasCause, Backend!None, Proved!None, Backend!Count,
     Proved!Count, Backend!Kind, Proved!Kind, Backend!Flusher, Proved!Flusher

LEMMA BackendInvariance == Backend!Spec => []Backend!IInv
  <1>1. NumURLs * MaxAttempts \in Nat /\ 0 \in Nat /\ 1 \in Nat \ {0}
    BY NumURLsAssumption, MaxAttemptsAssumption
  <1> QED
    BY <1>1, SameInit, SameNext, SameIInv, Proved!Invariance, PTL DEF Backend!Spec, Proved!Spec

-----------------------------------------------------------------------------
(* A step of the whole is a step or a stutter of the backend *)

LEMMA ContextStep ==
  ASSUME cancelled \in BOOLEAN, UNCHANGED backendVars, cancelled' \in {cancelled, TRUE}
  PROVE  [Backend!Next]_(Backend!vars)
  <1>1. CASE cancelled' = cancelled
    BY <1>1 DEF backendVars, Backend!vars
  <1>2. CASE cancelled = FALSE /\ cancelled' = TRUE
    <2>1. Backend!CancelCtx
      BY <1>2 DEF Backend!CancelCtx, backendVars, Backend!bufVars, Backend!sentVars,
         Backend!ctlVars
    <2> QED
      BY <2>1 DEF Backend!Next
  <1> QED
    BY <1>1, <1>2

(* What the steps of the crawler do to the context they share. *)
LEMMA CrawlerContext ==
  /\ \A w \in Worker : Attempt(w) \/ OtherWorkerStep(w) => cancelled' \in {cancelled, TRUE}
  /\ OtherStep \/ ReturnAfterFlush \/ ExitStep => cancelled' \in {cancelled, TRUE}
  <1>1. ASSUME NEW w \in Worker, Attempt(w) \/ OtherWorkerStep(w)
        PROVE  cancelled' \in {cancelled, TRUE}
    BY <1>1 DEF Attempt, OtherWorkerStep, RequestRefused, RequestDone, Take, QuitCancelled,
       QuitClosed, StartRequest, ReportAnswered, ReportExhausted, ReportRetry,
       ReportRetryAtOnce, BackoffOver, BackoffAborted, SetFatal, Cancel
  <1>2. ASSUME OtherStep \/ ReturnAfterFlush \/ ExitStep
        PROVE  cancelled' \in {cancelled, TRUE}
    BY <1>2 DEF OtherStep, ReturnAfterFlush, ExitStep, ProducerDone, LoggerStep, LogWrite,
       LogLost,
       LogEnd, StartFail, Start, MainJoin, MainDrained, MainReturn, MainExit
  <1> QED
    BY <1>1, <1>2

LEMMA BackendNext ==
  ASSUME TypeOK, [JgetNext]_jgetVars
  PROVE  [Backend!Next]_(Backend!vars)
  <1>0. cancelled \in BOOLEAN
    BY DEF TypeOK
  <1>1. ASSUME NEW w \in Worker, Attempt(w) PROVE Backend!Next
    BY <1>1 DEF Attempt, RecordHTTP, Backend!Next, Backend!Kind
  <1>2. ASSUME NEW w \in Worker, OtherWorkerStep(w) PROVE [Backend!Next]_(Backend!vars)
    BY <1>0, <1>2, ContextStep, CrawlerContext DEF OtherWorkerStep
  <1>3. CASE OtherStep \/ ReturnAfterFlush \/ ExitStep
    BY <1>0, <1>3, ContextStep, CrawlerContext DEF OtherStep, ReturnAfterFlush, ExitStep
  <1>4. CASE BackendStep
    BY <1>4 DEF BackendStep, QuietBackendStep, SubmissionFailed, Backend!Next,
       Backend!FlushStep, Backend!OwnerStep
  <1>5. CASE MainFlush \/ MainClose
    BY <1>5 DEF MainFlush, MainClose, Backend!Next, Backend!OwnerStep
  <1>6. CASE JgetDone \/ UNCHANGED jgetVars
    BY <1>6 DEF JgetDone, Terminated, jgetVars, backendVars, vars, Backend!vars
  <1> QED
    BY <1>1, <1>2, <1>3, <1>4, <1>5, <1>6 DEF JgetNext, JgetMain

(* The backend as run() drives it, context included, is MetricsBackend. *)
THEOREM BackendPart == JgetSpec => Backend!Spec
  <1>1. JgetInit => Backend!Init
    BY DEF JgetInit
  <1>2. JgetSpec => []TypeOK
    BY CrawlerPart, TypeCorrect, PTL
  <1> QED
    BY <1>1, <1>2, BackendNext, PTL DEF JgetSpec, Backend!Spec

-----------------------------------------------------------------------------
(* What the crawler and the backend know of each other *)

(* run() returns only once Close has; Close is called when no worker can   *)
(* record any more; and a submission fails by itself, or because a URL     *)
(* failed and its worker cancelled the context.                            *)
Join ==
  /\ main = "exited" /\ code # "2" => owner = "closed"
  /\ owner # "open" => main \in {"defer", "exited"} /\ due = recorded
  /\ failed # {} => apiFailed \/ fatal

LEMMA JoinInit == JgetInit => Join
  BY DEF JgetInit, Join, Init, Backend!Init

(* A worker inside processURL means that main waits for it. *)
LEMMA NoneBusyAtEnd ==
  ASSUME IInv, main \in {"defer", "exited"}, NEW w \in Worker
  PROVE  pc[w] \notin Busy
  <1>1. pc[w] \in {"done", "idle"}
    <2>1. Progress /\ code \in {"running", "0", "1", "2"}
      BY DEF IInv, TypeOK
    <2>2. WorkersDone \/ \A v \in Worker : pc[v] = "idle"
      BY <2>1 DEF Progress
    <2> QED
      BY <2>2 DEF WorkersDone
  <1> QED
    BY <1>1 DEF Busy

LEMMA JoinStep ==
  ASSUME IInv, Join, [JgetNext]_jgetVars
  PROVE  Join'
  <1>1. ASSUME NEW w \in Worker, Attempt(w) PROVE Join'
    <2>1. pc[w] \in Busy
      BY <1>1 DEF Attempt, RequestRefused, RequestDone, Busy
    <2>2. main \notin {"defer", "exited"}
      BY <2>1, NoneBusyAtEnd
    <2>3. UNCHANGED <<main, code, fatal, owner, failed, apiFailed>>
      BY <1>1 DEF Attempt, RequestRefused, RequestDone, RecordHTTP, Backend!Observe,
         Backend!ctlVars, Backend!sentVars, mainVars, ownVars
    <2> QED
      BY <2>2, <2>3 DEF Join
  <1>2. ASSUME NEW w \in Worker, OtherWorkerStep(w) PROVE Join'
    <2>1. UNCHANGED <<main, code, backendVars, apiFailed>>
      BY <1>2 DEF OtherWorkerStep, ownVars, mainVars, Take, QuitCancelled, QuitClosed,
         StartRequest, ReportAnswered, ReportExhausted, ReportRetry, ReportRetryAtOnce,
         BackoffOver, BackoffAborted, SetFatal, Cancel
    <2>2. fatal' = fatal \/ fatal' = TRUE
      BY <1>2 DEF OtherWorkerStep, Take, QuitCancelled, QuitClosed,
         StartRequest, ReportAnswered, ReportExhausted, ReportRetry, ReportRetryAtOnce,
         BackoffOver, BackoffAborted, SetFatal, Cancel
    <2> QED
      BY <2>1, <2>2 DEF Join, backendVars
  <1>3. CASE OtherStep
    <2>1. UNCHANGED <<fatal, backendVars, apiFailed>>
      BY <1>3 DEF OtherStep, ownVars, ProducerDone, LoggerStep, LogWrite, LogLost, LogEnd,
         StartFail,
         Start, MainJoin, MainDrained
    <2>2. \/ UNCHANGED <<main, code>>
          \/ main \notin {"defer", "exited"} /\ (main' = "exited" => code' = "2")
      BY <1>3 DEF OtherStep, mainVars, ProducerDone, LoggerStep, LogWrite, LogLost, LogEnd,
         StartFail,
         Start, MainJoin, MainDrained
    <2> QED
      BY <2>1, <2>2 DEF Join, backendVars
  <1>4. CASE BackendStep
    <2>1. main # "exited" /\ UNCHANGED <<main, code, fatal>>
      BY <1>4 DEF BackendStep, QuietBackendStep, SubmissionFailed, Up, vars
    <2>2. UNCHANGED <<due, recorded>> /\ (owner' # "open" => owner # "open")
      BY <1>4 DEF BackendStep, QuietBackendStep, SubmissionFailed,
         Backend!Snapshot, Backend!Refused, Backend!Send, Backend!Tick, Backend!LoopStop,
         Backend!AwaitLoop, Backend!CloseReturns, Backend!SeriesAccepted,
         Backend!SeriesFailed, Backend!bufVars, Backend!ctlVars
    <2>3. failed' # {} => apiFailed' \/ fatal
      <3>1. ASSUME NEW f \in Backend!Flusher, Backend!Refused(f) PROVE fatal
        BY <2>1, <3>1 DEF Backend!Refused, IInv, Blame
      <3>2. ASSUME NEW f \in Backend!Flusher, NEW took \in BOOLEAN,
                   SubmissionFailed(f, took)
            PROVE  apiFailed'
        BY <3>2 DEF SubmissionFailed
      <3>3. ASSUME QuietBackendStep, \A f \in Backend!Flusher : ~Backend!Refused(f)
            PROVE  failed' = failed /\ apiFailed' = apiFailed
        BY <3>3 DEF QuietBackendStep, ownVars, Backend!Snapshot, Backend!Send, Backend!Tick,
           Backend!LoopStop, Backend!AwaitLoop, Backend!CloseReturns, Backend!sentVars,
           Backend!SeriesAccepted, Backend!Delivered
      <3> QED
        BY <1>4, <3>1, <3>2, <3>3 DEF BackendStep, Join
    <2> QED
      BY <2>1, <2>2, <2>3 DEF Join
  <1>5. CASE JgetMain
    <2>1. CASE MainFlush
      BY <2>1 DEF MainFlush, Backend!CallFlush, Backend!bufVars, Backend!sentVars,
         Backend!ctlVars, vars, Join
    <2>2. CASE ReturnAfterFlush
      BY <2>2 DEF ReturnAfterFlush, MainReturn, backendVars, ownVars, Join
    <2>3. CASE MainClose
      BY <2>3 DEF MainClose, Backend!CallClose, Backend!bufVars, Backend!sentVars, vars,
         ownVars, Join
    <2>4. CASE ExitStep
      BY <2>4 DEF ExitStep, ExitAfterClose, MainExit, backendVars, ownVars, Join
    <2> QED
      BY <1>5, <2>1, <2>2, <2>3, <2>4 DEF JgetMain
  <1>6. CASE JgetDone \/ UNCHANGED jgetVars
    BY <1>6 DEF JgetDone, Terminated, jgetVars, backendVars, ownVars, vars, Join
  <1> QED
    BY <1>1, <1>2, <1>3, <1>4, <1>5, <1>6 DEF JgetNext

THEOREM JoinInvariance == JgetSpec => [](IInv /\ Backend!IInv /\ Join)
  <1>1. JgetSpec => []IInv /\ []Backend!IInv
    BY CrawlerPart, BackendPart, Invariance, BackendInvariance, PTL
  <1> QED
    BY <1>1, JoinInit, JoinStep, PTL DEF JgetSpec

(* When the process exits, the backend holds nothing back. *)
LEMMA NothingHeld ==
  ASSUME Backend!IInv, Join, main = "exited", code # "2", NEW k \in Backend!Kind
  PROVE  /\ buf[k] = 0 /\ recorded[k] = accepted[k] + lost[k]
         /\ recorded[k] \in Nat /\ accepted[k] \in Nat /\ lost[k] \in Nat
  <1>1. owner = "closed" /\ due = recorded
    BY DEF Join
  <1>2. at["loop"] = "out" /\ at["owner"] = "out"
    BY <1>1 DEF Backend!IInv, Backend!Closing
  <1>3. snap["loop"][k] = 0 /\ snap["owner"][k] = 0
    BY <1>2 DEF Backend!IInv, Backend!TypeOK, Backend!Flusher, Backend!None
  <1>4. /\ due[k] + buf[k] <= recorded[k]
        /\ recorded[k] = buf[k] + snap["loop"][k] + snap["owner"][k] + accepted[k] + lost[k]
    BY <1>1 DEF Backend!IInv, Backend!Taken, Backend!Conservation
  <1>5. buf[k] \in Nat /\ recorded[k] \in Nat /\ accepted[k] \in Nat /\ lost[k] \in Nat
    BY DEF Backend!IInv, Backend!TypeOK, Backend!Count
  <1> QED
    BY <1>1, <1>3, <1>4, <1>5

(* A run that exits with 0 has delivered every attempt it recorded, unless *)
(* a submission failed for a reason of its own: main.go's order of waits,  *)
(* Flush, Close and cancel leaves no other way to lose one.                *)
THEOREM Delivered == JgetSpec => []DeliveredOnSuccess
  <1>1. IInv /\ Backend!IInv /\ Join => DeliveredOnSuccess
    <2> SUFFICES ASSUME IInv, Backend!IInv, Join, main = "exited", code = "0", ~apiFailed
                 PROVE  accepted = recorded
      BY DEF DeliveredOnSuccess
    <2>1. ~fatal
      <3>1. AllLoaded
        BY DEF IInv, Progress
      <3>2. ~AnyFailed
        BY <3>1 DEF AllLoaded, AnyFailed
      <3> QED
        BY <3>2 DEF IInv, Blame
    <2>2. lost = Backend!None
      BY <2>1 DEF Join, Backend!IInv, Backend!LossHasCause
    <2>3. \A k \in Backend!Kind : accepted[k] = recorded[k]
      BY <2>2, NothingHeld DEF Backend!None
    <2>4. accepted \in [Backend!Kind -> Nat] /\ recorded \in [Backend!Kind -> Nat]
      BY DEF Backend!IInv, Backend!TypeOK, Backend!Count
    <2> QED
      BY <2>3, <2>4
  <1> QED
    BY <1>1, JoinInvariance, PTL

-----------------------------------------------------------------------------
(* Sums over a finite set *)

(* A nonempty set of numbers has a least one: what follows by induction is *)
(* proved from the least counterexample.                                   *)
LEMMA LeastNat ==
  ASSUME NEW T, T \subseteq Nat, T # {}
  PROVE  \E x \in T : \A y \in T : x <= y
  <1> DEFINE R == OpToRel(<, Nat)
  <1>1. PICK x \in T : \A y \in T : ~ (<<y, x>> \in R)
    BY NatLessThanWellFounded, WFMin, Zenon
  <1>2. \A a \in Nat, b \in Nat : b < a => <<b, a>> \in R
    BY DEF OpToRel
  <1> HIDE DEF R
  <1>3. ASSUME NEW y \in T PROVE ~ (y < x)
    BY <1>1, <1>2, Zenon
  <1>4. \A y \in T : x <= y
    BY <1>3
  <1> QED
    BY <1>4

(* The element MapThenSumSet adds next, and what its sums satisfy. *)
Chosen(s) == CHOOSE x \in s : TRUE

AddsUp(g, t, J) ==
  /\ g[J] = Total(t, J)
  /\ \A s \in SUBSET J :
       g[s] = IF s = {} THEN 0 ELSE t[Chosen(s)] + g[s \ {Chosen(s)}]

(* A sum over a finite set adds its elements one by one. *)
LEMMA SumByElements ==
  ASSUME NEW J, IsFiniteSet(J), NEW t
  PROVE  \E g : AddsUp(g, t, J)
  <1> DEFINE Rest(g, s) == t[Chosen(s)] + g[s \ {Chosen(s)}]
             Small(m) == {s \in SUBSET J : Cardinality(s) <= m}
             Eqn(g, D) == g = [s \in D |-> IF s = {} THEN 0 ELSE Rest(g, s)]
             iter == CHOOSE g : Eqn(g, SUBSET J)
  <1>1. Total(t, J) = iter[J]
    BY DEF Total, MapThenSumSet, MapThenFoldSet, Chosen
  <1>2. \A s \in SUBSET J : /\ IsFiniteSet(s) /\ Cardinality(s) \in Nat
                            /\ s = {} <=> Cardinality(s) = 0
                            /\ s # {} => /\ s \ {Chosen(s)} \in SUBSET J
                                         /\ Cardinality(s \ {Chosen(s)}) = Cardinality(s) - 1
    <2> SUFFICES ASSUME NEW s \in SUBSET J
                 PROVE  /\ IsFiniteSet(s) /\ Cardinality(s) \in Nat
                        /\ s = {} <=> Cardinality(s) = 0
                        /\ s # {} => /\ s \ {Chosen(s)} \in SUBSET J
                                     /\ Cardinality(s \ {Chosen(s)}) = Cardinality(s) - 1
      OBVIOUS
    <2>1. IsFiniteSet(s)
      BY FS_Subset
    <2>2. Cardinality(s) \in Nat /\ (s = {} <=> Cardinality(s) = 0)
      BY <2>1, FS_CardinalityType, FS_EmptySet
    <2>3. s # {} => Chosen(s) \in s
      BY DEF Chosen
    <2>4. s # {} => Cardinality(s \ {Chosen(s)}) = Cardinality(s) - 1
      BY <2>1, <2>3, FS_RemoveElement
    <2> QED
      BY <2>1, <2>2, <2>4
  <1> HIDE DEF Rest
  <1>3. \A m \in Nat : \E g : Eqn(g, Small(m))
    <2> DEFINE Bad == {m \in Nat : ~ \E g : Eqn(g, Small(m))}
    <2>1. SUFFICES ASSUME Bad # {} PROVE FALSE
      OBVIOUS
    <2>2. PICK m \in Bad : \A k \in Bad : m <= k
      <3>1. Bad \subseteq Nat
        OBVIOUS
      <3> HIDE DEF Bad
      <3> QED
        BY <2>1, <3>1, LeastNat
    <2>3. m # 0
      <3>1. ASSUME NEW s \in Small(0) PROVE s = {}
        <4>1. s \in SUBSET J /\ Cardinality(s) <= 0
          OBVIOUS
        <4>2. Cardinality(s) \in Nat
          BY <4>1, <1>2
        <4>3. Cardinality(s) = 0
          BY <4>1, <4>2
        <4> QED
          BY <4>1, <4>3, <1>2
      <3> DEFINE z == [s \in Small(0) |-> 0]
      <3>2. z = [s \in Small(0) |-> IF s = {} THEN 0 ELSE Rest(z, s)]
        <4> HIDE DEF Small, z
        <4>1. \A s \in Small(0) : (IF s = {} THEN 0 ELSE Rest(z, s)) = 0
          BY <3>1
        <4> QED
          BY <4>1 DEF z
      <3> HIDE DEF z
      <3>3. \E g : Eqn(g, Small(0))
        BY <3>2
      <3> QED
        BY <3>3
    <2>4. m - 1 \in Nat /\ m - 1 \notin Bad /\ m \in Nat
      <3>1. m \in Nat
        OBVIOUS
      <3> HIDE DEF Bad
      <3> QED
        BY <2>2, <2>3, <3>1
    <2>5. PICK g : Eqn(g, Small(m - 1))
      BY <2>4
    <2> DEFINE h == [s \in Small(m) |-> IF s = {} THEN 0 ELSE Rest(g, s)]
    <2>6. \A s \in Small(m - 1) : s \in Small(m) /\ g[s] = h[s]
      <3> SUFFICES ASSUME NEW s \in Small(m - 1) PROVE s \in Small(m) /\ g[s] = h[s]
        OBVIOUS
      <3>1. s \in Small(m)
        <4>1. s \in SUBSET J /\ Cardinality(s) <= m - 1
          OBVIOUS
        <4>2. Cardinality(s) \in Nat /\ m \in Nat
          BY <4>1, <1>2, <2>4
        <4> QED
          BY <4>1, <4>2
      <3> HIDE DEF Small
      <3> QED
        BY <3>1, <2>5
    <2>7. \A s \in Small(m) : s # {} => Rest(g, s) = Rest(h, s)
      <3> SUFFICES ASSUME NEW s \in Small(m), s # {} PROVE Rest(g, s) = Rest(h, s)
        OBVIOUS
      <3>1. s \ {Chosen(s)} \in Small(m - 1)
        BY <1>2, <2>4
      <3> HIDE DEF Small, h
      <3> QED
        BY <3>1, <2>6 DEF Rest
    <2>8. Eqn(h, Small(m))
      <3> HIDE DEF Small, Bad
      <3>1. h = [s \in Small(m) |-> IF s = {} THEN 0 ELSE Rest(g, s)]
        OBVIOUS
      <3> HIDE DEF h
      <3> QED
        BY <2>7, <3>1
    <2> QED
      BY <2>8, <2>2
  <1>4. \E g : Eqn(g, SUBSET J)
    <2>1. Small(Cardinality(J)) = SUBSET J /\ Cardinality(J) \in Nat
      <3>1. \A s \in SUBSET J : Cardinality(s) <= Cardinality(J)
        BY FS_Subset
      <3> QED
        BY <3>1, FS_CardinalityType
    <2> HIDE DEF Small, Eqn
    <2>2. \E g : Eqn(g, Small(Cardinality(J)))
      BY <2>1, <1>3
    <2> QED
      BY <2>1, <2>2
  <1>5. Eqn(iter, SUBSET J)
    BY <1>4
  <1> HIDE DEF iter
  <1>6. \A s \in SUBSET J : iter[s] = IF s = {} THEN 0 ELSE t[Chosen(s)] + iter[s \ {Chosen(s)}]
    BY <1>5 DEF Rest
  <1> QED
    BY <1>1, <1>6 DEF AddsUp

(* One more of one element is one more of the sum. *)
LEMMA SumPlusOne ==
  ASSUME NEW J, IsFiniteSet(J), NEW t \in [J -> Nat], NEW j \in J
  PROVE  Total([t EXCEPT ![j] = @ + 1], J) = Total(t, J) + 1
  <1> DEFINE u == [t EXCEPT ![j] = @ + 1]
  <1>1. u \in [J -> Nat] /\ \A i \in J : u[i] = t[i] + (IF i = j THEN 1 ELSE 0)
    OBVIOUS
  <1> HIDE DEF u
  <1>a. PICK g : AddsUp(g, t, J)
    BY SumByElements
  <1>b. PICK h : AddsUp(h, u, J)
    BY SumByElements
  <1>2. /\ g[J] = Total(t, J)
        /\ \A s \in SUBSET J :
             g[s] = IF s = {} THEN 0 ELSE t[Chosen(s)] + g[s \ {Chosen(s)}]
    BY <1>a DEF AddsUp
  <1>3. /\ h[J] = Total(u, J)
        /\ \A s \in SUBSET J :
             h[s] = IF s = {} THEN 0 ELSE u[Chosen(s)] + h[s \ {Chosen(s)}]
    BY <1>b DEF AddsUp
  <1> DEFINE One(s) == IF j \in s THEN 1 ELSE 0
             Good(s) == g[s] \in Nat /\ h[s] = g[s] + One(s)
             Bad == {n \in Nat : \E s \in SUBSET J : Cardinality(s) = n /\ ~Good(s)}
  <1>4. \A s \in SUBSET J : Cardinality(s) \in Nat
    BY FS_Subset, FS_CardinalityType
  <1>5. SUFFICES Bad = {}
    <2>1. Good(J)
      BY <1>4, <1>5
    <2> QED
      BY <2>1, <1>2, <1>3 DEF u
  <1>6. SUFFICES ASSUME Bad # {} PROVE FALSE
    OBVIOUS
  <1>7. PICK n \in Bad : \A k \in Bad : n <= k
    <2>1. Bad \subseteq Nat
      OBVIOUS
    <2> HIDE DEF Bad
    <2> QED
      BY <1>6, <2>1, LeastNat
  <1>8. PICK s \in SUBSET J : Cardinality(s) = n /\ ~Good(s)
    OBVIOUS
  <1>9. s # {}
    <2>1. g[{}] = 0 /\ h[{}] = 0
      BY <1>2, <1>3
    <2>2. Good({})
      BY <2>1
    <2> QED
      BY <2>2, <1>8
  <1> DEFINE x == Chosen(s)
             r == s \ {x}
  <1>10. x \in s /\ x \in J /\ r \in SUBSET J
    BY <1>9 DEF Chosen
  <1>11. Good(r)
    <2>1. Cardinality(r) = n - 1 /\ Cardinality(r) \in Nat /\ n \in Nat
      <3>1. IsFiniteSet(s)
        BY FS_Subset
      <3> QED
        BY <3>1, <1>4, <1>8, <1>10, FS_RemoveElement
    <2>2. Cardinality(r) \notin Bad
      <3> HIDE DEF Bad, r
      <3> QED
        BY <2>1, <1>7
    <2> HIDE DEF Good, r
    <2> QED
      BY <2>1, <2>2, <1>10
  <1>12. g[s] = t[x] + g[r] /\ h[s] = u[x] + h[r]
    BY <1>2, <1>3, <1>9
  <1>13. One(s) = One(r) + (IF x = j THEN 1 ELSE 0)
    BY <1>10
  <1>14. Good(s)
    <2>1. t[x] \in Nat /\ u[x] = t[x] + (IF x = j THEN 1 ELSE 0)
      BY <1>1, <1>10
    <2>2. One(r) \in Nat
      OBVIOUS
    <2> HIDE DEF x, r, One
    <2> QED
      BY <2>1, <2>2, <1>11, <1>12, <1>13
  <1> QED
    BY <1>8, <1>14

LEMMA SumOfNone ==
  ASSUME NEW J, IsFiniteSet(J)
  PROVE  Total([j \in J |-> 0], J) = 0
  <1> DEFINE t == [j \in J |-> 0]
  <1>1. PICK g : AddsUp(g, t, J)
    BY SumByElements
  <1>2. /\ g[J] = Total(t, J)
        /\ \A s \in SUBSET J :
             g[s] = IF s = {} THEN 0 ELSE t[Chosen(s)] + g[s \ {Chosen(s)}]
    BY <1>1 DEF AddsUp
  <1> DEFINE Bad == {n \in Nat : \E s \in SUBSET J : Cardinality(s) = n /\ g[s] # 0}
  <1>3. \A s \in SUBSET J : Cardinality(s) \in Nat
    BY FS_Subset, FS_CardinalityType
  <1>4. SUFFICES ASSUME Bad # {} PROVE FALSE
    BY <1>2, <1>3
  <1>5. PICK n \in Bad : \A k \in Bad : n <= k
    <2>1. Bad \subseteq Nat
      OBVIOUS
    <2> HIDE DEF Bad
    <2> QED
      BY <1>4, <2>1, LeastNat
  <1>6. PICK s \in SUBSET J : Cardinality(s) = n /\ g[s] # 0
    OBVIOUS
  <1>7. s # {}
    BY <1>2, <1>6
  <1> DEFINE x == Chosen(s)
             r == s \ {x}
  <1>8. x \in s /\ x \in J /\ r \in SUBSET J
    BY <1>7 DEF Chosen
  <1>9. g[r] = 0
    <2>1. Cardinality(r) = n - 1 /\ Cardinality(r) \in Nat /\ n \in Nat
      <3>1. IsFiniteSet(s)
        BY FS_Subset
      <3> QED
        BY <3>1, <1>3, <1>6, <1>8, FS_RemoveElement
    <2>2. Cardinality(r) \notin Bad
      <3> HIDE DEF Bad, r
      <3> QED
        BY <2>1, <1>5
    <2> HIDE DEF r
    <2> QED
      BY <2>1, <2>2, <1>8
  <1>10. g[s] = t[x] + g[r] /\ t[x] = 0
    BY <1>2, <1>7, <1>8
  <1> QED
    BY <1>6, <1>9, <1>10

-----------------------------------------------------------------------------
(* Every attempt is recorded, once *)

(* The number of the URLs is what the sum over them needs. *)
LEMMA JobsFinite == IsFiniteSet(Job)
  <1>1. 1 \in Int /\ NumURLs \in Int
    BY NumURLsAssumption
  <1>2. IsFiniteSet(1..NumURLs)
    BY <1>1, FS_Interval, Zenon
  <1> QED
    BY <1>2 DEF Job

LEMMA CountedInit == JgetInit => Counted
  <1> SUFFICES ASSUME JgetInit PROVE Counted
    OBVIOUS
  <1>1. tries = [j \in Job |-> 0]
    BY DEF JgetInit, Init
  <1>2. recorded["series"] = 0
    BY DEF JgetInit, Backend!Init, Backend!None, Backend!Kind
  <1>3. Total([j \in Job |-> 0], Job) = 0
    BY JobsFinite, SumOfNone
  <1> QED
    BY <1>1, <1>2, <1>3 DEF Counted, Samples, Attempts

LEMMA CountedStep ==
  ASSUME IInv, Backend!IInv, Counted, [JgetNext]_jgetVars
  PROVE  Counted'
  <1>a. recorded["series"] = Total(tries, Job)
    BY DEF Counted, Samples, Attempts
  <1>b. recorded'["series"] = Total(tries', Job) => Counted'
    BY DEF Counted, Samples, Attempts
  <1>0. tries \in [Job -> Nat] /\ recorded \in [Backend!Kind -> Nat]
    BY DEF IInv, TypeOK, Backend!IInv, Backend!TypeOK, Backend!Count
  <1>1. ASSUME NEW w \in Worker, Attempt(w) PROVE Counted'
    <2> PICK j : j = cur[w]
      OBVIOUS
    <2>1. tries' = [tries EXCEPT ![j] = @ + 1]
      BY <1>1 DEF Attempt, RequestRefused, RequestDone, CountTry
    <2>2. recorded'["series"] = recorded["series"] + 1
      BY <1>0, <1>1 DEF Attempt, RecordHTTP, Backend!Observe, Backend!Kind
    <2>3. j \in Job
      <3>1. pc[w] \in Busy
        BY <1>1 DEF Attempt, RequestRefused, RequestDone, Busy
      <3> QED
        BY <3>1 DEF IInv, TypeOK, Ownership
    <2>4. Total([tries EXCEPT ![j] = @ + 1], Job) = Total(tries, Job) + 1
      BY <1>0, <2>3, JobsFinite, SumPlusOne
    <2> QED
      BY <1>a, <1>b, <2>1, <2>2, <2>4
  <1>2. ASSUME UNCHANGED tries, recorded' = recorded PROVE Counted'
    BY <1>2, <1>a, <1>b
  <1>3. ASSUME NEW w \in Worker, OtherWorkerStep(w) PROVE Counted'
    BY <1>2, <1>3 DEF OtherWorkerStep, backendVars, Take, QuitCancelled, QuitClosed,
       StartRequest, ReportAnswered, ReportExhausted, ReportRetry, ReportRetryAtOnce,
       BackoffOver, BackoffAborted, SetFatal, Cancel, jobVars
  <1>4. CASE OtherStep
    BY <1>2, <1>4 DEF OtherStep, backendVars, ProducerDone, LoggerStep, LogWrite, LogLost,
       LogEnd,
       StartFail, Start, MainJoin, MainDrained, jobVars
  <1>5. CASE BackendStep
    BY <1>2, <1>5 DEF BackendStep, QuietBackendStep, SubmissionFailed, vars,
       Backend!Snapshot, Backend!Refused, Backend!Send, Backend!Tick, Backend!LoopStop,
       Backend!AwaitLoop, Backend!CloseReturns, Backend!SeriesAccepted,
       Backend!SeriesFailed, Backend!bufVars
  <1>6. CASE JgetMain
    BY <1>2, <1>6 DEF JgetMain, MainFlush, ReturnAfterFlush, MainClose, ExitStep, MainReturn,
       MainExit, backendVars, vars, jobVars, Backend!CallFlush, Backend!CallClose, Backend!bufVars
  <1>7. CASE JgetDone \/ UNCHANGED jgetVars
    BY <1>2, <1>7 DEF JgetDone, Terminated, jgetVars, backendVars, vars
  <1> QED
    BY <1>1, <1>3, <1>4, <1>5, <1>6, <1>7 DEF JgetNext

(* Every attempt doAttempt makes is in the backend's count once, whatever  *)
(* the workers, the loop and main do in between.                           *)
THEOREM CountedInvariance == JgetSpec => []Counted
  BY CountedInit, CountedStep, JoinInvariance, PTL DEF JgetSpec

(* When run() returns the backend is empty, every attempt was recorded,    *)
(* and every sample was delivered or reported lost: no worker records      *)
(* after the last flush, and no flush is cut off by the exit.              *)
THEOREM NothingLeft == JgetSpec => []NothingLeftBehind
  <1>1. Backend!IInv /\ Join /\ Counted => NothingLeftBehind
    <2> SUFFICES ASSUME Backend!IInv, Join, Counted, main = "exited", code # "2"
                 PROVE  /\ buf = Backend!None
                        /\ Samples(recorded) = Attempts
                        /\ Samples(recorded) = Samples(accepted) + Samples(lost)
      BY DEF NothingLeftBehind
    <2>1. buf = Backend!None
      <3>1. buf \in [Backend!Kind -> Nat]
        BY DEF Backend!IInv, Backend!TypeOK, Backend!Count
      <3> QED
        BY <3>1, NothingHeld DEF Backend!None
    <2>2. Samples(recorded) = Attempts
      BY DEF Counted
    <2>3. Samples(recorded) = Samples(accepted) + Samples(lost)
      BY NothingHeld DEF Samples, Backend!Kind
    <2> QED
      BY <2>1, <2>2, <2>3
  <1> QED
    BY <1>1, CountedInvariance, JoinInvariance, PTL
=============================================================================
