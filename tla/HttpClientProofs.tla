-------------------------- MODULE HttpClientProofs --------------------------
(***************************************************************************)
(* Proofs about HttpClient, for any configuration of the client and any    *)
(* width of a duration.                                                    *)
(***************************************************************************)
EXTENDS HttpClient, TLAPS

(* NewClient leaves no negative number of retries. *)
LEMMA RetriesType == TypeOK => maxRetries \in Nat /\ config.retries \in Int
  BY ConfigAssumption DEF TypeOK, maxRetries

(* A call starts in a state of the invariant. *)
LEMMA InitInv == Init => IInv
  <1> SUFFICES ASSUME Init PROVE IInv
    OBVIOUS
  <1>1. maxRetries \in Nat
    BY ConfigAssumption DEF Init, maxRetries
  <1> QED
    BY <1>1 DEF Init, IInv, TypeOK, BodiesClosed, AttemptBudget, OneLateRequest, Counting

(* Every step of the call, of the server and of the context keeps it. *)
LEMMA NextInv == IInv /\ [Next]_vars => IInv'
  <1> SUFFICES ASSUME IInv, [Next]_vars PROVE IInv'
    OBVIOUS
  <1>0. /\ maxRetries \in Nat /\ attempt \in Nat /\ requests \in Nat /\ late \in Nat
        /\ maxRetries' = maxRetries /\ config' = config /\ request' = request
    <2>1. config' = config /\ request' = request
      BY DEF Next, Do, Start, Check, Send, Final, Fail, WaitOver, WaitCancelled, Respond,
         GiveUp, Arrive, ReadAndClose, Cancel, Finished, callVars, vars
    <2>2. maxRetries' = maxRetries
      BY <2>1 DEF maxRetries
    <2> QED
      BY <2>1, <2>2, RetriesType DEF IInv, TypeOK
  <1> USE DEF IInv, TypeOK, BodiesClosed, AttemptBudget, OneLateRequest, Counting
  <1>1. CASE Start
    BY <1>0, <1>1 DEF Start, Return, Errors
  <1>2. CASE Check
    BY <1>0, <1>2 DEF Check, ContextSeenDone, Return, Errors
  <1>3. CASE Send
    BY <1>0, <1>3 DEF Send
  <1>4. ASSUME NEW a \in Answers, Arrive(a) PROVE IInv'
    BY <1>0, <1>4 DEF Arrive, Answers
  <1>5. CASE Final
    BY <1>0, <1>5 DEF Final
  <1>6. CASE Fail
    BY <1>0, <1>6 DEF Fail, Closed, attempts, Return, Answers, Errors
  <1>7. CASE WaitOver
    BY <1>0, <1>7 DEF WaitOver
  <1>8. CASE WaitCancelled
    BY <1>0, <1>8 DEF WaitCancelled, Return, Errors
  <1>9. CASE ReadAndClose
    BY <1>0, <1>9 DEF ReadAndClose
  <1>10. CASE Cancel
    BY <1>0, <1>10 DEF Cancel, callVars
  <1>11. CASE UNCHANGED vars
    BY <1>0, <1>11 DEF vars, callVars
  <1> HIDE DEF IInv
  <1>12. Respond \/ GiveUp => \E a \in Answers : Arrive(a)
    BY DEF Respond, GiveUp, Answers
  <1> QED
    BY <1>1, <1>2, <1>3, <1>4, <1>5, <1>6, <1>7, <1>8, <1>9, <1>10, <1>11, <1>12
       DEF Next, Do, Finished

(* The types, for every configuration. *)
THEOREM Invariance == Spec => []IInv
  BY InitInv, NextInv, PTL DEF Spec

(* No path through Do and FetchFirstBytes leaves a body open or closes one *)
(* twice (client.go:173, peek.go:31).                                      *)
THEOREM NoBodyLeak == Spec => []BodiesClosed
  BY Invariance, PTL DEF IInv

(* Do keeps its budget of MaxRetries + 1 requests and uses all of it       *)
(* before it gives up (client.go:136, 178).                                *)
THEOREM Budget == Spec => []AttemptBudget
  BY Invariance, PTL DEF IInv

(* One request at most goes out after the cancellation (client.go:141).    *)
THEOREM PromptCancel == Spec => []OneLateRequest
  BY Invariance, PTL DEF IInv
=============================================================================
