-------------------------- MODULE OutputFilesProofs --------------------------
(***************************************************************************)
(* Proofs about OutputFiles, for any number of workers, files, bodies,     *)
(* pieces, calls and kills.                                                *)
(***************************************************************************)
EXTENDS OutputFiles, TLAPS

(* Naming no contents apart from any sequence of pieces. *)
LEMMA Constants ==
  /\ Chunks \in Nat \ {0}
  /\ Absent \notin Seq(Body) /\ Absent \notin Body /\ NoCall \notin Call
  BY ChunksAssumption, AbsentAssumption, NoCallAssumption DEF Call

(* The parts of TypeOK that the steps below use. *)
LEMMA Busy ==
  ASSUME TypeOK, NEW w \in Worker, pc[w] # "out"
  PROVE  /\ call[w] \in Call
         /\ call[w].path \in Path /\ call[w].body \in Body /\ call[w].temp \in Temp
  BY DEF TypeOK, Call

(* A sequence of Chunks equal pieces is a whole body. *)
LEMMA WholeBody ==
  ASSUME NEW b \in Body, NEW c \in Seq(Body), Len(c) = Chunks,
         \A i \in 1..Len(c) : c[i] = b
  PROVE  c = Whole(b)
  BY Constants DEF Whole

(* A file just created. *)
LEMMA EmptyFile ==
  /\ << >> # Absent
  /\ Len(<< >>) <= Chunks
  /\ \A i \in 1..Len(<< >>) : FALSE
  <1>1. << >> \in Seq(Body)
    OBVIOUS
  <1>2. << >> # Absent
    BY <1>1, AbsentAssumption, Zenon
  <1>3. Len(<< >>) <= Chunks
    BY ChunksAssumption
  <1>4. \A i \in 1..Len(<< >>) : FALSE
    OBVIOUS
  <1> QED
    BY <1>2, <1>3, <1>4

(* Appending a piece of b to pieces of b. *)
LEMMA AppendPiece ==
  ASSUME NEW b \in Body, NEW c \in Seq(Body), \A i \in 1..Len(c) : c[i] = b
  PROVE  /\ Append(c, b) \in Seq(Body)
         /\ Len(Append(c, b)) = Len(c) + 1
         /\ \A i \in 1..Len(Append(c, b)) : Append(c, b)[i] = b
  OBVIOUS

LEMMA InitInv == Init => IInv
  BY Constants DEF Init, IInv, TypeOK, OwnTemp, Drafts, NoPartialFile, TempsAccounted

(* What Drafts says of one worker. *)
Draft(v) ==
  pc[v] # "out" =>
    /\ Written(v) # Absent
    /\ Len(Written(v)) <= Chunks
    /\ \A i \in 1..Len(Written(v)) : Written(v)[i] = call[v].body
    /\ pc[v] \in {"close", "rename"} => Len(Written(v)) = Chunks

(* A step inside the call of w that changes no temporary file but its own  *)
(* leaves the drafts of the other workers alone.                           *)
LEMMA OtherDrafts ==
  ASSUME IInv, NEW w \in Worker, pc[w] # "out",
         \A u \in Temp : u # call[w].temp => tmp'[u] = tmp[u],
         \A v \in Worker \ {w} : pc'[v] = pc[v] /\ call'[v] = call[v]
  PROVE  \A v \in Worker \ {w} : Draft(v)'
  <1> SUFFICES ASSUME NEW v \in Worker \ {w}, pc[v] # "out" PROVE Draft(v)'
    BY DEF Draft
  <1>1. call[v].temp \in Temp /\ call[v].temp # call[w].temp
    BY Busy DEF IInv, OwnTemp
  <1>2. Written(v)' = Written(v)
    BY <1>1 DEF Written
  <1> QED
    BY <1>2 DEF IInv, Drafts, Draft

(* A step inside the call of w that stays inside it. *)
LEMMA InsideStep ==
  ASSUME IInv, NEW w \in Worker, pc[w] # "out", TypeOK', NEW to,
         to # "out", pc' = [pc EXCEPT ![w] = to], Draft(w)',
         \A u \in Temp : u # call[w].temp => tmp'[u] = tmp[u],
         UNCHANGED <<dir, call, left>>
  PROVE  IInv'
  <1>1. \A v \in Worker : /\ pc'[v] = "out" <=> pc[v] = "out"
                          /\ v # w => pc'[v] = pc[v]
    <2>1. pc'[w] = to /\ \A v \in Worker : v # w => pc'[v] = pc[v]
      BY DEF IInv, TypeOK
    <2> QED
      BY <2>1
  <1>2. OwnTemp'
    BY <1>1 DEF IInv, OwnTemp
  <1>3. Drafts'
    BY <1>1, OtherDrafts DEF Drafts, Draft
  <1>4. NoPartialFile'
    BY DEF IInv, NoPartialFile
  <1>5. TempsAccounted'
    BY <1>1 DEF IInv, TempsAccounted
  <1> QED
    BY <1>2, <1>3, <1>4, <1>5 DEF IInv

(* A step that ends the call of w: its temporary file is gone or is left.  *)
LEMMA ReturnStep ==
  ASSUME IInv, NEW w \in Worker, pc[w] # "out", TypeOK', Return(w),
         \A u \in Temp : u # call[w].temp => tmp'[u] = tmp[u],
         tmp'[call[w].temp] = Absent \/ call[w].temp \in left',
         left \subseteq left', NoPartialFile'
  PROVE  IInv'
  <1>1. \A v \in Worker \ {w} : pc'[v] = pc[v] /\ call'[v] = call[v]
    BY DEF IInv, TypeOK, Return, GoTo
  <1>2. pc'[w] = "out"
    BY DEF IInv, TypeOK, Return, GoTo
  <1>3. OwnTemp'
    BY <1>1, <1>2 DEF IInv, OwnTemp
  <1>4. Drafts'
    BY <1>1, <1>2, OtherDrafts DEF Drafts, Draft
  <1>5. TempsAccounted'
    BY <1>1 DEF IInv, TempsAccounted
  <1> QED
    BY <1>3, <1>4, <1>5 DEF IInv

(* A call begins: the new name is not that of any other call. *)
LEMMA CreateStep ==
  ASSUME IInv, NEW w \in Worker, NEW p \in Path, NEW b \in Body, NEW t \in Temp,
         Create(w, p, b, t)
  PROVE  IInv'
  <1> USE DEF GoTo
  <1>0. TypeOK /\ OwnTemp /\ Drafts /\ NoPartialFile /\ TempsAccounted
    BY DEF IInv
  <1>1. TypeOK'
    BY <1>0, Constants DEF Create, TypeOK, Call
  <1>2. \A v \in Worker : pc[v] # "out" => call[v].temp # t /\ v # w
    BY <1>0 DEF Create, FreshName, Drafts, Written
  <1>3. \A v \in Worker \ {w} : pc'[v] = pc[v] /\ call'[v] = call[v]
    BY <1>0 DEF Create, TypeOK
  <1>4. call'[w].temp = t /\ tmp'[t] = << >> /\ pc'[w] = "copy"
    BY <1>0 DEF Create, TypeOK
  <1>5. OwnTemp'
    BY <1>0, <1>2, <1>3, <1>4 DEF OwnTemp
  <1>6. Drafts'
    <2>1. ASSUME NEW v \in Worker \ {w}, pc[v] # "out" PROVE Draft(v)'
      <3>1. Written(v)' = Written(v)
        BY <1>0, <1>2, <1>3, <2>1, Busy DEF Create, Written, TypeOK
      <3> QED
        BY <1>0, <1>3, <3>1 DEF Drafts, Draft
    <2>2. Draft(w)'
      <3>1. Written(w)' = << >>
        BY <1>4 DEF Written
      <3> QED
        BY <1>4, <3>1, EmptyFile DEF Draft
    <2> QED
      BY <1>3, <2>1, <2>2 DEF Drafts, Draft
  <1>7. NoPartialFile'
    BY <1>0 DEF Create, NoPartialFile
  <1>8. TempsAccounted'
    BY <1>0, <1>2, <1>3, <1>4 DEF Create, TypeOK, TempsAccounted
  <1> QED
    BY <1>1, <1>5, <1>6, <1>7, <1>8 DEF IInv

(* io.Copy, Close and a failing Rename. *)
LEMMA CopyStep ==
  ASSUME IInv, NEW w \in Worker, Copy(w) PROVE IInv'
  <1> DEFINE b == call[w].body
             c == Written(w)
  <1>1. pc[w] = "copy" /\ call[w] \in Call /\ b \in Body /\ call[w].temp \in Temp
    BY Busy DEF Copy, IInv
  <1>2. c \in Seq(Body) /\ Len(c) < Chunks /\ \A i \in 1..Len(c) : c[i] = b
    BY <1>1 DEF Copy, IInv, TypeOK, Drafts, Written
  <1>3. tmp' = [tmp EXCEPT ![call[w].temp] = Append(c, b)] /\ call' = call /\ pc' = pc
    BY DEF Copy, Written
  <1>4. Written(w)' = Append(c, b)
    BY <1>1, <1>3 DEF Written, IInv, TypeOK
  <1> HIDE DEF b, c
  <1>5. /\ Append(c, b) \in Seq(Body) /\ Len(Append(c, b)) <= Chunks
        /\ \A i \in 1..Len(Append(c, b)) : Append(c, b)[i] = b
    BY <1>1, <1>2, AppendPiece, Constants
  <1>6. Draft(w)'
    BY <1>1, <1>3, <1>4, <1>5, Constants DEF Draft, b
  <1>7. TypeOK'
    BY <1>1, <1>3, <1>5 DEF Copy, IInv, TypeOK
  <1>8. pc' = [pc EXCEPT ![w] = "copy"]
    BY <1>1, <1>3 DEF IInv, TypeOK
  <1>9. \A u \in Temp : u # call[w].temp => tmp'[u] = tmp[u]
    BY <1>3 DEF IInv, TypeOK
  <1> QED
    BY <1>1, <1>6, <1>7, <1>8, <1>9, InsideStep DEF Copy

(* The steps of a call that touch no file. *)
LEMMA MoveStep ==
  ASSUME IInv, NEW w \in Worker,
         CopyDone(w) \/ CopyFailed(w) \/ Close(w, TRUE) \/ Close(w, FALSE) \/ RenameFailed(w)
  PROVE  IInv'
  <1>1. PICK to \in {"close", "rename", "remove"} :
             /\ pc' = [pc EXCEPT ![w] = to]
             /\ to \in {"close", "rename"} => Len(Written(w)) = Chunks
    BY DEF CopyDone, CopyFailed, Close, RenameFailed, GoTo, AfterCopyError, AfterCloseError,
       IInv, Drafts
  <1>2. pc[w] # "out" /\ UNCHANGED <<dir, tmp, call, calls, kills, left>>
    BY DEF CopyDone, CopyFailed, Close, RenameFailed
  <1>3. TypeOK'
    BY <1>1, <1>2 DEF IInv, TypeOK
  <1>4. Draft(w)'
    <2>1. pc'[w] = to /\ Written(w)' = Written(w)
      BY <1>1, <1>2 DEF Written, IInv, TypeOK
    <2> QED
      BY <1>1, <1>2, <2>1 DEF Draft, IInv, Drafts
  <1> QED
    BY <1>1, <1>2, <1>3, <1>4, InsideStep

(* What Rename puts into place is the body of its call. *)
LEMMA RenameWhole ==
  ASSUME IInv, NEW w \in Worker, Rename(w)
  PROVE  /\ call[w].path \in Path /\ call[w].body \in Body /\ call[w].temp \in Temp
         /\ Written(w) = Whole(call[w].body) /\ Written(w) \in Seq(Body)
  <1>1. pc[w] = "rename"
    BY DEF Rename
  <1>2. /\ call[w].path \in Path /\ call[w].body \in Body /\ call[w].temp \in Temp
    BY <1>1, Busy DEF IInv
  <1>3. /\ Written(w) \in Seq(Body) /\ Len(Written(w)) = Chunks
        /\ \A i \in 1..Len(Written(w)) : Written(w)[i] = call[w].body
    BY <1>1, <1>2 DEF IInv, Drafts, Written, TypeOK
  <1> QED
    BY <1>2, <1>3, WholeBody

LEMMA RenameStep ==
  ASSUME IInv, NEW w \in Worker, Rename(w) PROVE IInv'
  <1>1. pc[w] # "out" /\ Return(w) /\ left' = left
    BY DEF Rename
  <1>2. TypeOK'
    BY RenameWhole, Constants DEF Rename, Return, GoTo, IInv, TypeOK
  <1>3. tmp'[call[w].temp] = Absent /\ \A u \in Temp : u # call[w].temp => tmp'[u] = tmp[u]
    BY RenameWhole DEF Rename, IInv, TypeOK
  <1>4. NoPartialFile'
    BY RenameWhole DEF Rename, IInv, TypeOK, NoPartialFile, Whole
  <1> QED
    BY <1>1, <1>2, <1>3, <1>4, ReturnStep

LEMMA RemoveStep ==
  ASSUME IInv, NEW w \in Worker, NEW ok \in BOOLEAN, Remove(w, ok) PROVE IInv'
  <1>1. pc[w] # "out" /\ Return(w) /\ call[w].temp \in Temp
    BY Busy DEF Remove, IInv
  <1>2. TypeOK'
    BY <1>1, Constants DEF Remove, Return, GoTo, IInv, TypeOK
  <1>3. /\ tmp'[call[w].temp] = Absent \/ call[w].temp \in left'
        /\ \A u \in Temp : u # call[w].temp => tmp'[u] = tmp[u]
        /\ left \subseteq left'
    BY <1>1 DEF Remove, IInv, TypeOK
  <1>4. NoPartialFile'
    BY DEF Remove, IInv, NoPartialFile
  <1> QED
    BY <1>1, <1>2, <1>3, <1>4, ReturnStep

LEMMA KillStep ==
  ASSUME IInv, Kill PROVE IInv'
  <1>1. TypeOK'
    BY Busy, Constants DEF Kill, IInv, TypeOK
  <1>2. OwnTemp' /\ Drafts' /\ NoPartialFile'
    BY DEF Kill, IInv, OwnTemp, Drafts, NoPartialFile
  <1>3. TempsAccounted'
    BY DEF Kill, IInv, TempsAccounted
  <1> QED
    BY <1>1, <1>2, <1>3 DEF IInv

LEMMA UnchangedStep ==
  ASSUME IInv, UNCHANGED <<dir, tmp, pc, call, kills, left>>, calls' \in Nat PROVE IInv'
  BY DEF IInv, TypeOK, OwnTemp, Drafts, Written, NoPartialFile, TempsAccounted

THEOREM Invariance == Spec => []IInv
  <1>1. IInv /\ [Next]_vars => IInv'
    <2> SUFFICES ASSUME IInv, [Next]_vars PROVE IInv'
      OBVIOUS
    <2>1. ASSUME NEW w \in Worker, CreateFailed(w) PROVE IInv'
      BY <2>1, UnchangedStep DEF CreateFailed, IInv, TypeOK
    <2>2. CASE UNCHANGED vars
      BY <2>2, UnchangedStep DEF vars, IInv, TypeOK
    <2> QED
      BY <2>1, <2>2, CreateStep, CopyStep, MoveStep, RenameStep, RemoveStep, KillStep
         DEF Next, Step, Terminated
  <1> QED
    BY InitInv, <1>1, PTL DEF Spec

(* However many workers write, fail and are killed, an output file that is *)
(* there holds one whole body.                                             *)
THEOREM Atomic == Spec => []NoPartialFile
  BY Invariance, PTL DEF IInv

(* No path through the errors of a call forgets its temporary file. *)
THEOREM NoForgottenTemps == Spec => []TempsAccounted
  BY Invariance, PTL DEF IInv

-----------------------------------------------------------------------------
(* A reader of the directory sees OutputStore: a Rename that succeeds is a *)
(* Put of the body, and every other step is a stutter.                     *)

(* The contents of a whole body say which body it is. *)
LEMMA BodyOfWhole ==
  ASSUME NEW b \in Body PROVE BodyOf(Whole(b)) = b /\ Whole(b) # Absent
  <1>1. \A c \in Body : Whole(c) = Whole(b) => c = b
    <2> SUFFICES ASSUME NEW c \in Body, Whole(c) = Whole(b) PROVE c = b
      OBVIOUS
    <2>1. Whole(c)[1] = c /\ Whole(b)[1] = b
      BY Constants DEF Whole
    <2> QED
      BY <2>1
  <1>2. Whole(b) # Absent
    <2>1. Whole(b) \in Seq(Body)
      BY Constants DEF Whole
    <2> QED
      BY <2>1, AbsentAssumption, Zenon
  <1> HIDE DEF Whole
  <1> QED
    BY <1>1, <1>2 DEF BodyOf

LEMMA ReaderStep == IInv /\ [Next]_vars => [Reader!Next]_[p \in Path |-> BodyOf(dir[p])]
  <1> SUFFICES ASSUME IInv, [Next]_vars
               PROVE  [Reader!Next]_[p \in Path |-> BodyOf(dir[p])]
    OBVIOUS
  <1>1. ASSUME NEW w \in Worker, Rename(w) PROVE Reader!Next
    <2> DEFINE p == call[w].path
               b == call[w].body
    <2>1. p \in Path /\ b \in Body
      BY <1>1, RenameWhole
    <2>2. dir' = [dir EXCEPT ![p] = Whole(b)]
      BY <1>1, RenameWhole DEF Rename
    <2>3. \A q \in Path : BodyOf(dir'[q]) = IF q = p THEN b ELSE BodyOf(dir[q])
      BY <2>1, <2>2, BodyOfWhole DEF IInv, TypeOK
    <2> HIDE DEF p, b
    <2>4. Reader!Put(p, b)
      BY <2>1, <2>3 DEF Reader!Put
    <2> QED
      BY <2>1, <2>4 DEF Reader!Next
  <1>2. CASE UNCHANGED dir
    BY <1>2
  <1>3. ASSUME NEW w \in Worker, Step(w), ~Rename(w) PROVE UNCHANGED dir
    BY <1>3 DEF Step, Create, CreateFailed, Copy, CopyDone, CopyFailed, Close, RenameFailed,
       Remove
  <1> QED
    BY <1>1, <1>2, <1>3 DEF Next, Kill, Terminated, vars

(* Each output file goes in one step from what a reader could see to the   *)
(* whole body of a later answer.                                           *)
THEOREM Refinement == Spec => ImplementsStore
  <1>1. Init => Reader!Init
    BY DEF Init, Reader!Init, BodyOf
  <1> QED
    BY <1>1, Invariance, ReaderStep, PTL DEF Spec, ImplementsStore, Reader!Spec
=============================================================================
