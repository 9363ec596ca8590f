----------------------------- MODULE OutputFiles -----------------------------
(***************************************************************************)
(* writeBodyToFile of cmd/jget/main.go, call by call: create a temporary   *)
(* file in the output directory, copy the body into it, close it, rename   *)
(* it into place, and remove it when one of these fails.  Several workers  *)
(* do this at once, for different output files or, when the list holds a   *)
(* URL twice, for the same one; the process may be killed anywhere and run *)
(* again over the same directory.                                          *)
(*                                                                         *)
(* A body is a model value, read in Chunks pieces; the contents of a file  *)
(* is the sequence of pieces written to it.                                *)
(***************************************************************************)
EXTENDS Naturals, Sequences

CONSTANTS
  Worker,       \* the goroutines that may be inside writeBodyToFile
  Path,         \* the output files (hashString of a URL)
  Body,         \* the bodies the servers may send
  Temp,         \* the names CreateTemp may draw
  Chunks,       \* pieces of a body
  MaxCalls,     \* bound: calls of writeBodyToFile, over all runs
  MaxKills,     \* bound: how often the process is killed
  Absent,       \* no file of that name
  NoCall        \* a worker that is not inside writeBodyToFile

ASSUME ChunksAssumption == Chunks \in Nat \ {0}
ASSUME AbsentAssumption == Absent \notin Seq(Body) /\ Absent \notin Body
ASSUME NoCallAssumption == NoCall \notin [path : Path, body : Body, temp : Temp]

VARIABLES
  dir,       \* contents of each output file, or Absent
  tmp,       \* contents of each temporary file, or Absent
  pc,        \* where each worker is
  call,      \* its outputPath, the body it reads, its tmpName
  calls,     \* calls begun so far
  kills,     \* kills so far
  (* History *)
  left       \* temporary files nobody will remove: a kill, or Remove failed

vars == <<dir, tmp, pc, call, calls, kills, left>>

Init ==
  /\ dir = [p \in Path |-> Absent]
  /\ tmp = [t \in Temp |-> Absent]
  /\ pc = [w \in Worker |-> "out"]
  /\ call = [w \in Worker |-> NoCall]
  /\ calls = 0 /\ kills = 0
  /\ left = {}

GoTo(w, to) == pc' = [pc EXCEPT ![w] = to]

Return(w) == GoTo(w, "out") /\ call' = [call EXCEPT ![w] = NoCall]

-----------------------------------------------------------------------------
(* A call begins with CreateTemp *)

(* O_EXCL: CreateTemp draws another name while the name exists. *)
FreshName(t) == tmp[t] = Absent

Create(w, p, b, t) ==
  /\ pc[w] = "out" /\ calls < MaxCalls
  /\ FreshName(t)
  /\ calls' = calls + 1
  /\ call' = [call EXCEPT ![w] = [path |-> p, body |-> b, temp |-> t]]
  /\ tmp' = [tmp EXCEPT ![t] = << >>]
  /\ GoTo(w, "copy")
  /\ UNCHANGED <<dir, kills, left>>

CreateFailed(w) ==
  /\ pc[w] = "out" /\ calls < MaxCalls
  /\ calls' = calls + 1
  /\ UNCHANGED <<dir, tmp, pc, call, kills, left>>

-----------------------------------------------------------------------------
(* io.Copy, one piece at a time, and tmp.Close *)

Written(w) == tmp[call[w].temp]

Copy(w) ==
  /\ pc[w] = "copy"
  /\ Len(Written(w)) < Chunks
  /\ tmp' = [tmp EXCEPT ![call[w].temp] = Append(@, call[w].body)]
  /\ UNCHANGED <<dir, pc, call, calls, kills, left>>

CopyDone(w) ==
  /\ pc[w] = "copy"
  /\ Len(Written(w)) = Chunks
  /\ GoTo(w, "close")
  /\ UNCHANGED <<dir, tmp, call, calls, kills, left>>

(* Fault: the error of io.Copy is not looked at. *)
CopyErrorIgnored == "close"

AfterCopyError == "remove"

(* The connection, the disk or the cancelled context cuts the copy short.  *)
(* The file is closed before copyErr is looked at, and what Close returned *)
(* is then forgotten.                                                      *)
CopyFailed(w) ==
  /\ pc[w] = "copy"
  /\ GoTo(w, AfterCopyError)
  /\ UNCHANGED <<dir, tmp, call, calls, kills, left>>

AfterCloseError == "remove"

Close(w, ok) ==
  /\ pc[w] = "close"
  /\ GoTo(w, IF ok THEN "rename" ELSE AfterCloseError)
  /\ UNCHANGED <<dir, tmp, call, calls, kills, left>>

-----------------------------------------------------------------------------
(* os.Rename and os.Remove *)

(* Fault: the body is copied to its place piece by piece. *)
RenameByCopy(w) ==
  /\ pc[w] = "rename"
  /\ dir' = [dir EXCEPT ![call[w].path] =
               IF @ = Absent THEN << >> ELSE Written(w)]
  /\ IF dir[call[w].path] = Absent
     THEN UNCHANGED <<tmp, pc, call>>
     ELSE tmp' = [tmp EXCEPT ![call[w].temp] = Absent] /\ Return(w)
  /\ UNCHANGED <<calls, kills, left>>

Rename(w) ==
  /\ pc[w] = "rename"
  /\ dir' = [dir EXCEPT ![call[w].path] = Written(w)]
  /\ tmp' = [tmp EXCEPT ![call[w].temp] = Absent]
  /\ Return(w)
  /\ UNCHANGED <<calls, kills, left>>

(* Fault: the temporary file survives a failed Rename. *)
RenameFailedKeeps(w) ==
  /\ pc[w] = "rename"
  /\ Return(w)
  /\ UNCHANGED <<dir, tmp, calls, kills, left>>

RenameFailed(w) ==
  /\ pc[w] = "rename"
  /\ GoTo(w, "remove")
  /\ UNCHANGED <<dir, tmp, call, calls, kills, left>>

(* The error of Remove is ignored. *)
Remove(w, ok) ==
  /\ pc[w] = "remove"
  /\ IF ok
     THEN tmp' = [tmp EXCEPT ![call[w].temp] = Absent] /\ UNCHANGED left
     ELSE left' = left \cup {call[w].temp} /\ UNCHANGED tmp
  /\ Return(w)
  /\ UNCHANGED <<dir, calls, kills>>

-----------------------------------------------------------------------------
(* The process is killed, and jget is started again on the directory.      *)
(* Nothing in it looks for the temporary files of an earlier run.          *)

Kill ==
  /\ kills < MaxKills
  /\ kills' = kills + 1
  /\ left' = left \cup {call[w].temp : w \in {v \in Worker : pc[v] # "out"}}
  /\ pc' = [w \in Worker |-> "out"]
  /\ call' = [w \in Worker |-> NoCall]
  /\ UNCHANGED <<dir, tmp, calls>>

(* All URLs are done. *)
Terminated ==
  /\ calls = MaxCalls /\ \A w \in Worker : pc[w] = "out"
  /\ UNCHANGED vars

Step(w) ==
  \/ \E p \in Path, b \in Body, t \in Temp : Create(w, p, b, t)
  \/ CreateFailed(w)
  \/ Copy(w)
  \/ CopyDone(w)
  \/ CopyFailed(w)
  \/ \E ok \in BOOLEAN : Close(w, ok) \/ Remove(w, ok)
  \/ Rename(w)
  \/ RenameFailed(w)

Next == (\E w \in Worker : Step(w)) \/ Kill \/ Terminated

Spec == Init /\ [][Next]_vars

-----------------------------------------------------------------------------
(* Properties *)

Call == [path : Path, body : Body, temp : Temp]

(* The type invariant. *)
TypeOK ==
  /\ dir \in [Path -> Seq(Body) \cup {Absent}]
  /\ tmp \in [Temp -> Seq(Body) \cup {Absent}]
  /\ pc \in [Worker -> {"out", "copy", "close", "rename", "remove"}]
  /\ call \in [Worker -> Call \cup {NoCall}]
  /\ \A w \in Worker : pc[w] = "out" <=> call[w] = NoCall
  /\ calls \in Nat /\ kills \in Nat
  /\ left \in SUBSET Temp

Whole(b) == [i \in 1..Chunks |-> b]

(* "Atomically": at every moment, kills included, an output file that is   *)
(* there holds one whole body, never a part of one or a mix of two, with   *)
(* any number of workers writing the same file.                            *)
NoPartialFile ==
  \A p \in Path : dir[p] # Absent => \E b \in Body : dir[p] = Whole(b)

(* A temporary file on disk is one a call is still writing, or was left by *)
(* a kill or a failed Remove: no path through the errors forgets one.      *)
TempsAccounted ==
  \A t \in Temp : tmp[t] # Absent =>
    t \in left \/ \E w \in Worker : pc[w] # "out" /\ call[w].temp = t

(* A reader of the output directory sees OutputStore. *)
BodyOf(c) ==
  IF c = Absent THEN Absent
  ELSE IF \E b \in Body : c = Whole(b) THEN CHOOSE b \in Body : c = Whole(b)
  ELSE << >>

Reader == INSTANCE OutputStore WITH store <- [p \in Path |-> BodyOf(dir[p])]

(* Each output file changes only from absent or whole to whole, in one     *)
(* step, and never goes away again.                                        *)
ImplementsStore == Reader!Spec

-----------------------------------------------------------------------------
(* The inductive invariant behind NoPartialFile and ImplementsStore, shown *)
(* to be one in module OutputFilesProofs.                                  *)

(* No two calls write to the same temporary file. *)
OwnTemp ==
  \A v, w \in Worker :
    pc[v] # "out" /\ pc[w] # "out" /\ call[v].temp = call[w].temp => v = w

(* The temporary file of a call holds pieces of its body only, and all of  *)
(* them once io.Copy has returned without an error.                        *)
Drafts ==
  \A w \in Worker : pc[w] # "out" =>
    /\ Written(w) # Absent
    /\ Len(Written(w)) <= Chunks
    /\ \A i \in 1..Len(Written(w)) : Written(w)[i] = call[w].body
    /\ pc[w] \in {"close", "rename"} => Len(Written(w)) = Chunks

IInv == TypeOK /\ OwnTemp /\ Drafts /\ NoPartialFile /\ TempsAccounted
=============================================================================
