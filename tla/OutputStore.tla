----------------------------- MODULE OutputStore -----------------------------
(***************************************************************************)
(* What the output directory of jget promises to whoever reads it, by the  *)
(* word "atomically" above writeBodyToFile in cmd/jget/main.go: an output  *)
(* file is either not there or holds one whole body of its URL.            *)
(***************************************************************************)
CONSTANTS
  Path,      \* the output files
  Body,      \* the bodies the servers may send
  Absent     \* no file

VARIABLE store     \* the body each output file holds, or Absent

Init == store = [p \in Path |-> Absent]

Put(p, b) == store' = [store EXCEPT ![p] = b]

Next == \E p \in Path, b \in Body : Put(p, b)

Spec == Init /\ [][Next]_store
=============================================================================
