---------------------------- MODULE MCOutputFiles ----------------------------
(***************************************************************************)
(* OutputFiles for TLC, without symmetry: the run checks a refinement too. *)
(***************************************************************************)
EXTENDS OutputFiles
=============================================================================
