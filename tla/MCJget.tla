------------------------------- MODULE MCJget -------------------------------
(***************************************************************************)
(* Jget for TLC.  Terminates and the properties of the parts are those of  *)
(* MCCrawler and MCGauges; this run asks what only the whole can answer.   *)
(***************************************************************************)
EXTENDS Jget
=============================================================================
