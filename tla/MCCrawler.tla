------------------------------ MODULE MCCrawler ------------------------------
(***************************************************************************)
(* Crawler for TLC, without symmetry: its run checks liveness too.         *)
(***************************************************************************)
EXTENDS Crawler
=============================================================================
